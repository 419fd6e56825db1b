----------------------------- MODULE OrderCaches -----------------------------
(***************************************************************************)
(* The two redis caches of one order, and the handlers of the two services *)
(* that use them: the order cache ("order:"+id, filled by the              *)
(* order-service, deleted by the tracking-service) and the timeline cache  *)
(* (filled and deleted by the tracking-service).                           *)
(*                                                                         *)
(* OrderStore shows that a status change takes effect in one step; here it *)
(* is one step, and the order's row and timeline are their version, the    *)
(* number of changes so far.  Redis and Postgres calls of a request are    *)
(* steps of their own.  A redis call fails when redis does or when the     *)
(* handler's deadline is over (the handlers pass their context on), and    *)
(* every failure but one of Postgres is only logged.                       *)
(*                                                                         *)
(* A UUID may be spelled in lower or upper case.  Postgres does not mind,  *)
(* but a cache key is the spelling the client used, except that the order  *)
(* cache is filled under the id the database returns.                      *)
(***************************************************************************)
EXTENDS Naturals

CONSTANTS
    Readers,       \* calls of GetOrderByID, GetOrderTimeline and of a replayed CreateOrder
    Writers,       \* calls of AssignOrder and UpdateOrderStatus
    Spellings,     \* ways to write the order's id
    Canonical,     \* the one the database returns
    Nothing,       \* an absent cache entry
    OrderTTL,      \* time to live of an order entry
    TimelineTTL,   \* time to live of a timeline entry
    Deadline,      \* the longest a handler's context lives
    MaxClock       \* bound of the clock

ASSUME TimesAssumption ==
    /\ OrderTTL \in Nat \ {0}
    /\ TimelineTTL \in Nat \ {0}
    /\ Deadline \in Nat
    /\ MaxClock \in Nat
    /\ Readers \cap Writers = {}
    /\ Canonical \in Spellings

(* No walk of the transition map is longer: created, assigned, in_transit, *)
(* delivered.                                                              *)
Longest == 3

Requests == Readers \cup Writers

Kinds == [p \in Requests |->
            IF p \in Readers THEN {"get_order", "get_timeline", "replay"}
                             ELSE {"assign", "update"}]

VARIABLES
    version,     \* the committed version of the order
    outdatedAt,  \* outdatedAt[v]: when version v < version was replaced (history)
    cache,       \* cache[name][id]: the entry of a cache for a spelling, or Nothing
    clock,
    kind,        \* kind[p]: what request p calls
    spelling,    \* spelling[p]: the order id as p's client wrote it
    pc,          \* pc[p]: the call p is about to make
    began,       \* began[p]: when its handler started
    seen,        \* seen[p]: the version p has read or written
    crossing     \* crossing[p][name]: the requests that were about to fill the
                 \* cache with an older version when p deleted its entry (a
                 \* history variable)

call == <<kind, spelling>>
vars == <<version, outdatedAt, cache, clock, call, pc, began, seen, crossing>>

Names == {"order", "timeline"}
TTL(name) == IF name = "order" THEN OrderTTL ELSE TimelineTTL

Init ==
    /\ version = 0
    /\ outdatedAt = [v \in 0..Longest |-> 0]
    /\ cache = [name \in Names |-> [id \in Spellings |-> Nothing]]
    /\ clock = 0
    /\ kind \in [Requests -> UNION {Kinds[p] : p \in Requests}]
    /\ \A p \in Requests : kind[p] \in Kinds[p]
    /\ spelling \in [Requests -> Spellings]
    /\ pc = [p \in Requests |-> "idle"]
    /\ began = [p \in Requests |-> 0]
    /\ seen = [p \in Requests |-> 0]
    /\ crossing = [p \in Requests |-> [name \in Names |-> {}]]

-----------------------------------------------------------------------------
(* The cache a request of this kind fills. *)
Fills(p) == IF kind[p] = "get_timeline" THEN "timeline" ELSE "order"

(* The key it fills: cacheOrder takes the id of the row it has read,       *)
(* cacheTimeline the id of the call.                                       *)
FillKey(p) == IF Fills(p) = "order" THEN Canonical ELSE spelling[p]

(* A call that is bound to a context can only succeed before its deadline. *)
InTime(p) == clock - began[p] \leq Deadline

Goto(p, label) == pc' = [pc EXCEPT ![p] = label]

End(p) == Goto(p, "done")

Tick ==
    /\ clock < MaxClock
    /\ clock' = clock + 1
    /\ cache' = [name \in Names |-> [id \in Spellings |->
                    LET e == cache[name][id]
                    IN IF e # Nothing /\ e.expires = clock + 1 THEN Nothing ELSE e]]
    /\ UNCHANGED <<version, outdatedAt, call, pc, began, seen, crossing>>

(* GetOrderByID and GetOrderTimeline begin with the cache, a replayed      *)
(* CreateOrder with its lookup, the writers with their transaction.        *)
Start(p) ==
    /\ pc[p] = "idle"
    /\ Goto(p, IF kind[p] \in {"get_order", "get_timeline"} THEN "cache_get"
               ELSE IF kind[p] = "replay" THEN "db_read" ELSE "db_write")
    /\ began' = [began EXCEPT ![p] = clock]
    /\ UNCHANGED <<version, outdatedAt, cache, clock, call, seen, crossing>>

CacheHit(p) ==
    LET e == cache[Fills(p)][spelling[p]]
    IN /\ pc[p] = "cache_get"
       /\ InTime(p)
       /\ e # Nothing
       /\ seen' = [seen EXCEPT ![p] = e.version]
       /\ End(p)
       /\ UNCHANGED <<version, outdatedAt, cache, clock, call, began, crossing>>

(* Nothing in the cache, or an error of redis, which is logged. *)
CacheMiss(p) ==
    /\ pc[p] = "cache_get"
    /\ Goto(p, "db_read")
    /\ UNCHANGED <<version, outdatedAt, cache, clock, call, began, seen, crossing>>

DbRead(p) ==
    /\ pc[p] = "db_read"
    /\ InTime(p)
    /\ seen' = [seen EXCEPT ![p] = version]
    /\ Goto(p, "cache_set")
    /\ UNCHANGED <<version, outdatedAt, cache, clock, call, began, crossing>>

(* An entry without expiry: SET without its TTL. *)
MutCacheSetNoTTL(p) ==
    /\ pc[p] = "cache_set"
    /\ InTime(p)
    /\ cache' = [cache EXCEPT ![Fills(p)][FillKey(p)] =
                    [version |-> seen[p], expires |-> MaxClock + 1, by |-> p]]
    /\ End(p)
    /\ UNCHANGED <<version, outdatedAt, clock, call, began, seen, crossing>>

(* cacheOrder and cacheTimeline: SET with the TTL, whatever is there. *)
CacheSet(p) ==
    /\ pc[p] = "cache_set"
    /\ InTime(p)
    /\ cache' = [cache EXCEPT ![Fills(p)][FillKey(p)] =
                    [version |-> seen[p], expires |-> clock + TTL(Fills(p)), by |-> p]]
    /\ End(p)
    /\ UNCHANGED <<version, outdatedAt, clock, call, began, seen, crossing>>

CacheSetFails(p) ==
    /\ pc[p] = "cache_set"
    /\ End(p)
    /\ UNCHANGED <<version, outdatedAt, cache, clock, call, began, seen, crossing>>

(* One transaction of OrderStore: AssignOrder only takes a created order.  *)
Change(p) ==
    /\ version < (IF kind[p] = "assign" THEN 1 ELSE Longest)
    /\ version' = version + 1
    /\ outdatedAt' = [outdatedAt EXCEPT ![version] = clock]
    /\ seen' = [seen EXCEPT ![p] = version + 1]

(* The transaction of AssignOrder or UpdateOrderStatus commits.  Only      *)
(* UpdateOrderStatus goes on to delete the entries; AssignOrder cache the *)
(* row it has written.                                                     *)
DbWrite(p) ==
    /\ pc[p] = "db_write"
    /\ InTime(p)
    /\ Change(p)
    /\ Goto(p, IF kind[p] = "assign" THEN "cache_set" ELSE "delete_timeline")
    /\ UNCHANGED <<cache, clock, call, began, crossing>>

(* COMMIT took effect but the service got an error: it returns at once, so *)
(* nothing is cached or deleted.                                           *)
DbWriteAnswerLost(p) ==
    /\ pc[p] = "db_write"
    /\ Change(p)
    /\ Goto(p, "failed")
    /\ UNCHANGED <<cache, clock, call, began, crossing>>

(* Requests that are about to fill a cache with something older than v. *)
OlderFills(name, v) ==
    {q \in Requests : pc[q] = "cache_set" /\ Fills(q) = name /\ seen[q] < v}

Delete(p, name) ==
    /\ InTime(p)
    /\ cache' = [cache EXCEPT ![name][spelling[p]] = Nothing]
    /\ crossing' = [crossing EXCEPT ![p][name] = OlderFills(name, seen[p])]

DeleteTimeline(p) ==
    /\ pc[p] = "delete_timeline"
    /\ Delete(p, "timeline")
    /\ Goto(p, "delete_order")
    /\ UNCHANGED <<version, outdatedAt, clock, call, began, seen>>

(* The two services disagree on the prefix of the key. *)
MutDeleteOtherKey(p) ==
    /\ pc[p] = "delete_order"
    /\ InTime(p)
    /\ crossing' = [crossing EXCEPT ![p]["order"] = OlderFills("order", seen[p])]
    /\ End(p)
    /\ UNCHANGED <<version, outdatedAt, cache, clock, call, began, seen>>

DeleteOrder(p) ==
    /\ pc[p] = "delete_order"
    /\ Delete(p, "order")
    /\ End(p)
    /\ UNCHANGED <<version, outdatedAt, clock, call, began, seen>>

(* A failed DEL is logged; the entry stays until it expires.  The failure  *)
(* is remembered as a crossing of every request.                           *)
DeleteTimelineFails(p) ==
    /\ pc[p] = "delete_timeline"
    /\ crossing' = [crossing EXCEPT ![p]["timeline"] = Requests]
    /\ Goto(p, "delete_order")
    /\ UNCHANGED <<version, outdatedAt, cache, clock, call, began, seen>>

DeleteOrderFails(p) ==
    /\ pc[p] = "delete_order"
    /\ crossing' = [crossing EXCEPT ![p]["order"] = Requests]
    /\ End(p)
    /\ UNCHANGED <<version, outdatedAt, cache, clock, call, began, seen>>

(* Postgres fails or the deadline passes: the only failure a client sees. *)
DbFails(p) ==
    /\ pc[p] \in {"db_read", "db_write"}
    /\ Goto(p, "failed")
    /\ UNCHANGED <<version, outdatedAt, cache, clock, call, began, seen, crossing>>

Advance(p) ==
    \/ Start(p)
    \/ CacheHit(p) \/ CacheMiss(p) \/ DbRead(p) \/ CacheSet(p) \/ CacheSetFails(p)
    \/ DbWrite(p) \/ DbWriteAnswerLost(p) \/ DeleteTimeline(p) \/ DeleteTimelineFails(p)
    \/ DeleteOrder(p) \/ DeleteOrderFails(p) \/ DbFails(p)

Next == Tick \/ \E p \in Requests : Advance(p)

Spec == Init /\ [][Next]_vars

-----------------------------------------------------------------------------
(* An entry is of the past and expires in the future. *)
Entries(name) ==
    [version: 0..version, expires: (clock + 1)..(clock + TTL(name)), by: Requests]

TypeOK ==
    /\ version \in 0..Longest
    /\ outdatedAt \in [0..Longest -> 0..MaxClock]
    /\ DOMAIN cache = Names
    /\ \A name \in Names : cache[name] \in [Spellings -> Entries(name) \cup {Nothing}]
    /\ clock \in 0..MaxClock
    /\ \A p \in Requests : kind[p] \in Kinds[p]
    /\ spelling \in [Requests -> Spellings]
    /\ pc \in [Requests -> {"idle", "cache_get", "db_read", "cache_set", "db_write",
                           "delete_timeline", "delete_order", "done", "failed"}]
    /\ began \in [Requests -> 0..MaxClock]
    /\ seen \in [Requests -> 0..Longest]
    /\ crossing \in [Requests -> [Names -> SUBSET Requests]]

(* However invalidations race with fills, fail, miss an entry of another   *)
(* spelling or are skipped because the commit's answer was lost, and       *)
(* although AssignOrder never deletes the timeline: what a cache serves    *)
(* was current at most one TTL and one handler deadline ago.               *)
BoundedStaleness ==
    \A name \in Names, id \in Spellings :
        LET e == cache[name][id]
        IN e # Nothing /\ e.version < version =>
            clock < outdatedAt[e.version] + TTL(name) + Deadline

(* The request is past its DEL of this cache's entry. *)
HasDeleted(p, name) ==
    /\ kind[p] = "update"
    /\ pc[p] \in IF name = "order" THEN {"done"} ELSE {"delete_order", "done"}

(* Once UpdateOrderStatus has deleted an entry, that entry can only become *)
(* older than the update again through a fill that was under way then:     *)
(* between its read of the database (or the commit of AssignOrder) and its *)
(* SET.  Every later request sees the update.                              *)
StaleOnlyByCrossing ==
    \A p \in Writers, name \in Names :
        LET e == cache[name][spelling[p]]
        IN HasDeleted(p, name) /\ e # Nothing /\ e.version < seen[p]
            => e.by \in crossing[p][name]

(* service_timeline_cache_test.go:195 (TestUpdateOrderStatusInvalidates-   *)
(* TimelineAndOrderCaches): an update leaves nothing older of the order in *)
(* the caches, when its DELs succeed and no fill is under way.             *)
UpdateInvalidatesCaches ==
    \A p \in Writers, name \in Names, id \in Spellings :
        LET e == cache[name][id]
        IN HasDeleted(p, name) /\ crossing[p][name] = {} /\ e # Nothing => e.version \geq seen[p]
=============================================================================
