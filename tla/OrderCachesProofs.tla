--------------------------- MODULE OrderCachesProofs ---------------------------
(***************************************************************************)
(* The properties of OrderCaches for every number of requests, all times   *)
(* to live and every deadline.  What bounds the age of an entry is that    *)
(* the version a request is about to write into a cache was current when   *)
(* the request began, or later (FillInv); what confines an entry older     *)
(* than a deletion is that nobody who reads after the deletion reads       *)
(* anything older (CrossInv).                                              *)
(***************************************************************************)
EXTENDS OrderCaches, TLAPS

Labels == {"idle", "cache_get", "db_read", "cache_set", "db_write",
           "delete_timeline", "delete_order", "done", "failed"}

(* The requests, and the clock. *)
Types ==
    /\ version \in 0..Longest
    /\ outdatedAt \in [0..Longest -> 0..MaxClock]
    /\ clock \in 0..MaxClock
    /\ \A p \in Requests : kind[p] \in Kinds[p]
    /\ spelling \in [Requests -> Spellings]
    /\ pc \in [Requests -> Labels]
    /\ began \in [Requests -> 0..MaxClock]
    /\ seen \in [Requests -> 0..Longest]
    /\ crossing \in [Requests -> [Names -> SUBSET Requests]]

CacheTypes ==
    /\ DOMAIN cache = Names
    /\ \A name \in Names : cache[name] \in [Spellings -> Entries(name) \cup {Nothing}]

(* Nobody is ahead of the order or of the clock, and UpdateOrderStatus     *)
(* does not use the caches.                                                *)
PathInv ==
    \A p \in Requests :
        /\ seen[p] \leq version
        /\ began[p] \leq clock
        /\ kind[p] = "update" => pc[p] \notin {"cache_get", "db_read", "cache_set"}

(* What is about to be cached was current when its request began, or since. *)
FillInv ==
    \A p \in Requests :
        pc[p] = "cache_set" /\ seen[p] < version => began[p] \leq outdatedAt[seen[p]]

(* So an entry expires in time. *)
EntryInv ==
    \A name \in Names, id \in Spellings :
        LET e == cache[name][id]
        IN e # Nothing /\ e.version < version =>
              e.expires \leq outdatedAt[e.version] + TTL(name) + Deadline

CrossInv ==
    \A p \in Writers, name \in Names, q \in Requests :
        /\ HasDeleted(p, name)
        /\ pc[q] = "cache_set" /\ Fills(q) = name
        /\ seen[q] < seen[p]
        => q \in crossing[p][name]

Inv == Types /\ CacheTypes /\ PathInv /\ FillInv /\ EntryInv /\ CrossInv /\ StaleOnlyByCrossing

-----------------------------------------------------------------------------
(* The times are numbers. *)
LEMMA Times ==
    /\ Deadline \in Nat /\ MaxClock \in Nat
    /\ \A name \in Names : TTL(name) \in Nat /\ TTL(name) \geq 1
  BY TimesAssumption DEF TTL

(* Fills and keys are those of the caches. *)
LEMMA FillsKey ==
    ASSUME Types, NEW p \in Requests
    PROVE  Fills(p) \in Names /\ FillKey(p) \in Spellings /\ spelling[p] \in Spellings
  BY TimesAssumption DEF Types, Fills, FillKey, Names

(* What an entry consists of. *)
LEMMA Fields ==
    ASSUME CacheTypes, NEW name \in Names, NEW id \in Spellings, cache[name][id] # Nothing
    PROVE  /\ cache[name][id] \in Entries(name)
           /\ cache[name][id].version \in 0..version
           /\ cache[name][id].expires \in (clock + 1)..(clock + TTL(name))
           /\ cache[name][id].by \in Requests
  <1>1. cache[name][id] \in Entries(name)
    BY DEF CacheTypes
  <1> QED
    BY <1>1 DEF Entries

(* A request moves. *)
LEMMA GotoFacts ==
    ASSUME Types, NEW p \in Requests, NEW l, Goto(p, l)
    PROVE  /\ pc'[p] = l /\ \A q \in Requests : q # p => pc'[q] = pc[q]
           /\ l \in Labels => pc' \in [Requests -> Labels]
  BY DEF Types, Goto

-----------------------------------------------------------------------------
(* Entries stay entries while the order changes and the clock stands. *)
LEMMA CacheTypesFrame ==
    ASSUME Types, CacheTypes, version' \in Nat, version \leq version', UNCHANGED <<cache, clock>>
    PROVE  CacheTypes'
  <1>1. ASSUME NEW name \in Names PROVE Entries(name) \subseteq Entries(name)'
    <2>1. 0..version \subseteq 0..version'
      BY DEF Types
    <2>2. (clock + 1)..(clock + TTL(name)) = ((clock + 1)..(clock + TTL(name)))'
      BY DEF TTL
    <2> QED
      BY <2>1, <2>2 DEF Entries
  <1> QED
    BY <1>1 DEF CacheTypes

(* The clock goes on, and what expires is gone. *)
LEMMA TickCache ==
    ASSUME Types, CacheTypes, Tick
    PROVE  /\ CacheTypes'
           /\ \A name \in Names, id \in Spellings : cache'[name][id] \in {cache[name][id], Nothing}
  <1>1. /\ clock' = clock + 1 /\ version' = version
        /\ cache' = [name \in Names |-> [id \in Spellings |->
                        IF cache[name][id] # Nothing /\ cache[name][id].expires = clock + 1
                        THEN Nothing ELSE cache[name][id]]]
    BY DEF Tick
  <1>2. \A name \in Names, id \in Spellings : cache'[name][id] =
            IF cache[name][id] # Nothing /\ cache[name][id].expires = clock + 1
            THEN Nothing ELSE cache[name][id]
    BY <1>1
  <1>3. ASSUME NEW name \in Names, NEW id \in Spellings
        PROVE  cache'[name][id] \in Entries(name)' \cup {Nothing}
    <2>1. CASE cache'[name][id] = Nothing
      BY <2>1
    <2>2. CASE cache'[name][id] # Nothing
      <3> DEFINE e == cache[name][id]
      <3>1. cache'[name][id] = e /\ e # Nothing /\ e.expires # clock + 1
        BY <1>2, <2>2
      <3>2. /\ e \in [version: 0..version, expires: (clock + 1)..(clock + TTL(name)), by: Requests]
            /\ e.expires \in (clock + 1)..(clock + TTL(name))
        BY <3>1, Fields DEF Entries
      <3> HIDE DEF e
      <3>3. e.expires \in (clock' + 1)..(clock' + TTL(name))
        <4> DEFINE x == e.expires
                   limit == TTL(name)
        <4>1. /\ x \in (clock + 1)..(clock + limit) /\ x # clock + 1
              /\ clock \in Nat /\ limit \in Nat /\ clock' = clock + 1
          BY <1>1, <3>1, <3>2, Times DEF Types
        <4> HIDE DEF x, limit
        <4>2. x \in (clock' + 1)..(clock' + limit)
          BY <4>1
        <4> QED
          BY <4>2 DEF x, limit
      <3>4. e \in [version: 0..version', expires: (clock' + 1)..(clock' + TTL(name)), by: Requests]
        BY <1>1, <3>2, <3>3
      <3>5. e \in Entries(name)'
        BY <3>4 DEF Entries, TTL
      <3> QED
        BY <3>1, <3>5
    <2> QED
      BY <2>1, <2>2
  <1>4. CacheTypes'
    <2>1. DOMAIN cache' = Names
      BY <1>1
    <2>2. ASSUME NEW name \in Names PROVE cache'[name] \in [Spellings -> Entries(name)' \cup {Nothing}]
      <3>1. cache'[name] = [id \in Spellings |-> cache'[name][id]]
        BY <1>1
      <3> QED
        BY <1>3, <3>1
    <2> QED
      BY <2>1, <2>2 DEF CacheTypes
  <1> QED
    BY <1>2, <1>4

Put(n, k, e) == cache' = [cache EXCEPT ![n][k] = e]

(* An update of one entry. *)
LEMMA PutFacts ==
    ASSUME CacheTypes, NEW n \in Names, NEW k \in Spellings, NEW e, Put(n, k, e)
    PROVE  /\ DOMAIN cache' = Names
           /\ \A name \in Names : cache'[name] = [id \in Spellings |-> cache'[name][id]]
           /\ cache'[n][k] = e
           /\ \A name \in Names, id \in Spellings :
                  name # n \/ id # k => cache'[name][id] = cache[name][id]
  <1>1. cache' = [cache EXCEPT ![n] = [cache[n] EXCEPT ![k] = e]]
    BY DEF Put
  <1>2. /\ cache'[n] = [cache[n] EXCEPT ![k] = e]
        /\ DOMAIN cache' = Names
        /\ \A name \in Names : name # n => cache'[name] = cache[name]
    BY <1>1 DEF CacheTypes
  <1>3. \A name \in Names : cache[name] = [id \in Spellings |-> cache[name][id]]
    BY DEF CacheTypes
  <1>4. cache'[n] = [id \in Spellings |-> cache'[n][id]]
    BY <1>2, <1>3
  <1>5. ASSUME NEW name \in Names PROVE cache'[name] = [id \in Spellings |-> cache'[name][id]]
    BY <1>2, <1>3, <1>4
  <1>6. cache'[n][k] = e /\ \A id \in Spellings : id # k => cache'[n][id] = cache[n][id]
    BY <1>2, <1>3
  <1>7. ASSUME NEW name \in Names, NEW id \in Spellings, name # n \/ id # k
        PROVE  cache'[name][id] = cache[name][id]
    BY <1>2, <1>6, <1>7
  <1> QED
    BY <1>2, <1>5, <1>6, <1>7

(* It keeps the types if the entry has its type. *)
LEMMA PutTypes ==
    ASSUME Types, CacheTypes, NEW n \in Names, NEW k \in Spellings,
           NEW e \in Entries(n) \cup {Nothing},
           Put(n, k, e), UNCHANGED <<version, clock>>
    PROVE  CacheTypes'
  <1>1. \A name \in Names : Entries(name)' = Entries(name)
    BY DEF Entries, TTL
  <1>2. ASSUME NEW name \in Names, NEW id \in Spellings
        PROVE  cache'[name][id] \in Entries(name) \cup {Nothing}
    <2>1. CASE name = n /\ id = k
      BY <2>1, PutFacts
    <2>2. CASE name # n \/ id # k
      BY <2>2, PutFacts DEF CacheTypes
    <2> QED
      BY <2>1, <2>2
  <1>3. ASSUME NEW name \in Names PROVE cache'[name] \in [Spellings -> Entries(name) \cup {Nothing}]
    <2>1. cache'[name] = [id \in Spellings |-> cache'[name][id]]
      BY PutFacts
    <2> QED
      BY <1>2, <2>1
  <1> QED
    BY <1>1, <1>3, PutFacts DEF CacheTypes

-----------------------------------------------------------------------------
(* What a step of request p may do: the order stands or is changed once,   *)
(* every entry stays or goes, but for the one that p puts; p does not      *)
(* begin to fill a cache with anything old, and knows whom it crosses when *)
(* it deletes.                                                             *)
Changes ==
    \/ UNCHANGED <<version, outdatedAt>>
    \/ /\ version < Longest /\ version' = version + 1
       /\ outdatedAt' = [outdatedAt EXCEPT ![version] = clock]

Shrinks == \A name \in Names, id \in Spellings : cache'[name][id] \in {cache[name][id], Nothing}

Entry(p) == [version |-> seen[p], expires |-> clock + TTL(Fills(p)), by |-> p]

Puts(p) ==
    /\ pc[p] = "cache_set" /\ InTime(p)
    /\ Put(Fills(p), FillKey(p), Entry(p))
    /\ UNCHANGED <<version, outdatedAt>>

Deleted(p, name) ==
    \/ HasDeleted(p, name) /\ crossing'[p][name] = crossing[p][name]
    \/ /\ OlderFills(name, seen[p]) \subseteq crossing'[p][name]
       /\ cache'[name][spelling[p]] = Nothing \/ crossing'[p][name] = Requests

Others(p) ==
    \A q \in Requests : q # p =>
        /\ pc'[q] = pc[q] /\ seen'[q] = seen[q]
        /\ began'[q] = began[q] /\ crossing'[q] = crossing[q]

Effect(p) ==
    /\ UNCHANGED <<clock, kind, spelling>>
    /\ Changes /\ Others(p)
    /\ Puts(p) \/ Shrinks
    /\ seen'[p] \leq version' /\ began'[p] \leq clock
    /\ kind[p] = "update" => pc'[p] \notin {"cache_get", "db_read", "cache_set"}
    /\ pc'[p] = "cache_set" => seen'[p] = version'
    /\ \A name \in Names :
           HasDeleted(p, name)' => Shrinks /\ seen'[p] = seen[p] /\ Deleted(p, name)

-----------------------------------------------------------------------------
(* Versions never fall. *)
LEMMA VersionGrows ==
    ASSUME Types, Changes
    PROVE  version' \in 0..Longest /\ version \leq version' /\ version \in 0..Longest
  BY DEF Types, Changes, Longest

(* Nobody gets ahead of the order. *)
LEMMA EffectPath ==
    ASSUME Types, PathInv, NEW p \in Requests, Effect(p)
    PROVE  PathInv'
  <1>1. version' \in 0..Longest /\ version \leq version' /\ version \in 0..Longest
    BY VersionGrows DEF Effect
  <1>2. ASSUME NEW q \in Requests
        PROVE  /\ seen'[q] \leq version' /\ began'[q] \leq clock'
               /\ kind'[q] = "update" => pc'[q] \notin {"cache_get", "db_read", "cache_set"}
    <2>1. CASE q = p
      BY <2>1 DEF Effect
    <2>2. CASE q # p
      <3>1. /\ pc'[q] = pc[q] /\ seen'[q] = seen[q] /\ began'[q] = began[q]
            /\ kind' = kind /\ clock' = clock
        BY <2>2 DEF Effect, Others
      <3>2. seen[q] \in 0..Longest /\ seen[q] \leq version /\ began[q] \leq clock
        BY DEF Types, PathInv
      <3>3. seen[q] \leq version'
        BY <1>1, <3>2 DEF Longest
      <3>4. kind[q] = "update" => pc[q] \notin {"cache_get", "db_read", "cache_set"}
        BY DEF PathInv
      <3> QED
        BY <3>1, <3>2, <3>3, <3>4
    <2> QED
      BY <2>1, <2>2
  <1> QED
    BY <1>2 DEF PathInv

(* When a version was replaced: those before stay, the last one was        *)
(* replaced now.                                                           *)
LEMMA Outdated ==
    ASSUME Types, Changes, NEW v \in 0..Longest, v \leq version, v < version'
    PROVE  \/ v < version /\ outdatedAt'[v] = outdatedAt[v]
           \/ v = version /\ outdatedAt'[v] = clock
  <1>1. version \in 0..Longest /\ DOMAIN outdatedAt = 0..Longest
    BY DEF Types
  <1>2. CASE UNCHANGED <<version, outdatedAt>>
    BY <1>2
  <1>3. CASE version' = version + 1 /\ outdatedAt' = [outdatedAt EXCEPT ![version] = clock]
    <2>1. outdatedAt'[v] = IF v = version THEN clock ELSE outdatedAt[v]
      BY <1>1, <1>3
    <2>2. v < version \/ v = version
      BY <1>1 DEF Longest
    <2> QED
      BY <2>1, <2>2
  <1> QED
    BY <1>2, <1>3 DEF Changes

(* What is about to be cached. *)
LEMMA EffectFill ==
    ASSUME Types, PathInv, FillInv, NEW p \in Requests, Effect(p)
    PROVE  FillInv'
  <1>1. version' \in 0..Longest /\ version \in 0..Longest
    BY VersionGrows DEF Effect
  <1>2. ASSUME NEW q \in Requests, pc'[q] = "cache_set", seen'[q] < version'
        PROVE  began'[q] \leq outdatedAt'[seen'[q]]
    <2>1. q # p
      BY <1>1, <1>2 DEF Effect, Longest
    <2>2. pc'[q] = pc[q] /\ seen'[q] = seen[q] /\ began'[q] = began[q]
      BY <2>1 DEF Effect, Others
    <2>3. seen[q] \in 0..Longest /\ seen[q] \leq version /\ began[q] \leq clock
      BY DEF Types, PathInv
    <2>4. \/ seen[q] < version /\ outdatedAt'[seen[q]] = outdatedAt[seen[q]]
          \/ outdatedAt'[seen[q]] = clock
      BY <1>2, <2>2, <2>3, Outdated DEF Effect
    <2>5. seen[q] < version => began[q] \leq outdatedAt[seen[q]]
      BY <1>2, <2>2 DEF FillInv
    <2> QED
      BY <2>2, <2>3, <2>4, <2>5
  <1> QED
    BY <1>2 DEF FillInv

(* An entry that stays expires in time. *)
LEMMA EntryFrame ==
    ASSUME Types, CacheTypes, EntryInv, Changes, clock' = clock,
           NEW name \in Names, NEW id \in Spellings, cache[name][id] # Nothing,
           cache[name][id].version < version'
    PROVE  cache[name][id].expires \leq outdatedAt'[cache[name][id].version] + TTL(name) + Deadline
  <1> DEFINE v == cache[name][id].version
             x == cache[name][id].expires
             t == TTL(name)
  <1>1. v \in 0..version /\ x \in (clock + 1)..(clock + t)
    BY Fields
  <1>2. version \in 0..Longest /\ clock \in Nat /\ t \in Nat /\ Deadline \in Nat
    BY Times DEF Types
  <1>3. v < version => x \leq outdatedAt[v] + t + Deadline
    BY DEF EntryInv
  <1>4. v < version'
    OBVIOUS
  <1> HIDE DEF v, x, t
  <1>5. v \in 0..Longest /\ v \leq version
    BY <1>1, <1>2 DEF Longest
  <1>6. \/ v < version /\ outdatedAt'[v] = outdatedAt[v]
        \/ outdatedAt'[v] = clock
    BY <1>4, <1>5, Outdated
  <1>7. v < version => x \leq outdatedAt'[v] + t + Deadline
    <2>1. CASE outdatedAt'[v] = outdatedAt[v]
      BY <1>3, <2>1, Zenon
    <2>2. CASE outdatedAt'[v] = clock
      <3>1. x \leq clock + t + Deadline
        BY <1>1, <1>2
      <3> QED
        BY <2>2, <3>1, Zenon
    <2> QED
      BY <1>6, <2>1, <2>2
  <1>8. outdatedAt'[v] = clock => x \leq outdatedAt'[v] + t + Deadline
    <2>1. x \leq clock + t + Deadline
      BY <1>1, <1>2
    <2> QED
      BY <2>1, Zenon
  <1>9. x \leq outdatedAt'[v] + t + Deadline
    BY <1>6, <1>7, <1>8, Zenon
  <1> QED
    BY <1>9 DEF v, x, t

(* So does one that is put. *)
LEMMA EntryPut ==
    ASSUME Types, PathInv, FillInv, NEW p \in Requests, pc[p] = "cache_set", InTime(p),
           seen[p] < version
    PROVE  clock + TTL(Fills(p)) \leq outdatedAt[seen[p]] + TTL(Fills(p)) + Deadline
  <1>1. began[p] \leq outdatedAt[seen[p]]
    BY DEF FillInv
  <1>2. began[p] \in Nat /\ clock \in Nat /\ clock - began[p] \leq Deadline /\ seen[p] \in 0..Longest
    BY DEF Types, InTime
  <1>3. outdatedAt[seen[p]] \in Nat
    BY <1>2 DEF Types
  <1>4. TTL(Fills(p)) \in Nat /\ Deadline \in Nat
    BY Times, FillsKey
  <1> DEFINE a == outdatedAt[seen[p]]
             t == TTL(Fills(p))
             b == began[p]
  <1>5. a \in Nat /\ t \in Nat /\ b \in Nat /\ b \leq a /\ clock - b \leq Deadline
    BY <1>1, <1>2, <1>3, <1>4
  <1> HIDE DEF a, t, b
  <1>6. clock + t \leq a + t + Deadline
    BY <1>2, <1>4, <1>5
  <1> QED
    BY <1>6 DEF a, t, b

(* What an entry that was put consists of. *)
LEMMA PutEntry ==
    ASSUME Types, CacheTypes, NEW p \in Requests, Puts(p)
    PROVE  /\ cache'[Fills(p)][FillKey(p)].version = seen[p]
           /\ cache'[Fills(p)][FillKey(p)].expires = clock + TTL(Fills(p))
           /\ cache'[Fills(p)][FillKey(p)].by = p
           /\ \A name \in Names, id \in Spellings :
                  name # Fills(p) \/ id # FillKey(p) => cache'[name][id] = cache[name][id]
  <1>1. Fills(p) \in Names /\ FillKey(p) \in Spellings
    BY FillsKey
  <1>2. Put(Fills(p), FillKey(p), Entry(p))
    BY DEF Puts
  <1>3. /\ cache'[Fills(p)][FillKey(p)] = Entry(p)
        /\ \A name \in Names, id \in Spellings :
                  name # Fills(p) \/ id # FillKey(p) => cache'[name][id] = cache[name][id]
    BY <1>1, <1>2, PutFacts
  <1>4. Entry(p).version = seen[p] /\ Entry(p).expires = clock + TTL(Fills(p)) /\ Entry(p).by = p
    BY DEF Entry
  <1> QED
    BY <1>3, <1>4

(* Every entry, put or kept, expires in time. *)
LEMMA EffectEntry ==
    ASSUME Types, CacheTypes, PathInv, FillInv, EntryInv, NEW p \in Requests, Effect(p)
    PROVE  EntryInv'
  <1>1. clock' = clock /\ Changes
    BY DEF Effect
  <1>2. ASSUME NEW name \in Names, NEW id \in Spellings,
               cache'[name][id] # Nothing, cache'[name][id].version < version'
        PROVE  cache'[name][id].expires \leq outdatedAt'[cache'[name][id].version] + TTL(name) + Deadline
    <2>1. CASE cache'[name][id] = cache[name][id]
      BY <1>1, <1>2, <2>1, EntryFrame
    <2>2. CASE Puts(p) /\ name = Fills(p) /\ id = FillKey(p)
      <3>1. /\ cache'[name][id].version = seen[p]
            /\ cache'[name][id].expires = clock + TTL(name)
        BY <2>2, PutEntry
      <3>2. pc[p] = "cache_set" /\ InTime(p) /\ version' = version /\ outdatedAt' = outdatedAt
        BY <2>2 DEF Puts
      <3>3. seen[p] < version
        BY <1>2, <3>1, <3>2
      <3>4. clock + TTL(name) \leq outdatedAt[seen[p]] + TTL(name) + Deadline
        BY <2>2, <3>2, <3>3, EntryPut
      <3> QED
        BY <3>1, <3>2, <3>4, Zenon
    <2>3. CASE Puts(p) /\ (name # Fills(p) \/ id # FillKey(p))
      BY <2>1, <2>3, PutEntry
    <2>4. CASE Shrinks
      BY <1>2, <2>1, <2>4 DEF Shrinks
    <2> QED
      BY <2>2, <2>3, <2>4 DEF Effect
  <1>3. \A name : TTL(name)' = TTL(name)
    BY DEF TTL
  <1> QED
    BY <1>2, <1>3 DEF EntryInv

(* The labels of those that have deleted. *)
LEMMA DeletedFrame ==
    ASSUME Types, NEW p \in Requests, NEW q \in Requests, NEW name \in Names,
           q # p, Others(p), kind' = kind
    PROVE  HasDeleted(q, name)' <=> HasDeleted(q, name)
  BY DEF Others, HasDeleted

(* A request that deletes knows whom it crosses, and nobody who comes      *)
(* later has read anything older.                                          *)
LEMMA EffectCross ==
    ASSUME Types, PathInv, CrossInv, NEW p \in Requests, Effect(p)
    PROVE  CrossInv'
  <1>1. kind' = kind /\ Others(p) /\ \A q \in Requests : Fills(q)' = Fills(q)
    BY DEF Effect, Fills
  <1>2. version' \in 0..Longest /\ version \leq version' /\ version \in 0..Longest
    BY VersionGrows DEF Effect
  <1>3. ASSUME NEW w \in Writers, NEW name \in Names, NEW q \in Requests,
               HasDeleted(w, name)', pc'[q] = "cache_set", Fills(q) = name, seen'[q] < seen'[w]
        PROVE  q \in crossing'[w][name]
    <2>1. w \in Requests
      BY DEF Requests
    <2>2. CASE w # p
      <3>1. HasDeleted(w, name) /\ seen'[w] = seen[w] /\ crossing'[w] = crossing[w]
        BY <1>1, <1>3, <2>1, <2>2, DeletedFrame DEF Others
      <3>2. seen[w] \in 0..Longest /\ seen[w] \leq version
        BY <2>1 DEF Types, PathInv
      <3>3. CASE q = p
        <4>1. seen'[p] = version'
          BY <1>3, <3>3 DEF Effect
        <4> QED
          BY <1>2, <1>3, <3>1, <3>2, <3>3, <4>1 DEF Longest
      <3>4. CASE q # p
        <4>1. pc[q] = "cache_set" /\ seen'[q] = seen[q]
          BY <1>1, <1>3, <3>4 DEF Others
        <4> QED
          BY <1>3, <3>1, <4>1 DEF CrossInv
      <3> QED
        BY <3>3, <3>4
    <2>3. CASE w = p
      <3>1. seen'[p] = seen[p] /\ Deleted(p, name)
        BY <1>3, <2>3 DEF Effect
      <3>2. q # p
        BY <1>1, <1>3, <2>3 DEF Effect, HasDeleted
      <3>3. pc[q] = "cache_set" /\ seen'[q] = seen[q]
        BY <1>1, <1>3, <3>2 DEF Others
      <3>4. q \in OlderFills(name, seen[p])
        BY <1>3, <2>3, <3>1, <3>3 DEF OlderFills
      <3>5. CASE HasDeleted(p, name) /\ crossing'[p][name] = crossing[p][name]
        BY <1>3, <2>3, <3>1, <3>3, <3>5 DEF CrossInv
      <3>6. CASE OlderFills(name, seen[p]) \subseteq crossing'[p][name]
        BY <2>3, <3>4, <3>6
      <3> QED
        BY <3>1, <3>5, <3>6 DEF Deleted
    <2> QED
      BY <2>2, <2>3
  <1> QED
    BY <1>1, <1>3 DEF CrossInv

(* So what is older than a deletion was put by one that it crossed. *)
LEMMA EffectStale ==
    ASSUME Types, CacheTypes, PathInv, CrossInv, StaleOnlyByCrossing,
           NEW p \in Requests, Effect(p), CacheTypes'
    PROVE  StaleOnlyByCrossing'
  <1>1. kind' = kind /\ spelling' = spelling /\ Others(p)
    BY DEF Effect
  <1>2. ASSUME NEW w \in Writers, NEW name \in Names, HasDeleted(w, name)',
               cache'[name][spelling[w]] # Nothing,
               cache'[name][spelling[w]].version < seen'[w]
        PROVE  cache'[name][spelling[w]].by \in crossing'[w][name]
    <2> DEFINE id == spelling[w]
    <2>1. w \in Requests /\ id \in Spellings
      BY DEF Requests, Types
    <2>2. CASE w # p
      <3>1. HasDeleted(w, name) /\ seen'[w] = seen[w] /\ crossing'[w] = crossing[w]
        BY <1>1, <1>2, <2>1, <2>2, DeletedFrame DEF Others
      <3>2. CASE cache'[name][id] = cache[name][id]
        BY <1>2, <3>1, <3>2 DEF StaleOnlyByCrossing
      <3>3. CASE Puts(p) /\ name = Fills(p) /\ id = FillKey(p)
        <4>1. cache'[name][id].version = seen[p] /\ cache'[name][id].by = p
          BY <3>3, PutEntry
        <4>2. pc[p] = "cache_set"
          BY <3>3 DEF Puts
        <4>3. p \in crossing[w][name]
          BY <1>2, <3>1, <3>3, <4>1, <4>2 DEF CrossInv
        <4> QED
          BY <3>1, <4>1, <4>3
      <3>4. CASE Puts(p) /\ (name # Fills(p) \/ id # FillKey(p))
        BY <2>1, <3>2, <3>4, PutEntry
      <3>5. CASE Shrinks
        BY <1>2, <2>1, <3>2, <3>5 DEF Shrinks
      <3> QED
        BY <3>3, <3>4, <3>5 DEF Effect
    <2>3. CASE w = p
      <3>1. Shrinks /\ seen'[p] = seen[p] /\ Deleted(p, name)
        BY <1>2, <2>3 DEF Effect
      <3>2. cache'[name][id] = cache[name][id]
        BY <1>2, <2>1, <3>1 DEF Shrinks
      <3>3. CASE HasDeleted(p, name) /\ crossing'[p][name] = crossing[p][name]
        BY <1>2, <2>3, <3>1, <3>2, <3>3 DEF StaleOnlyByCrossing
      <3>4. CASE cache'[name][id] = Nothing
        BY <1>2, <3>4
      <3>5. CASE crossing'[p][name] = Requests
        <4>1. cache[name][id].by \in Requests
          BY <1>2, <2>1, <3>2, Fields
        <4> QED
          BY <2>3, <3>2, <3>5, <4>1
      <3> QED
        BY <2>3, <3>1, <3>3, <3>4, <3>5 DEF Deleted
    <2> QED
      BY <2>2, <2>3
  <1> QED
    BY <1>1, <1>2 DEF StaleOnlyByCrossing

(* The effect of a step keeps the invariant. *)
LEMMA EffectInv ==
    ASSUME Inv, NEW p \in Requests, Effect(p), Types', CacheTypes'
    PROVE  Inv'
  BY EffectPath, EffectFill, EffectEntry, EffectCross, EffectStale DEF Inv

-----------------------------------------------------------------------------
(* What the actions of p have in common: where it goes, when it began and  *)
(* what it has seen.                                                       *)
Moves(p, l, b, s) ==
    /\ pc' = [pc EXCEPT ![p] = l]
    /\ began' = [began EXCEPT ![p] = b]
    /\ seen' = [seen EXCEPT ![p] = s]
    /\ UNCHANGED <<clock, kind, spelling>>

(* Values that stand. *)
LEMMA Stand ==
    ASSUME Types, PathInv, NEW p \in Requests
    PROVE  /\ began = [began EXCEPT ![p] = began[p]] /\ began[p] \in 0..MaxClock /\ began[p] \leq clock
           /\ seen = [seen EXCEPT ![p] = seen[p]] /\ seen[p] \in 0..Longest /\ seen[p] \leq version
           /\ clock \in 0..MaxClock /\ version \in 0..Longest
  BY DEF Types, PathInv

(* A move touches nobody else. *)
LEMMA MovesFacts ==
    ASSUME Types, NEW p \in Requests, NEW l \in Labels, NEW b \in 0..MaxClock, NEW s \in 0..Longest,
           Moves(p, l, b, s)
    PROVE  /\ pc'[p] = l /\ began'[p] = b /\ seen'[p] = s
           /\ \A q \in Requests : q # p => pc'[q] = pc[q] /\ began'[q] = began[q] /\ seen'[q] = seen[q]
           /\ pc' \in [Requests -> Labels]
           /\ began' \in [Requests -> 0..MaxClock]
           /\ seen' \in [Requests -> 0..Longest]
  BY DEF Types, Moves

(* Nor does it spoil the types. *)
LEMMA MovesTypes ==
    ASSUME Types, Changes, NEW p \in Requests, NEW l \in Labels, NEW b \in 0..MaxClock,
           NEW s \in 0..Longest, Moves(p, l, b, s),
           crossing' \in [Requests -> [Names -> SUBSET Requests]]
    PROVE  Types'
  <1>1. version' \in 0..Longest
    BY VersionGrows
  <1>2. outdatedAt' \in [0..Longest -> 0..MaxClock]
    BY DEF Types, Changes
  <1>3. /\ clock' \in 0..MaxClock /\ spelling' \in [Requests -> Spellings]
        /\ \A q \in Requests : kind'[q] \in Kinds[q]
    BY DEF Types, Moves
  <1>4. /\ pc' \in [Requests -> Labels] /\ began' \in [Requests -> 0..MaxClock]
        /\ seen' \in [Requests -> 0..Longest]
    BY MovesFacts
  <1> QED
    BY <1>1, <1>2, <1>3, <1>4 DEF Types

(* The effect of a move of a request that deletes nothing. *)
LEMMA MoveEffect ==
    ASSUME Inv, Changes, NEW p \in Requests, NEW l \in Labels, NEW b \in 0..MaxClock,
           NEW s \in 0..Longest, Moves(p, l, b, s), crossing' = crossing,
           Puts(p) \/ Shrinks, CacheTypes', b \leq clock, s \leq version',
           l = "cache_set" => s = version',
           kind[p] = "update" =>
               l \notin {"cache_get", "db_read", "cache_set", "delete_order", "done"}
    PROVE  Inv'
  <1>1. /\ pc'[p] = l /\ began'[p] = b /\ seen'[p] = s
        /\ \A q \in Requests : q # p => pc'[q] = pc[q] /\ began'[q] = began[q] /\ seen'[q] = seen[q]
    BY MovesFacts DEF Inv
  <1>2. UNCHANGED <<clock, kind, spelling>>
    BY DEF Moves
  <1>3. Others(p)
    BY <1>1 DEF Others
  <1>4. ASSUME NEW name \in Names PROVE ~HasDeleted(p, name)'
    BY <1>1, <1>2 DEF HasDeleted
  <1>5. Effect(p)
    BY <1>1, <1>2, <1>3, <1>4 DEF Effect
  <1>6. Types'
    BY MovesTypes DEF Inv, Types
  <1> QED
    BY <1>5, <1>6, EffectInv

(* One that does not touch the caches either. *)
LEMMA QuietEffect ==
    ASSUME Inv, NEW p \in Requests, NEW l \in Labels, NEW b \in 0..MaxClock,
           NEW s \in 0..Longest, Moves(p, l, b, s), UNCHANGED <<version, outdatedAt, cache, crossing>>,
           b \leq clock, s \leq version, l = "cache_set" => s = version,
           kind[p] = "update" =>
               l \notin {"cache_get", "db_read", "cache_set", "delete_order", "done"}
    PROVE  Inv'
  <1>1. Changes /\ Shrinks
    BY DEF Changes, Shrinks
  <1>2. version' \in Nat /\ version \leq version' /\ clock' = clock
    BY DEF Inv, Types, Moves, Longest
  <1>3. CacheTypes'
    BY <1>2, CacheTypesFrame DEF Inv
  <1> QED
    BY <1>1, <1>3, MoveEffect

-----------------------------------------------------------------------------
(* A request starts. *)
LEMMA StartInv == ASSUME Inv, NEW p \in Requests, Start(p) PROVE Inv'
  <1>1. PICK l \in {"cache_get", "db_read", "db_write"} :
            pc' = [pc EXCEPT ![p] = l] /\ (kind[p] = "update" => l = "db_write")
    BY DEF Start, Goto
  <1>2. Moves(p, l, clock, seen[p])
    BY <1>1, Stand DEF Inv, Start, Moves, call
  <1>3. l \in Labels /\ l # "cache_set"
    BY DEF Labels
  <1>4. /\ clock \in 0..MaxClock /\ clock \leq clock
        /\ seen[p] \in 0..Longest /\ seen[p] \leq version
    BY Stand DEF Inv, Types
  <1>5. UNCHANGED <<version, outdatedAt, cache, crossing>>
    BY DEF Start
  <1> QED
    BY <1>1, <1>2, <1>3, <1>4, <1>5, QuietEffect

(* It reads a cache. *)
LEMMA CacheHitInv == ASSUME Inv, NEW p \in Requests, CacheHit(p) PROVE Inv'
  <1>1. /\ pc[p] = "cache_get" /\ pc' = [pc EXCEPT ![p] = "done"]
        /\ UNCHANGED <<version, outdatedAt, cache, clock, kind, spelling, began, crossing>>
        /\ cache[Fills(p)][spelling[p]] # Nothing
        /\ seen' = [seen EXCEPT ![p] = cache[Fills(p)][spelling[p]].version]
    BY DEF CacheHit, End, Goto, call
  <1>2. Fills(p) \in Names /\ spelling[p] \in Spellings
    BY FillsKey DEF Inv
  <1>3. PICK s \in 0..version : s = cache[Fills(p)][spelling[p]].version
    <2>1. cache[Fills(p)][spelling[p]].version \in 0..version
      BY <1>1, <1>2, Fields DEF Inv
    <2> QED
      BY <2>1, Zenon
  <1>4. s \in 0..Longest /\ s \leq version
    <2>1. version \in 0..Longest
      BY Stand DEF Inv
    <2> HIDE <1>3
    <2>2. s \in 0..version
      OBVIOUS
    <2> QED
      BY <2>1, <2>2 DEF Longest
  <1>5. began = [began EXCEPT ![p] = began[p]] /\ began[p] \in 0..MaxClock /\ began[p] \leq clock
    BY Stand DEF Inv
  <1>6. Moves(p, "done", began[p], s)
    BY <1>1, <1>3, <1>5, Zenon DEF Moves
  <1>7. kind[p] # "update"
    BY <1>1 DEF Inv, PathInv
  <1> QED
    BY <1>1, <1>4, <1>5, <1>6, <1>7, QuietEffect DEF Labels

(* It misses, it fails, or gives its caching up. *)
LEMMA QuietInv ==
    ASSUME Inv, NEW p \in Requests, CacheMiss(p) \/ CacheSetFails(p) \/ DbFails(p)
    PROVE  Inv'
  <1>1. PICK l \in {"db_read", "done", "failed"} :
            pc' = [pc EXCEPT ![p] = l] /\ (l # "failed" => pc[p] \in {"cache_get", "cache_set"})
    <2>1. CASE CacheMiss(p)
      BY <2>1 DEF CacheMiss, Goto
    <2>2. CASE CacheSetFails(p)
      BY <2>2 DEF CacheSetFails, End, Goto
    <2>3. CASE DbFails(p)
      BY <2>3 DEF DbFails, Goto
    <2> QED
      BY <2>1, <2>2, <2>3
  <1>2. UNCHANGED <<version, outdatedAt, cache, clock, kind, spelling, began, seen, crossing>>
    BY DEF CacheMiss, CacheSetFails, DbFails, call
  <1>3. Moves(p, l, began[p], seen[p])
    BY <1>1, <1>2, Stand DEF Inv, Moves
  <1>4. kind[p] = "update" => l = "failed"
    BY <1>1 DEF Inv, PathInv
  <1>5. l \in Labels /\ l # "cache_set"
    BY DEF Labels
  <1>6. /\ began[p] \in 0..MaxClock /\ began[p] \leq clock
        /\ seen[p] \in 0..Longest /\ seen[p] \leq version
    BY Stand DEF Inv
  <1> QED
    BY <1>2, <1>3, <1>4, <1>5, <1>6, QuietEffect

(* It reads the order. *)
LEMMA DbReadInv == ASSUME Inv, NEW p \in Requests, DbRead(p) PROVE Inv'
  <1>1. /\ pc[p] = "db_read"
        /\ UNCHANGED <<version, outdatedAt, cache, crossing>>
        /\ Moves(p, "cache_set", began[p], version)
    BY Stand DEF Inv, DbRead, Goto, Moves, call
  <1>2. kind[p] # "update"
    BY <1>1 DEF Inv, PathInv
  <1>3. began[p] \in 0..MaxClock /\ began[p] \leq clock /\ version \in 0..Longest
    BY Stand DEF Inv
  <1>4. version \leq version
    BY <1>3 DEF Longest
  <1> QED
    BY <1>1, <1>2, <1>3, <1>4, QuietEffect DEF Labels

(* It fills a cache. *)
LEMMA CacheSetInv == ASSUME Inv, NEW p \in Requests, CacheSet(p) PROVE Inv'
  <1>1. /\ pc[p] = "cache_set" /\ InTime(p)
        /\ cache' = [cache EXCEPT ![Fills(p)][FillKey(p)] = Entry(p)]
        /\ UNCHANGED <<version, outdatedAt, crossing>>
        /\ Moves(p, "done", began[p], seen[p])
    BY Stand DEF Inv, CacheSet, Entry, End, Goto, Moves, call
  <1>2. Put(Fills(p), FillKey(p), Entry(p)) /\ Puts(p) /\ Changes
    BY <1>1 DEF Put, Puts, Changes
  <1>3. kind[p] # "update"
    BY <1>1 DEF Inv, PathInv
  <1>4. /\ began[p] \in 0..MaxClock /\ began[p] \leq clock
        /\ seen[p] \in 0..Longest /\ seen[p] \leq version
        /\ clock \in 0..MaxClock /\ version \in 0..Longest
    BY Stand DEF Inv
  <1>5. Fills(p) \in Names /\ FillKey(p) \in Spellings
    BY FillsKey DEF Inv
  <1>6. Entry(p) \in Entries(Fills(p))
    <2>1. seen[p] \in 0..version
      BY <1>4 DEF Longest
    <2>2. clock + TTL(Fills(p)) \in (clock + 1)..(clock + TTL(Fills(p)))
      BY <1>4, <1>5, Times
    <2> QED
      BY <2>1, <2>2 DEF Entry, Entries
  <1>7. UNCHANGED <<version, clock>>
    BY <1>1 DEF Moves
  <1>8. CacheTypes'
    BY <1>2, <1>5, <1>6, <1>7, PutTypes DEF Inv
  <1> QED
    BY <1>1, <1>2, <1>3, <1>4, <1>8, MoveEffect DEF Labels

(* It changes the order. *)
LEMMA DbWriteInv ==
    ASSUME Inv, NEW p \in Requests, DbWrite(p) \/ DbWriteAnswerLost(p)
    PROVE  Inv'
  <1>1. PICK l \in {"cache_set", "delete_timeline", "failed"} :
            pc' = [pc EXCEPT ![p] = l] /\ (l = "cache_set" => kind[p] = "assign")
    BY DEF DbWrite, DbWriteAnswerLost, Goto
  <1>2. Change(p) /\ UNCHANGED <<cache, clock, kind, spelling, began, crossing>>
    BY DEF DbWrite, DbWriteAnswerLost, call
  <1>3. /\ version < Longest /\ version' = version + 1
        /\ outdatedAt' = [outdatedAt EXCEPT ![version] = clock]
        /\ seen' = [seen EXCEPT ![p] = version + 1]
    BY <1>2 DEF Change, Longest, Inv, Types
  <1>4. Changes /\ Shrinks
    BY <1>2, <1>3 DEF Changes, Shrinks
  <1>5. began[p] \in 0..MaxClock /\ began[p] \leq clock /\ version + 1 \in 0..Longest
    <2>1. version \in 0..Longest
      BY Stand DEF Inv
    <2>2. version + 1 \in 0..Longest
      BY <1>3, <2>1 DEF Longest
    <2> QED
      BY <2>2, Stand DEF Inv
  <1>6. Moves(p, l, began[p], version')
    BY <1>1, <1>2, <1>3, Stand DEF Inv, Moves
  <1>7. l \in Labels /\ (kind[p] = "update" => l # "cache_set")
    BY <1>1 DEF Labels
  <1>8. CacheTypes'
    <2>1. version' \in Nat /\ version \leq version'
      BY <1>3, <1>5 DEF Longest, Inv, Types
    <2> QED
      BY <1>2, <2>1, CacheTypesFrame DEF Inv
  <1>9. version' \in 0..Longest /\ version' \leq version'
    BY <1>3, <1>5 DEF Longest
  <1>10. crossing' = crossing
    BY <1>2
  <1>11. l \notin {"cache_get", "db_read", "delete_order", "done"}
    BY <1>1
  <1> QED
    BY <1>4, <1>5, <1>6, <1>7, <1>8, <1>9, <1>10, <1>11, MoveEffect

-----------------------------------------------------------------------------
(* An entry that is deleted, while the caches keep their types. *)
LEMMA DeleteCache ==
    ASSUME Inv, NEW p \in Requests, NEW name \in Names, UNCHANGED <<version, clock>>,
           cache' = [cache EXCEPT ![name][spelling[p]] = Nothing]
    PROVE  Shrinks /\ CacheTypes' /\ cache'[name][spelling[p]] = Nothing
  <1>1. Put(name, spelling[p], Nothing) /\ spelling[p] \in Spellings
    BY DEF Put, Inv, Types
  <1>2. CacheTypes'
    BY <1>1, PutTypes DEF Inv
  <1>3. /\ cache'[name][spelling[p]] = Nothing
        /\ \A n \in Names, id \in Spellings :
               n # name \/ id # spelling[p] => cache'[n][id] = cache[n][id]
    BY <1>1, PutFacts DEF Inv
  <1> QED
    BY <1>2, <1>3 DEF Shrinks

(* A DEL, or its failure: everybody that it crosses is remembered. *)
Deletes(p, name, gone) ==
    /\ crossing' = [crossing EXCEPT ![p][name] = gone]
    /\ \/ gone = OlderFills(name, seen[p])
          /\ cache' = [cache EXCEPT ![name][spelling[p]] = Nothing]
       \/ gone = Requests /\ cache' = cache

(* What is remembered of a DEL. *)
LEMMA DeletesFacts ==
    ASSUME Inv, NEW p \in Requests, NEW name \in Names, NEW gone, UNCHANGED <<version, clock>>,
           Deletes(p, name, gone)
    PROVE  /\ crossing' \in [Requests -> [Names -> SUBSET Requests]]
           /\ \A q \in Requests : q # p => crossing'[q] = crossing[q]
           /\ \A n \in Names : n # name => crossing'[p][n] = crossing[p][n]
           /\ Shrinks /\ CacheTypes' /\ Deleted(p, name)
  <1>1. gone \subseteq Requests
    BY DEF Deletes, OlderFills
  <1>2. /\ crossing' = [crossing EXCEPT ![p] = [crossing[p] EXCEPT ![name] = gone]]
        /\ crossing \in [Requests -> [Names -> SUBSET Requests]]
    BY DEF Deletes, Inv, Types
  <1>3. /\ crossing'[p] = [crossing[p] EXCEPT ![name] = gone]
        /\ crossing[p] \in [Names -> SUBSET Requests]
        /\ \A q \in Requests : q # p => crossing'[q] = crossing[q]
    BY <1>2
  <1>4. /\ crossing'[p] \in [Names -> SUBSET Requests]
        /\ crossing'[p][name] = gone
        /\ \A n \in Names : n # name => crossing'[p][n] = crossing[p][n]
    BY <1>1, <1>3
  <1>5. crossing' \in [Requests -> [Names -> SUBSET Requests]]
    BY <1>2, <1>3, <1>4
  <1>6. CASE /\ gone = OlderFills(name, seen[p])
             /\ cache' = [cache EXCEPT ![name][spelling[p]] = Nothing]
    BY <1>3, <1>4, <1>5, <1>6, DeleteCache DEF Deleted
  <1>7. CASE gone = Requests /\ cache' = cache
    <2>1. CacheTypes'
      <3>1. version' \in Nat /\ version \leq version'
        BY DEF Inv, Types, Longest
      <3> QED
        BY <1>7, <3>1, CacheTypesFrame DEF Inv
    <2>2. OlderFills(name, seen[p]) \subseteq Requests
      BY DEF OlderFills
    <2> QED
      BY <1>3, <1>4, <1>5, <1>7, <2>1, <2>2 DEF Deleted, Shrinks
  <1> QED
    BY <1>6, <1>7 DEF Deletes

(* The effect of a DEL of p that it makes after its transaction. *)
LEMMA DeletesInv ==
    ASSUME Inv, NEW p \in Requests, NEW name \in Names, NEW gone, Deletes(p, name, gone),
           UNCHANGED <<version, outdatedAt>>, NEW l \in {"delete_order", "done"},
           Moves(p, l, began[p], seen[p]),
           name = "timeline" => l = "delete_order",
           name = "order" => pc[p] = "delete_order"
    PROVE  Inv'
  <1>1. UNCHANGED <<clock, kind, spelling>>
    BY DEF Moves
  <1>2. /\ crossing' \in [Requests -> [Names -> SUBSET Requests]]
        /\ \A q \in Requests : q # p => crossing'[q] = crossing[q]
        /\ \A n \in Names : n # name => crossing'[p][n] = crossing[p][n]
        /\ Shrinks /\ CacheTypes' /\ Deleted(p, name)
    BY <1>1, DeletesFacts
  <1>3. /\ l \in Labels /\ Changes
        /\ began[p] \in 0..MaxClock /\ began[p] \leq clock
        /\ seen[p] \in 0..Longest /\ seen[p] \leq version
    BY Stand DEF Inv, Labels, Changes
  <1>4. /\ pc'[p] = l /\ began'[p] = began[p] /\ seen'[p] = seen[p]
        /\ \A q \in Requests : q # p => pc'[q] = pc[q] /\ began'[q] = began[q] /\ seen'[q] = seen[q]
    BY <1>3, MovesFacts DEF Inv
  <1>5. Others(p)
    BY <1>2, <1>4 DEF Others
  <1>6. ASSUME NEW n \in Names, HasDeleted(p, n)' PROVE Deleted(p, n)
    <2>1. CASE n = name
      BY <1>2, <2>1
    <2>2. CASE n # name
      <3>1. kind[p] = "update" /\ (n = "order" => l = "done")
        BY <1>1, <1>4, <1>6 DEF HasDeleted
      <3>2. n = "timeline" /\ name = "order"
        BY <2>2, <3>1 DEF Names
      <3>3. HasDeleted(p, n)
        BY <3>1, <3>2 DEF HasDeleted
      <3> QED
        BY <1>2, <2>2, <3>3 DEF Deleted
    <2> QED
      BY <2>1, <2>2
  <1>7. Effect(p)
    BY <1>1, <1>2, <1>3, <1>4, <1>5, <1>6 DEF Effect
  <1>8. Types'
    BY <1>2, <1>3, MovesTypes DEF Inv
  <1> QED
    BY <1>2, <1>7, <1>8, EffectInv

(* UpdateOrderStatus deletes the timeline's entry. *)
LEMMA DeleteTimelineInv ==
    ASSUME Inv, NEW p \in Requests, DeleteTimeline(p) \/ DeleteTimelineFails(p)
    PROVE  Inv'
  <1>1. /\ pc[p] = "delete_timeline" /\ pc' = [pc EXCEPT ![p] = "delete_order"]
        /\ UNCHANGED <<version, outdatedAt, clock, kind, spelling, began, seen>>
    BY DEF DeleteTimeline, DeleteTimelineFails, Goto, call
  <1>2. Moves(p, "delete_order", began[p], seen[p])
    BY <1>1, Stand DEF Inv, Moves
  <1>3. PICK gone : Deletes(p, "timeline", gone)
    <2>1. CASE DeleteTimeline(p)
      BY <2>1 DEF DeleteTimeline, Delete, Deletes
    <2>2. CASE DeleteTimelineFails(p)
      BY <2>2 DEF DeleteTimelineFails, Deletes
    <2> QED
      BY <2>1, <2>2
  <1>4. "timeline" \in Names /\ "timeline" # "order"
    BY DEF Names
  <1> QED
    BY <1>1, <1>2, <1>3, <1>4, DeletesInv

(* And then the order's. *)
LEMMA DeleteOrderInv ==
    ASSUME Inv, NEW p \in Requests, DeleteOrder(p) \/ DeleteOrderFails(p)
    PROVE  Inv'
  <1>1. /\ pc[p] = "delete_order" /\ pc' = [pc EXCEPT ![p] = "done"]
        /\ UNCHANGED <<version, outdatedAt, clock, kind, spelling, began, seen>>
    BY DEF DeleteOrder, DeleteOrderFails, End, Goto, call
  <1>2. Moves(p, "done", began[p], seen[p])
    BY <1>1, Stand DEF Inv, Moves
  <1>3. PICK gone : Deletes(p, "order", gone)
    <2>1. CASE DeleteOrder(p)
      BY <2>1 DEF DeleteOrder, Delete, Deletes
    <2>2. CASE DeleteOrderFails(p)
      BY <2>2 DEF DeleteOrderFails, Deletes
    <2> QED
      BY <2>1, <2>2
  <1>4. "order" \in Names /\ "timeline" # "order"
    BY DEF Names
  <1> QED
    BY <1>1, <1>2, <1>3, <1>4, DeletesInv

(* The clock ticks. *)
LEMMA TickInv == ASSUME Inv, Tick PROVE Inv'
  <1>1. /\ clock' = clock + 1 /\ clock < MaxClock
        /\ UNCHANGED <<version, outdatedAt, kind, spelling, pc, began, seen, crossing>>
    BY DEF Tick, call
  <1>2. clock \in 0..MaxClock /\ MaxClock \in Nat
    BY Times DEF Inv, Types
  <1>3. CacheTypes' /\ Shrinks
    BY TickCache DEF Inv, Shrinks
  <1>4. Types'
    BY <1>1, <1>2 DEF Inv, Types
  <1>5. ASSUME NEW p \in Requests PROVE began[p] \leq clock'
    <2>1. began[p] \in Nat /\ began[p] \leq clock
      BY DEF Inv, Types, PathInv
    <2> QED
      BY <1>1, <1>2, <2>1
  <1>6. PathInv'
    BY <1>1, <1>5 DEF Inv, PathInv
  <1>7. FillInv'
    BY <1>1 DEF Inv, FillInv
  <1>8. EntryInv'
    <2>1. ASSUME NEW name \in Names, NEW id \in Spellings,
                 cache'[name][id] # Nothing, cache'[name][id].version < version
          PROVE  cache'[name][id].expires \leq outdatedAt[cache'[name][id].version] + TTL(name) + Deadline
      <3>1. cache'[name][id] = cache[name][id]
        BY <1>3, <2>1 DEF Shrinks
      <3> QED
        BY <2>1, <3>1 DEF Inv, EntryInv
    <2> QED
      BY <1>1, <2>1 DEF EntryInv, TTL
  <1>9. \A p \in Writers, name \in Names : HasDeleted(p, name)' <=> HasDeleted(p, name)
    BY <1>1 DEF HasDeleted
  <1>10. CrossInv'
    <2>1. \A q \in Requests : Fills(q)' = Fills(q)
      BY <1>1 DEF Fills
    <2> QED
      BY <1>1, <1>9, <2>1 DEF Inv, CrossInv
  <1>11. StaleOnlyByCrossing'
    <2>1. ASSUME NEW p \in Writers, NEW name \in Names, HasDeleted(p, name),
                 cache'[name][spelling[p]] # Nothing,
                 cache'[name][spelling[p]].version < seen[p]
          PROVE  cache'[name][spelling[p]].by \in crossing[p][name]
      <3>1. spelling[p] \in Spellings
        BY DEF Inv, Types, Requests
      <3>2. cache'[name][spelling[p]] = cache[name][spelling[p]]
        BY <1>3, <2>1, <3>1 DEF Shrinks
      <3> QED
        BY <2>1, <3>2 DEF Inv, StaleOnlyByCrossing
    <2> QED
      BY <1>1, <1>9, <2>1 DEF StaleOnlyByCrossing
  <1> QED
    BY <1>3, <1>4, <1>6, <1>7, <1>8, <1>10, <1>11 DEF Inv

(* At first nothing has happened. *)
LEMMA InitInv == ASSUME Init PROVE Inv
  <1>1. Types
    <2>1. /\ version = 0 /\ clock = 0 /\ 0 \in 0..Longest /\ 0 \in 0..MaxClock
          /\ \A p \in Requests : kind[p] \in Kinds[p]
          /\ spelling \in [Requests -> Spellings]
      BY Times DEF Init, Longest
    <2>2. /\ outdatedAt \in [0..Longest -> 0..MaxClock]
          /\ pc \in [Requests -> Labels]
          /\ began \in [Requests -> 0..MaxClock]
          /\ seen \in [Requests -> 0..Longest]
          /\ crossing \in [Requests -> [Names -> SUBSET Requests]]
      BY <2>1 DEF Init, Labels
    <2> QED
      BY <2>1, <2>2 DEF Types
  <1>2. \A name \in Names, id \in Spellings : cache[name][id] = Nothing
    BY DEF Init
  <1>3. CacheTypes
    BY <1>2 DEF Init, CacheTypes
  <1>4. ASSUME NEW p \in Requests PROVE pc[p] = "idle" /\ seen[p] = 0 /\ began[p] = 0
    BY DEF Init
  <1>5. PathInv /\ FillInv
    BY <1>4 DEF Init, PathInv, FillInv
  <1>6. EntryInv
    BY <1>2 DEF EntryInv
  <1>7. ASSUME NEW p \in Writers, NEW name \in Names PROVE ~HasDeleted(p, name)
    BY <1>4 DEF Requests, HasDeleted
  <1>8. CrossInv /\ StaleOnlyByCrossing
    BY <1>7 DEF CrossInv, StaleOnlyByCrossing
  <1> QED
    BY <1>1, <1>3, <1>5, <1>6, <1>8 DEF Inv

(* If nothing happens, nothing changes. *)
LEMMA StutterInv == ASSUME Inv, UNCHANGED vars PROVE Inv'
  <1>1. UNCHANGED <<version, outdatedAt, cache, clock, kind, spelling, pc, began, seen, crossing>>
    BY DEF vars, call
  <1>2. Types' /\ PathInv' /\ FillInv'
    BY <1>1 DEF Inv, Types, PathInv, FillInv
  <1>3. CacheTypes'
    BY <1>1 DEF Inv, CacheTypes, Entries, TTL
  <1>4. EntryInv'
    BY <1>1 DEF Inv, EntryInv, TTL
  <1>5. CrossInv' /\ StaleOnlyByCrossing'
    BY <1>1 DEF Inv, CrossInv, StaleOnlyByCrossing, HasDeleted, Fills
  <1> QED
    BY <1>2, <1>3, <1>4, <1>5 DEF Inv

-----------------------------------------------------------------------------
(* The invariant holds in every reachable state of the caches. *)
THEOREM CachesInvariant == Spec => []Inv
  <1>1. Init => Inv
    BY InitInv
  <1>2. Inv /\ [Next]_vars => Inv'
    <2> SUFFICES ASSUME Inv, [Next]_vars PROVE Inv'
      OBVIOUS
    <2>1. ASSUME NEW p \in Requests, Advance(p) PROVE Inv'
      <3>1. CASE Start(p)
        BY <3>1, StartInv
      <3>2. CASE CacheHit(p)
        BY <3>2, CacheHitInv
      <3>3. CASE CacheMiss(p) \/ CacheSetFails(p) \/ DbFails(p)
        BY <3>3, QuietInv
      <3>4. CASE DbRead(p)
        BY <3>4, DbReadInv
      <3>5. CASE CacheSet(p)
        BY <3>5, CacheSetInv
      <3>6. CASE DbWrite(p) \/ DbWriteAnswerLost(p)
        BY <3>6, DbWriteInv
      <3>7. CASE DeleteTimeline(p) \/ DeleteTimelineFails(p)
        BY <3>7, DeleteTimelineInv
      <3>8. CASE DeleteOrder(p) \/ DeleteOrderFails(p)
        BY <3>8, DeleteOrderInv
      <3> QED
        BY <2>1, <3>1, <3>2, <3>3, <3>4, <3>5, <3>6, <3>7, <3>8 DEF Advance
    <2> QED
      BY <2>1, TickInv, StutterInv DEF Next
  <1> QED
    BY <1>1, <1>2, PTL DEF Spec

(* TypeOK of OrderCaches holds in every reachable state: no entry is of a  *)
(* version that is still to come, or outlives its time.                    *)
THEOREM CachesTyped == Spec => []TypeOK
  <1>1. Inv => TypeOK
    BY DEF Inv, Types, CacheTypes, TypeOK, Labels
  <1> QED
    BY <1>1, CachesInvariant, PTL

(* BoundedStaleness: for any number of readers and writers and any times,  *)
(* what a cache serves was current at most one time to live and one        *)
(* handler deadline ago.                                                   *)
THEOREM CachesBounded == Spec => []BoundedStaleness
  <1>1. ASSUME Inv PROVE BoundedStaleness
    <2>1. ASSUME NEW name \in Names, NEW id \in Spellings,
                 cache[name][id] # Nothing, cache[name][id].version < version
          PROVE  clock < outdatedAt[cache[name][id].version] + TTL(name) + Deadline
      <3> DEFINE x == cache[name][id].expires
                 limit == outdatedAt[cache[name][id].version] + TTL(name) + Deadline
      <3>1. x \leq limit
        BY <1>1, <2>1 DEF Inv, EntryInv
      <3>2. x \in (clock + 1)..(clock + TTL(name)) /\ cache[name][id].version \in 0..version
        BY <1>1, <2>1, Fields DEF Inv
      <3>3. clock \in Nat /\ TTL(name) \in Nat /\ Deadline \in Nat
        BY <1>1, Times DEF Inv, Types
      <3>4. limit \in Nat
        <4>1. cache[name][id].version \in 0..Longest
          <5>1. 0..version \subseteq 0..Longest
            BY <1>1 DEF Inv, Types, Longest
          <5> QED
            BY <3>2, <5>1
        <4>2. outdatedAt[cache[name][id].version] \in Nat
          BY <1>1, <4>1 DEF Inv, Types
        <4> QED
          BY <3>3, <4>2
      <3> HIDE DEF x, limit
      <3>5. clock < limit
        BY <3>1, <3>2, <3>3, <3>4
      <3> QED
        BY <3>5 DEF limit
    <2> QED
      BY <2>1 DEF BoundedStaleness
  <1> QED
    BY <1>1, CachesInvariant, PTL

(* StaleOnlyByCrossing: once UpdateOrderStatus has deleted an entry, only  *)
(* a fill that was under way then can make it older than the update again. *)
THEOREM CachesCrossing == Spec => []StaleOnlyByCrossing
  <1>1. Inv => StaleOnlyByCrossing
    BY DEF Inv
  <1> QED
    BY <1>1, CachesInvariant, PTL
=============================================================================
