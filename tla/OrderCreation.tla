---------------------------- MODULE OrderCreation ----------------------------
(***************************************************************************)
(* Idempotent creation of an order: CreateOrder of the order-service and   *)
(* the transaction it runs.  A request looks its idempotency key up; if    *)
(* there is no order under it, it inserts two addresses and an order in    *)
(* one transaction; if the unique index on the key refuses the order, it   *)
(* looks the key up again.  Clients may send the same key any number of    *)
(* times, at the same time or after an answer that did not arrive.         *)
(*                                                                         *)
(* An order's id is a fresh UUID, so it is named by the request that       *)
(* inserted it.  The unique index works as in Postgres: an insert of a key *)
(* that a transaction still in progress has inserted waits for its end.    *)
(***************************************************************************)
EXTENDS Naturals, FiniteSets

CONSTANTS
    Requests,   \* calls of CreateOrder
    Keys,       \* idempotency keys
    None        \* no order, no holder

ASSUME NoneAssumption == None \notin Requests

VARIABLES
    orderOf,    \* orderOf[k]: the committed order under key k
    pending,    \* pending[k]: the open transaction that has inserted k
    addresses,  \* requests whose two addresses are committed
    cached,     \* orders the service has put into the redis cache
    pc,         \* pc[p]: the call request p is about to make
    key,        \* key[p]: the request's Idempotency-Key
    wrote,      \* wrote[p]: what p's open transaction has inserted
    answer      \* answer[p]: the order returned and whether it is new

vars == <<orderOf, pending, addresses, cached, pc, key, wrote, answer>>

NoAnswer == [status |-> "none", order |-> None]
Answers == {NoAnswer, [status |-> "error", order |-> None]}
           \cup [status: {"created", "existing"}, order: Requests]

Init ==
    /\ orderOf = [k \in Keys |-> None]
    /\ pending = [k \in Keys |-> None]
    /\ addresses = {}
    /\ cached = {}
    /\ pc = [p \in Requests |-> "idle"]
    /\ key \in [Requests -> Keys]
    /\ wrote = [p \in Requests |-> {}]
    /\ answer = [p \in Requests |-> NoAnswer]

Goto(p, label) == pc' = [pc EXCEPT ![p] = label]

Reply(p, status, order) ==
    answer' = [answer EXCEPT ![p] = [status |-> status, order |-> order]]

Start(p) ==
    /\ pc[p] = "idle"
    /\ Goto(p, "lookup")
    /\ UNCHANGED <<orderOf, pending, addresses, cached, key, wrote, answer>>

(* GetOrderByIdempotencyKey: a hit goes on to cache the existing order, a  *)
(* miss to the transaction.                                                *)
Lookup(p) ==
    /\ pc[p] = "lookup"
    /\ IF orderOf[key[p]] # None
       THEN Goto(p, "cache") /\ Reply(p, "existing", orderOf[key[p]])
       ELSE Goto(p, "address") /\ UNCHANGED answer
    /\ UNCHANGED <<orderOf, pending, addresses, cached, key, wrote>>

(* The two insertAddress calls at the head of the transaction. *)
InsertAddresses(p) ==
    /\ pc[p] = "address"
    /\ Goto(p, "insert")
    /\ wrote' = [wrote EXCEPT ![p] = @ \cup {"addresses"}]
    /\ UNCHANGED <<orderOf, pending, addresses, cached, key, answer>>

(* The key is not unique in the table: nobody waits and nobody conflicts. *)
MutInsertNoIndex(p) ==
    LET k == key[p]
    IN /\ pc[p] = "insert"
       /\ wrote' = [wrote EXCEPT ![p] = @ \cup {"order"}]
       /\ pending' = [pending EXCEPT ![k] = p]
       /\ Goto(p, "commit")
       /\ UNCHANGED <<orderOf, addresses, cached, key, answer>>

(* The insert does not wait for the transaction that holds the key. *)
MutInsertNoWait(p) ==
    LET k == key[p]
    IN /\ pc[p] = "insert"
       /\ IF orderOf[k] = None /\ pending[k] = None
          THEN /\ wrote' = [wrote EXCEPT ![p] = @ \cup {"order"}]
               /\ pending' = [pending EXCEPT ![k] = p]
               /\ Goto(p, "commit")
          ELSE /\ UNCHANGED <<wrote, pending>>
               /\ Goto(p, "conflict")
       /\ UNCHANGED <<orderOf, addresses, cached, key, answer>>

(* The insert into orders.  It waits while another transaction holds the   *)
(* key in the index; a committed holder makes it fail, which aborts this   *)
(* transaction and leads to the second lookup.                             *)
InsertOrder(p) ==
    LET k == key[p]
    IN /\ pc[p] = "insert"
       /\ pending[k] = None
       /\ IF orderOf[k] = None
          THEN /\ wrote' = [wrote EXCEPT ![p] = @ \cup {"order"}]
               /\ pending' = [pending EXCEPT ![k] = p]
               /\ Goto(p, "commit")
          ELSE /\ UNCHANGED <<wrote, pending>>
               /\ Goto(p, "conflict")
       /\ UNCHANGED <<orderOf, addresses, cached, key, answer>>

(* A rollback leaves the key in the index. *)
MutKeepKey(p, committed) ==
    /\ orderOf' = IF committed /\ "order" \in wrote[p]
                  THEN [orderOf EXCEPT ![key[p]] = p] ELSE orderOf
    /\ addresses' = IF committed /\ "addresses" \in wrote[p]
                    THEN addresses \cup {p} ELSE addresses
    /\ pending' = IF committed THEN [pending EXCEPT ![key[p]] = None] ELSE pending
    /\ wrote' = [wrote EXCEPT ![p] = {}]

(* Closing the transaction: its writes become visible, or vanish. *)
EndTx(p, committed) ==
    /\ orderOf' = IF committed /\ "order" \in wrote[p]
                  THEN [orderOf EXCEPT ![key[p]] = p] ELSE orderOf
    /\ addresses' = IF committed /\ "addresses" \in wrote[p]
                    THEN addresses \cup {p} ELSE addresses
    /\ pending' = [pending EXCEPT ![key[p]] = IF @ = p THEN None ELSE @]
    /\ wrote' = [wrote EXCEPT ![p] = {}]

(* The conflicting attempt is committed instead of rolled back. *)
MutConflictCommits(p) ==
    /\ pc[p] = "conflict"
    /\ EndTx(p, TRUE)
    /\ Goto(p, "relookup")
    /\ UNCHANGED <<cached, key, answer>>

(* ErrDuplicateIdempotency: the deferred Rollback, then the second lookup. *)
RollbackConflict(p) ==
    /\ pc[p] = "conflict"
    /\ EndTx(p, FALSE)
    /\ Goto(p, "relookup")
    /\ UNCHANGED <<cached, key, answer>>

(* The second lookup; its ErrOrderNotFound would reach the client. *)
Relookup(p) ==
    /\ pc[p] = "relookup"
    /\ IF orderOf[key[p]] # None
       THEN Goto(p, "cache") /\ Reply(p, "existing", orderOf[key[p]])
       ELSE Goto(p, "done") /\ Reply(p, "error", None)
    /\ UNCHANGED <<orderOf, pending, addresses, cached, key, wrote>>

Commit(p) ==
    /\ pc[p] = "commit"
    /\ EndTx(p, TRUE)
    /\ Goto(p, "cache")
    /\ Reply(p, "created", p)
    /\ UNCHANGED <<cached, key>>

(* COMMIT took effect but its answer did not come back in time. *)
CommitAnswerLost(p) ==
    /\ pc[p] = "commit"
    /\ EndTx(p, TRUE)
    /\ Goto(p, "done")
    /\ Reply(p, "error", None)
    /\ UNCHANGED <<cached, key>>

(* The error of a commit is overlooked: the order is cached and returned. *)
MutIgnoreCommitError(p) ==
    /\ pc[p] \in {"lookup", "address", "insert", "commit", "conflict", "relookup"}
    /\ EndTx(p, FALSE)
    /\ IF pc[p] = "commit" THEN Goto(p, "cache") /\ Reply(p, "created", p)
       ELSE Goto(p, "done") /\ Reply(p, "error", None)
    /\ UNCHANGED <<cached, key>>

(* The zero order of a failed call is cached. *)
MutCacheOnError(p) ==
    /\ pc[p] \in {"lookup", "address", "insert", "commit", "conflict", "relookup"}
    /\ EndTx(p, FALSE)
    /\ Goto(p, "cache")
    /\ Reply(p, "error", None)
    /\ UNCHANGED <<cached, key>>

(* A statement fails, the connection breaks, the process dies or the five  *)
(* seconds of the handler are over; an open transaction is rolled back.    *)
Fail(p) ==
    /\ pc[p] \in {"lookup", "address", "insert", "commit", "conflict", "relookup"}
    /\ EndTx(p, FALSE)
    /\ Goto(p, "done")
    /\ Reply(p, "error", None)
    /\ UNCHANGED <<cached, key>>

(* cacheOrder: an error of redis is logged and the answer stays. *)
CacheOrder(p) ==
    /\ pc[p] = "cache"
    /\ cached' \in {cached, cached \cup {answer[p].order}}
    /\ Goto(p, "done")
    /\ UNCHANGED <<orderOf, pending, addresses, key, wrote, answer>>

Advance(p) ==
    \/ Lookup(p) \/ InsertAddresses(p) \/ InsertOrder(p) \/ RollbackConflict(p)
    \/ Relookup(p) \/ Commit(p) \/ CacheOrder(p)

Next == \E p \in Requests : Start(p) \/ Advance(p) \/ CommitAnswerLost(p) \/ Fail(p)

Spec == Init /\ [][Next]_vars

FairSpec == Spec /\ \A p \in Requests : WF_vars(Advance(p))

-----------------------------------------------------------------------------
TypeOK ==
    /\ orderOf \in [Keys -> Requests \cup {None}]
    /\ pending \in [Keys -> Requests \cup {None}]
    /\ addresses \subseteq Requests
    /\ cached \subseteq Requests
    /\ pc \in [Requests -> {"idle", "lookup", "address", "insert", "commit", "conflict",
                           "relookup", "cache", "done"}]
    /\ key \in [Requests -> Keys]
    /\ wrote \in [Requests -> SUBSET {"addresses", "order"}]
    /\ answer \in [Requests -> Answers]

(* Every answer for a key names the one order stored under it, however the *)
(* requests overlap, and only the request that inserted it says created.   *)
AnswersAgree ==
    \A p \in Requests :
        /\ answer[p].status = "existing" => answer[p].order = orderOf[key[p]]
        /\ answer[p].status = "created"  => answer[p].order = p /\ orderOf[key[p]] = p

(* The order under a key is never replaced: a request repeated after a     *)
(* lost answer, or beside the first one, finds the same order.             *)
OrderNeverReplaced ==
    [][\A k \in Keys : orderOf[k] # None => orderOf'[k] = orderOf[k]]_vars

(* Every request takes effect in one step, as IdempotentCreation says, and *)
(* answers once, whatever the interleaving of lookups and transactions.    *)
Promise == INSTANCE IdempotentCreation

ImplementsIdempotentCreation == Promise!PromiseSpec

(* A conflict is always resolved: the transaction that owned the key has   *)
(* committed, so the second lookup of CreateOrder cannot miss.             *)
RelookupFinds ==
    \A p \in Requests : pc[p] \in {"conflict", "relookup"} => orderOf[key[p]] # None

(* Addresses are committed with their order or not at all. *)
NoOrphanAddresses == addresses = {p \in Requests : orderOf[key[p]] = p}

(* The cache is only ever filled with orders that are in the database. *)
CachedAreCommitted == \A p \in cached : orderOf[key[p]] = p

(* A request whose insert waits on another one's open transaction is never *)
(* left waiting, even if no deadline cuts either off.                      *)
EveryCreateEnds == \A p \in Requests : pc[p] # "idle" ~> pc[p] = "done"
=============================================================================
