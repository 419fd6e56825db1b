------------------------- MODULE IdempotentCreation -------------------------
(***************************************************************************)
(* What CreateOrder promises to the clients of an idempotency key, with    *)
(* every request taking effect in one step: there is at most one order     *)
(* under a key, a request creates it, finds it, or fails, and it answers   *)
(* once.  A request that failed may have created the order all the same.   *)
(* OrderCreation is the detailed specification that implements this one.   *)
(***************************************************************************)
CONSTANTS
    Requests,   \* calls of CreateOrder
    Keys,       \* idempotency keys
    None        \* no order

VARIABLES
    orderOf,    \* orderOf[k]: the order under key k, named by its request
    key,        \* key[p]: the request's Idempotency-Key
    answer      \* answer[p]: the order returned and whether it is new

promiseVars == <<orderOf, key, answer>>

Unanswered(p) == answer[p] = [status |-> "none", order |-> None]

PromiseInit ==
    /\ orderOf = [k \in Keys |-> None]
    /\ key \in [Requests -> Keys]
    /\ answer = [p \in Requests |-> [status |-> "none", order |-> None]]

Reply(p, status, order) ==
    answer' = [answer EXCEPT ![p] = [status |-> status, order |-> order]]

(* The answer may be lost or come too late. *)
Create(p) ==
    /\ Unanswered(p)
    /\ orderOf[key[p]] = None
    /\ orderOf' = [orderOf EXCEPT ![key[p]] = p]
    /\ Reply(p, "created", p) \/ Reply(p, "error", None)
    /\ UNCHANGED key

Find(p) ==
    /\ Unanswered(p)
    /\ orderOf[key[p]] # None
    /\ Reply(p, "existing", orderOf[key[p]])
    /\ UNCHANGED <<orderOf, key>>

Fail(p) ==
    /\ Unanswered(p)
    /\ Reply(p, "error", None)
    /\ UNCHANGED <<orderOf, key>>

PromiseNext == \E p \in Requests : Create(p) \/ Find(p) \/ Fail(p)

PromiseSpec == PromiseInit /\ [][PromiseNext]_promiseVars
=============================================================================
