----------------------------- MODULE OrderStore -----------------------------
(***************************************************************************)
(* The Postgres tables orders, assignments and order_status_history, and   *)
(* the transactions the two services run on them: AssignOrder of the       *)
(* order-service and UpdateOrderStatus of the tracking-service.  A request *)
(* is a process that runs one transaction, statement by statement; any     *)
(* statement may fail, the request may be cut off by its deadline, and the *)
(* answer to COMMIT may be lost.  The writes of a transaction are kept     *)
(* aside in wrote and reach the tables at the commit.                      *)
(*                                                                         *)
(* Postgres is modelled at READ COMMITTED, as the code uses it:            *)
(* SELECT ... FOR UPDATE waits for the row's lock and then reads the       *)
(* committed row, and NOW() is the time the transaction began.             *)
(***************************************************************************)
EXTENDS StatusMachine, Naturals, Sequences

CONSTANTS
    Requests,        \* requests, each one call of a handler
    Orders,          \* order ids
    Couriers,        \* courier ids a client may name
    ActiveCouriers,  \* couriers with is_active = TRUE
    Sources,         \* the sources clients of UpdateOrderStatus give
    NoOrder,         \* status of an id that has no row
    NoCourier,       \* no assignment row
    NoRequest,       \* holder of a free row lock
    MaxClock         \* bound of the clock

ASSUME CouriersAssumption ==
    /\ ActiveCouriers \subseteq Couriers
    /\ NoCourier \notin Couriers

ASSUME ConstantsAssumption ==
    /\ Sources \subseteq StatusSources
    /\ NoOrder \notin Statuses
    /\ NoRequest \notin Requests
    /\ MaxClock \in Nat

VARIABLES
    row,         \* row[o]: the committed row of orders
    assignment,  \* assignment[o]: courier of the committed assignments row
    history,     \* history[o]: order_status_history rows, in commit order
    lock,        \* lock[o]: the request whose transaction holds the row lock
    clock,       \* the database's clock
    pc,          \* pc[p]: the statement request p is about to run
    req,         \* req[p]: the request's input
    began,       \* began[p]: when p's transaction began, its NOW()
    wrote,       \* wrote[p]: tables p's open transaction has written
    reply        \* reply[p]: what the repository returned to the service

db == <<row, assignment, history>>
vars == <<row, assignment, history, lock, clock, pc, req, began, wrote, reply>>

-----------------------------------------------------------------------------
AssignInputs == [kind: {"assign"}, order: Orders, courier: Couriers]
UpdateInputs == [kind: {"update"}, order: Orders, status: Statuses, source: Sources]
Inputs == AssignInputs \cup UpdateInputs

(* A history row; by names the request that wrote it (not a column). *)
Entries == [status: Statuses, source: StatusSources,
            courier: Couriers \cup {NoCourier}, at: Nat, by: Requests]

Refusals == {"order_not_found", "already_assigned", "assignment_not_allowed",
             "transition_not_allowed", "courier_not_found"}

Labels == {"idle", "select", "courier", "assignment", "update", "history",
           "commit", "rollback", "done"}

Exists(o) == row[o].status # NoOrder
Order(p) == req[p].order
IsAssign(p) == req[p].kind = "assign"
NextStatus(p) == IF IsAssign(p) THEN "assigned" ELSE req[p].status

Init ==
    /\ row = [o \in Orders |-> [status |-> NoOrder, createdAt |-> 0, lastStatusAt |-> 0]]
    /\ assignment = [o \in Orders |-> NoCourier]
    /\ history = [o \in Orders |-> <<>>]
    /\ lock = [o \in Orders |-> NoRequest]
    /\ clock = 0
    /\ pc = [p \in Requests |-> "idle"]
    /\ req \in [Requests -> Inputs]
    /\ began = [p \in Requests |-> 0]
    /\ wrote = [p \in Requests |-> {}]
    /\ reply = [p \in Requests |-> "none"]

Tick ==
    /\ clock < MaxClock
    /\ clock' = clock + 1
    /\ UNCHANGED <<db, lock, pc, req, began, wrote, reply>>

(* The commit of CreateOrder (module OrderCreation has its steps): the row *)
(* appears with the default status and the time its transaction began, and *)
(* no history row is written.                                              *)
CreateOrder(o, at) ==
    /\ ~Exists(o)
    /\ row' = [row EXCEPT ![o] = [status |-> "created", createdAt |-> at, lastStatusAt |-> at]]
    /\ UNCHANGED <<assignment, history, lock, clock, pc, req, began, wrote, reply>>

BeginTx(p) ==
    /\ pc[p] = "idle"
    /\ pc' = [pc EXCEPT ![p] = "select"]
    /\ began' = [began EXCEPT ![p] = clock]
    /\ UNCHANGED <<db, lock, clock, req, wrote, reply>>

-----------------------------------------------------------------------------
(* Leaving the transaction with an answer; the deferred Rollback follows. *)
Refuse(p, answer) ==
    /\ pc' = [pc EXCEPT ![p] = "rollback"]
    /\ reply' = [reply EXCEPT ![p] = answer]

Goto(p, label) ==
    /\ pc' = [pc EXCEPT ![p] = label]
    /\ UNCHANGED reply

(* sql.ErrNoRows: there is no row to lock. *)
SelectMissing(p) ==
    /\ pc[p] = "select"
    /\ ~Exists(Order(p))
    /\ Refuse(p, "order_not_found")
    /\ UNCHANGED <<db, lock, clock, req, began, wrote>>

(* The checks of AssignOrder and of ValidateStatusTransition on the status *)
(* just read under the lock.                                               *)
StatusCheck(p, current) ==
    IF IsAssign(p)
    THEN CASE current = "assigned" -> "already_assigned"
           [] current = "created"  -> "none"
           [] OTHER                -> "assignment_not_allowed"
    ELSE IF ValidateStatusTransition(current, req[p].status)
         THEN "none" ELSE "transition_not_allowed"

(* The status is read without FOR UPDATE: the row's lock is not waited for. *)
MutSelectNoWait(p) ==
    LET o == Order(p)
        answer == StatusCheck(p, row[o].status)
    IN /\ pc[p] = "select"
       /\ Exists(o)
       /\ lock' = [lock EXCEPT ![o] = p]
       /\ IF answer = "none"
          THEN Goto(p, IF IsAssign(p) THEN "courier" ELSE "update")
          ELSE Refuse(p, answer)
       /\ UNCHANGED <<db, clock, req, began, wrote>>

SelectForUpdate(p) ==
    LET o == Order(p)
        answer == StatusCheck(p, row[o].status)
    IN /\ pc[p] = "select"
       /\ Exists(o)
       /\ lock[o] = NoRequest
       /\ lock' = [lock EXCEPT ![o] = p]
       /\ IF answer = "none"
          THEN Goto(p, IF IsAssign(p) THEN "courier" ELSE "update")
          ELSE Refuse(p, answer)
       /\ UNCHANGED <<db, clock, req, began, wrote>>

CheckCourier(p) ==
    /\ pc[p] = "courier"
    /\ IF req[p].courier \in ActiveCouriers
       THEN Goto(p, "assignment")
       ELSE Refuse(p, "courier_not_found")
    /\ UNCHANGED <<db, lock, clock, req, began, wrote>>

(* uq_assignments_order_id turns a second row into already_assigned. *)
InsertAssignment(p) ==
    /\ pc[p] = "assignment"
    /\ IF assignment[Order(p)] = NoCourier
       THEN /\ Goto(p, "update")
            /\ wrote' = [wrote EXCEPT ![p] = @ \cup {"assignments"}]
       ELSE /\ Refuse(p, "already_assigned")
            /\ UNCHANGED wrote
    /\ UNCHANGED <<db, lock, clock, req, began>>

(* chk_orders_last_status_at_not_before_created fails the statement when   *)
(* the transaction began before the order's own.                           *)
UpdateRow(p) ==
    /\ pc[p] = "update"
    /\ IF began[p] \geq row[Order(p)].createdAt
       THEN /\ Goto(p, "history")
            /\ wrote' = [wrote EXCEPT ![p] = @ \cup {"orders"}]
       ELSE /\ Refuse(p, "error")
            /\ UNCHANGED wrote
    /\ UNCHANGED <<db, lock, clock, req, began>>

(* The history row is forgotten for an assignment. *)
MutNoAssignHistory(p) ==
    /\ pc[p] = "history"
    /\ Goto(p, "commit")
    /\ wrote' = [wrote EXCEPT ![p] = IF IsAssign(p) THEN @ ELSE @ \cup {"history"}]
    /\ UNCHANGED <<db, lock, clock, req, began>>

InsertHistory(p) ==
    /\ pc[p] = "history"
    /\ Goto(p, "commit")
    /\ wrote' = [wrote EXCEPT ![p] = @ \cup {"history"}]
    /\ UNCHANGED <<db, lock, clock, req, began>>

-----------------------------------------------------------------------------
(* A source outside status_source_t. *)
MutUnknownSource(p) ==
    [status  |-> NextStatus(p),
     source  |-> IF IsAssign(p) THEN "order-service" ELSE req[p].source,
     courier |-> IF IsAssign(p) THEN req[p].courier ELSE NoCourier,
     at      |-> began[p],
     by      |-> p]

HistoryRow(p) ==
    [status  |-> NextStatus(p),
     source  |-> IF IsAssign(p) THEN "manager" ELSE req[p].source,
     courier |-> IF IsAssign(p) THEN req[p].courier ELSE NoCourier,
     at      |-> began[p],
     by      |-> p]

(* Postgres makes the transaction's writes visible, all at once, and frees *)
(* the row lock.                                                           *)
Apply(p) ==
    LET o == Order(p)
    IN /\ row' = IF "orders" \in wrote[p]
                 THEN [row EXCEPT ![o] = [status       |-> NextStatus(p),
                                            createdAt    |-> row[o].createdAt,
                                            lastStatusAt |-> began[p]]]
                 ELSE row
       /\ assignment' = IF "assignments" \in wrote[p]
                        THEN [assignment EXCEPT ![o] = req[p].courier]
                        ELSE assignment
       /\ history' = IF "history" \in wrote[p]
                     THEN [history EXCEPT ![o] = Append(@, HistoryRow(p))]
                     ELSE history
       /\ lock' = [lock EXCEPT ![o] = NoRequest]
       /\ wrote' = [wrote EXCEPT ![p] = {}]

Commit(p) ==
    /\ pc[p] = "commit"
    /\ Apply(p)
    /\ pc' = [pc EXCEPT ![p] = "done"]
    /\ reply' = [reply EXCEPT ![p] = "ok"]
    /\ UNCHANGED <<clock, req, began>>

(* COMMIT reached the database but its answer did not come back in time. *)
CommitAnswerLost(p) ==
    /\ pc[p] = "commit"
    /\ Apply(p)
    /\ pc' = [pc EXCEPT ![p] = "done"]
    /\ reply' = [reply EXCEPT ![p] = "error"]
    /\ UNCHANGED <<clock, req, began>>

(* A statement fails, the connection breaks, the process dies or the       *)
(* request's deadline passes: also while it waits for the row lock.        *)
Fail(p) ==
    /\ pc[p] \in {"select", "courier", "assignment", "update", "history", "commit"}
    /\ Refuse(p, "error")
    /\ UNCHANGED <<db, lock, clock, req, began, wrote>>

(* An early return that forgets to roll back keeps the row lock. *)
MutNoRollback(p) ==
    /\ pc[p] = "rollback"
    /\ wrote' = [wrote EXCEPT ![p] = {}]
    /\ pc' = [pc EXCEPT ![p] = "done"]
    /\ UNCHANGED <<db, lock, clock, req, began, reply>>

(* The early return commits what has been written so far. *)
MutCommitOnError(p) ==
    /\ pc[p] = "rollback"
    /\ Apply(p)
    /\ pc' = [pc EXCEPT ![p] = "done"]
    /\ UNCHANGED <<clock, req, began, reply>>

Rollback(p) ==
    /\ pc[p] = "rollback"
    /\ lock' = [lock EXCEPT ![Order(p)] = IF @ = p THEN NoRequest ELSE @]
    /\ wrote' = [wrote EXCEPT ![p] = {}]
    /\ pc' = [pc EXCEPT ![p] = "done"]
    /\ UNCHANGED <<db, clock, req, began, reply>>

-----------------------------------------------------------------------------
(* What the handler does by itself once its transaction has begun. *)
Advance(p) ==
    \/ SelectMissing(p)
    \/ SelectForUpdate(p)
    \/ CheckCourier(p)
    \/ InsertAssignment(p)
    \/ UpdateRow(p)
    \/ InsertHistory(p)
    \/ Commit(p)
    \/ Rollback(p)

Next ==
    \/ Tick
    \/ \E o \in Orders : \E at \in 0..clock : CreateOrder(o, at)
    \/ \E p \in Requests :
        \/ BeginTx(p)
        \/ Advance(p)
        \/ CommitAnswerLost(p)
        \/ Fail(p)

Spec == Init /\ [][Next]_vars

FairSpec == Spec /\ \A p \in Requests : WF_vars(Advance(p))
-----------------------------------------------------------------------------
TypeOK ==
    /\ row \in [Orders -> [status: Statuses \cup {NoOrder}, createdAt: Nat, lastStatusAt: Nat]]
    /\ assignment \in [Orders -> Couriers \cup {NoCourier}]
    /\ history \in [Orders -> Seq(Entries)]
    /\ lock \in [Orders -> Requests \cup {NoRequest}]
    /\ clock \in Nat
    /\ pc \in [Requests -> Labels]
    /\ req \in [Requests -> Inputs]
    /\ began \in [Requests -> Nat]
    /\ wrote \in [Requests -> SUBSET {"assignments", "orders", "history"}]
    /\ reply \in [Requests -> Refusals \cup {"none", "ok", "error"}]

(* The history of an order, in commit order, is a walk of the transition   *)
(* map that starts from created and ends in the order's current status:    *)
(* although two services write it, from two code bases, and only one of    *)
(* them consults ValidateStatusTransition.                                 *)
HistoryIsLifecyclePath ==
    \A o \in Orders :
        LET h == history[o]
        IN /\ h # <<>> => /\ h[1].status \in AllowedTransitions["created"]
                          /\ row[o].status = h[Len(h)].status
           /\ h = <<>> => row[o].status \in {NoOrder, "created"}
           /\ \A i \in 1..(Len(h) - 1) : h[i + 1].status \in AllowedTransitions[h[i].status]

(* last_status_at is the created_at of the newest history row: the two     *)
(* NOW() of a transaction agree, and no transaction writes only one.       *)
LastStatusAtMatchesHistory ==
    \A o \in Orders :
        LET h == history[o]
        IN Exists(o) => row[o].lastStatusAt = IF h = <<>> THEN row[o].createdAt ELSE h[Len(h)].at

(* An order has an assignment exactly when its history holds a row of an   *)
(* assignment, that row is its first, and it names the same courier.       *)
AssignmentMatchesHistory ==
    \A o \in Orders :
        LET h == history[o]
        IN /\ assignment[o] # NoCourier =>
                /\ h # <<>>
                /\ h[1].courier = assignment[o]
                /\ h[1].status = "assigned"
           /\ \A i \in 1..Len(h) : h[i].courier # NoCourier => i = 1 /\ assignment[o] = h[i].courier

(* The answer tells the truth: ok means one history row of this request,   *)
(* a refusal means none; an error alone leaves the outcome open, and even  *)
(* then the request was applied at most once.                              *)
RowsOf(p) == {i \in 1..Len(history[Order(p)]) : history[Order(p)][i].by = p}

AnswerMatchesStore ==
    \A p \in Requests :
        /\ reply[p] = "ok" => RowsOf(p) # {}
        /\ reply[p] \in Refusals => RowsOf(p) = {}
        /\ \A i, j \in RowsOf(p) : i = j

(* The unique constraint on assignments never decides: the row lock and    *)
(* the status check come first, so the conflict branch of AssignOrder is   *)
(* only a second line of defence.                                          *)
AssignmentConflictUnreachable ==
    \A p \in Requests : pc[p] = "assignment" => assignment[Order(p)] = NoCourier

(* Every status change takes effect in one step, as OrderLifecycle says,   *)
(* whatever the interleaving of the transactions.                          *)
Lifecycle == INSTANCE OrderLifecycle WITH
    status <- [o \in Orders |-> row[o].status], courier <- assignment

ImplementsLifecycle == Lifecycle!LifecycleSpec

(* Row locks are always given back: a request that began its transaction   *)
(* ends, even if no deadline ever cuts off another one.                    *)
EveryRequestEnds == \A p \in Requests : pc[p] # "idle" ~> pc[p] = "done"

(* docs/api/openapi-v1.yaml:496 shows a timeline whose first item is       *)
(* status created, source system.                                          *)
TimelineStartsAtCreated ==
    \A o \in Orders : history[o] # <<>> => history[o][1].status = "created"

(* e2e/gateway_happy_path_test.go:221 expects the timeline, which is       *)
(* sorted by created_at, to hold the statuses in the order of the changes. *)
TimelineInChangeOrder ==
    \A o \in Orders : \A i, j \in 1..Len(history[o]) :
        i < j => history[o][i].at \leq history[o][j].at
=============================================================================
