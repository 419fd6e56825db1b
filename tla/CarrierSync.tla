----------------------------- MODULE CarrierSync -----------------------------
(***************************************************************************)
(* The carrier-sync-service: its worker fetches a batch of status updates  *)
(* from the carrier and pushes them one by one to the tracking-service,    *)
(* each with up to RetryMaxAttempts requests; POST /sync/run fetches a     *)
(* batch at any time and only shows it.                                    *)
(*                                                                         *)
(* An update is named by its place in the carrier's stream, the cursor of  *)
(* the mock client.  A request stays in the net until it is handled: never *)
(* if it was lost, perhaps after the worker has given it up.  The          *)
(* tracking-service is its effect on the order, one step (OrderStore).     *)
(* The delays between attempts and the wait for the timer are left out.    *)
(***************************************************************************)
EXTENDS StatusMachine, Naturals, FiniteSets, Sequences

CONSTANTS
    MockOrderIDs,      \* the orders the carrier knows, a sequence
    BatchSize,         \* batch of the worker; the carrier caps all batches at 20
    ManualBatchSizes,  \* the batches that manual runs ask for
    RetryMaxAttempts,
    MaxCursor,         \* bound of the updates handed out
    MaxBoots           \* bound of the restarts

ASSUME CountsAssumption ==
    /\ Len(MockOrderIDs) \in Nat \ {0}
    /\ BatchSize \in 1..20
    /\ ManualBatchSizes \subseteq 1..20
    /\ RetryMaxAttempts \in Nat \ {0}
    /\ MaxCursor \in Nat
    /\ MaxBoots \in Nat

VARIABLES
    status,     \* status[o]: the order's row at the tracking-service
    cursor,     \* updates the carrier has handed out
    lastKnown,  \* the latest stored batch: the places of its updates
    boot,       \* restarts of the carrier-sync-service
    pc,         \* what the worker is about to do
    attempt,    \* of the fetch or of the push at work
    batch,      \* updates the worker still has to push, the current one first
    manual,     \* the batch of a manual run that is not stored yet, or <<>>
    shown,      \* updates handed to manual runs
    synced,     \* updates the worker counted as synced
    failed,     \* updates the worker counted as failed
    unsure,     \* updates with an attempt that neither a 2xx nor a refusal ended (history)
    net,        \* requests sent to the tracking-service and not handled yet
    applied     \* requests that changed an order (history)

tracking == <<status, applied>>
worker == <<pc, attempt, batch, synced, failed, unsure>>
vars == <<tracking, cursor, lastKnown, boot, worker, manual, shown, net>>

-----------------------------------------------------------------------------
(* externalToInternalStatusMap, by internal status. *)
ExternalNames ==
    [created    |-> {"created", "new", "registered", "accepted", "confirmed", "processing",
                     "order_received", "shipment_created", "info_received", "pending"},
     assigned   |-> {"assigned", "courier_assigned", "picked_up", "pickup_completed",
                     "collected", "ready_for_dispatch"},
     in_transit |-> {"in_transit", "out_for_delivery", "on_the_way", "on_route",
                     "departed_hub", "arrived_hub", "at_sorting_center", "sorting"},
     delivered  |-> {"delivered", "completed", "received", "done"},
     cancelled  |-> {"cancelled", "canceled", "delivery_failed", "undeliverable", "rejected",
                     "returned", "lost"}]

MapExternalStatus(external) ==
    CHOOSE s \in Statuses : external \in ExternalNames[s]

(* The stream of the mock carrier. *)
Update(c) ==
    [order |-> MockOrderIDs[(c % Len(MockOrderIDs)) + 1],
     external |-> <<"created", "assigned", "in_transit", "delivered">>[(c % 4) + 1]]

Orders == {MockOrderIDs[i] : i \in 1..Len(MockOrderIDs)}

Places(from, n) == [i \in 1..n |-> from + i - 1]
Elements(s) == {s[i] : i \in 1..Len(s)}

(* The request of the attempt the worker waits for. *)
CurrentRequest == [place |-> Head(batch), boot |-> boot, attempt |-> attempt]

Init ==
    /\ status = [o \in Orders |-> "created"]
    /\ cursor = 0
    /\ lastKnown = <<>>
    /\ boot = 0
    /\ pc = "idle"
    /\ attempt = 0
    /\ batch = <<>>
    /\ manual = <<>>
    /\ shown = {}
    /\ synced = {}
    /\ failed = {}
    /\ unsure = {}
    /\ net = {}
    /\ applied = {}

-----------------------------------------------------------------------------
(* runOnce begins, at the start of the worker or at a tick of its timer. *)
StartCycle ==
    /\ pc = "idle"
    /\ pc' = "fetch"
    /\ attempt' = 1
    /\ UNCHANGED <<tracking, cursor, lastKnown, boot, batch, synced, failed, unsure, manual, shown, net>>

(* FetchStatusUpdates, under the carrier's mutex. *)
Fetch ==
    /\ pc = "fetch"
    /\ cursor + BatchSize \leq MaxCursor
    /\ cursor' = cursor + BatchSize
    /\ batch' = Places(cursor, BatchSize)
    /\ pc' = "store"
    /\ UNCHANGED <<tracking, lastKnown, boot, attempt, synced, failed, unsure, manual, shown, net>>

(* storeLastKnown, under the service's mutex; the pushes follow. *)
Store ==
    /\ pc = "store"
    /\ lastKnown' = batch
    /\ pc' = "push"
    /\ attempt' = 1
    /\ UNCHANGED <<tracking, cursor, boot, batch, synced, failed, unsure, manual, shown, net>>

(* The attempt times out before the carrier moves its cursor.  After the   *)
(* last one the last known statuses are only logged: nothing is pushed.    *)
FetchFails ==
    /\ pc = "fetch"
    /\ IF attempt < RetryMaxAttempts
       THEN attempt' = attempt + 1 /\ pc' = "fetch"
       ELSE attempt' = 0 /\ pc' = "idle"
    /\ UNCHANGED <<tracking, cursor, lastKnown, boot, batch, synced, failed, unsure, manual, shown, net>>

(* PushStatusUpdate sends one request. *)
Push ==
    /\ pc = "push"
    /\ net' = net \cup {CurrentRequest}
    /\ pc' = "wait"
    /\ UNCHANGED <<tracking, cursor, lastKnown, boot, attempt, batch, synced, failed, unsure, manual, shown>>

(* The next update of the batch, or the end of the cycle. *)
NextUpdate ==
    /\ batch' = Tail(batch)
    /\ IF Tail(batch) = <<>> THEN pc' = "idle" /\ attempt' = 0
                             ELSE pc' = "push" /\ attempt' = 1

(* Off by one: an attempt more than configured. *)
MutOneAttemptTooMany ==
    IF attempt \leq RetryMaxAttempts
    THEN /\ attempt' = attempt + 1
         /\ pc' = "push"
         /\ UNCHANGED <<batch, failed>>
    ELSE /\ failed' = failed \cup {Head(batch)}
         /\ NextUpdate

(* The attempts are not counted. *)
MutRetryForever ==
    /\ pc' = "push"
    /\ UNCHANGED <<attempt, batch, failed>>

(* An attempt failed: another one, or the update is counted as failed. *)
AttemptFails ==
    IF attempt < RetryMaxAttempts
    THEN /\ attempt' = attempt + 1
         /\ pc' = "push"
         /\ UNCHANGED <<batch, failed>>
    ELSE /\ failed' = failed \cup {Head(batch)}
         /\ NextUpdate

(* The attempt's context or the client's timeout is over, or the           *)
(* connection broke.  What was sent may still be handled.                  *)
GiveUp ==
    /\ pc = "wait"
    /\ AttemptFails
    /\ unsure' = unsure \cup {Head(batch)}
    /\ UNCHANGED <<tracking, cursor, lastKnown, boot, synced, manual, shown, net>>

-----------------------------------------------------------------------------
(* UpdateOrderStatus of the tracking-service for request r. *)
Allowed(r) ==
    LET u == Update(r.place)
    IN ValidateStatusTransition(status[u.order], MapExternalStatus(u.external))

(* It commits the change, or ends without one. *)
Handle(r, commits) ==
    LET u == Update(r.place)
    IN /\ r \in net
       /\ net' = net \ {r}
       /\ IF commits
          THEN /\ Allowed(r)
               /\ status' = [status EXCEPT ![u.order] = MapExternalStatus(u.external)]
               /\ applied' = applied \cup {r}
          ELSE UNCHANGED tracking

(* The worker gets the answer it waits for. *)
Hears(r) ==
    /\ pc = "wait"
    /\ r = CurrentRequest
    /\ UNCHANGED <<cursor, lastKnown, boot, manual, shown>>

(* 2xx. *)
Confirmed(r) ==
    /\ Hears(r)
    /\ Handle(r, TRUE)
    /\ synced' = synced \cup {r.place}
    /\ NextUpdate
    /\ UNCHANGED <<failed, unsure>>

(* Any answer of the tracking-service ends the attempts. *)
MutAnyAnswerIsSuccess(r) ==
    /\ Hears(r)
    /\ ~Allowed(r)
    /\ Handle(r, FALSE)
    /\ synced' = synced \cup {r.place}
    /\ NextUpdate
    /\ UNCHANGED <<failed, unsure>>

(* 409: the transition is refused, which is retried like any other error. *)
Refused(r) ==
    /\ Hears(r)
    /\ ~Allowed(r)
    /\ Handle(r, FALSE)
    /\ AttemptFails
    /\ UNCHANGED <<synced, unsure>>

(* 500: the transaction failed, or its COMMIT took effect and returned an  *)
(* error.  A COMMIT that takes effect after the 500 is a GiveUp here.      *)
ErrorAnswer(r) ==
    /\ Hears(r)
    /\ \E commits \in BOOLEAN : Handle(r, commits)
    /\ AttemptFails
    /\ unsure' = unsure \cup {r.place}
    /\ UNCHANGED synced

Answered(r) == Confirmed(r) \/ Refused(r) \/ ErrorAnswer(r)

(* The request is handled, but its answer reaches nobody: it was lost, or  *)
(* the worker has given up, gone on or died.  (One that fails without an   *)
(* effect might as well stay in the net.)                                  *)
Unanswered(r) ==
    /\ Handle(r, Allowed(r))
    /\ UNCHANGED <<cursor, lastKnown, boot, worker, manual, shown>>

(* Another client of the order-service or tracking-service. *)
ClientUpdate(o, s) ==
    /\ ValidateStatusTransition(status[o], s)
    /\ status' = [status EXCEPT ![o] = s]
    /\ UNCHANGED <<applied, cursor, lastKnown, boot, worker, manual, shown, net>>

-----------------------------------------------------------------------------
(* A manual run gets the last known batch, if there is one. *)
MutServeLastKnown ==
    /\ manual = <<>>
    /\ lastKnown # <<>>
    /\ manual' = lastKnown
    /\ shown' = shown \cup Elements(lastKnown)
    /\ UNCHANGED <<tracking, cursor, lastKnown, boot, worker, net>>

(* SyncOnceWithFallback of POST /sync/run: the carrier hands it a batch of *)
(* its own.  A failed fetch shows the last known batch and changes nothing.*)
ManualFetch ==
    /\ manual = <<>>
    /\ \E n \in ManualBatchSizes :
          /\ cursor + n \leq MaxCursor
          /\ cursor' = cursor + n
          /\ manual' = Places(cursor, n)
          /\ shown' = shown \cup Elements(Places(cursor, n))
    /\ UNCHANGED <<tracking, lastKnown, boot, worker, net>>

ManualStore ==
    /\ manual # <<>>
    /\ lastKnown' = manual
    /\ manual' = <<>>
    /\ UNCHANGED <<tracking, cursor, boot, worker, shown, net>>

(* The process dies: lastKnown and the mock carrier's cursor start anew,   *)
(* what was sent stays sent.                                               *)
Restart ==
    /\ boot < MaxBoots
    /\ boot' = boot + 1
    /\ cursor' = 0
    /\ lastKnown' = <<>>
    /\ pc' = "idle"
    /\ attempt' = 0
    /\ batch' = <<>>
    /\ manual' = <<>>
    /\ shown' = {}
    /\ synced' = {}
    /\ failed' = {}
    /\ unsure' = {}
    /\ UNCHANGED <<tracking, net>>

(* What the worker does by itself once a cycle has begun; its waits end. *)
Advance == Fetch \/ FetchFails \/ Store \/ Push \/ GiveUp

Next ==
    \/ StartCycle
    \/ Advance
    \/ \E r \in net : Answered(r) \/ Unanswered(r)
    \/ \E o \in Orders, s \in Statuses : ClientUpdate(o, s)
    \/ ManualFetch
    \/ ManualStore
    \/ Restart

Spec == Init /\ [][Next]_vars

FairSpec == Spec /\ WF_vars(Advance)

-----------------------------------------------------------------------------
Requests == [place: 0..MaxCursor, boot: 0..MaxBoots, attempt: 1..RetryMaxAttempts]

TypeOK ==
    /\ status \in [Orders -> Statuses]
    /\ cursor \in 0..MaxCursor
    /\ lastKnown \in Seq(0..MaxCursor) /\ Elements(lastKnown) \subseteq 0..(cursor - 1)
    /\ boot \in 0..MaxBoots
    /\ pc \in {"idle", "fetch", "store", "push", "wait"}
    /\ attempt \in 0..RetryMaxAttempts
    /\ batch \in Seq(0..MaxCursor)
    /\ manual \in Seq(0..MaxCursor)
    /\ shown \subseteq 0..MaxCursor
    /\ synced \subseteq 0..MaxCursor
    /\ failed \subseteq 0..MaxCursor
    /\ net \subseteq Requests
    /\ applied \subseteq Requests
    /\ unsure \subseteq 0..MaxCursor

SameChange(r, s) ==
    /\ Update(r.place).order = Update(s.place).order
    /\ MapExternalStatus(Update(r.place).external) = MapExternalStatus(Update(s.place).external)

(* However often an update is retried, handled late after its attempt was  *)
(* given up, or handed out again by the carrier after a restart: it        *)
(* changes the order at most once.  Pushes carry no key; the transition    *)
(* map is all that makes them idempotent.                                  *)
AppliedAtMostOnce == \A r, s \in applied : SameChange(r, s) => r = s

AppliedNow == {r.place : r \in {s \in applied : s.boot = boot}}

(* The worker's counts tell what became of the updates.  One counted as    *)
(* synced has changed its order.  One counted as failed may have changed   *)
(* it all the same, because a COMMIT can take effect and be answered 500   *)
(* or not in time, but only by an attempt that ended so: if all that the   *)
(* worker got were refusals, late requests and other clients included, the *)
(* update changed nothing.                                                 *)
CountsTellEffect ==
    /\ synced \subseteq AppliedNow
    /\ failed \cap AppliedNow \subseteq unsure

(* Every update the carrier hands out is accounted for exactly once: shown *)
(* by a manual run, which nobody pushes; counted as synced or failed; or   *)
(* still in the worker's batch.                                            *)
UpdatesAccountedFor ==
    LET parts == <<shown, synced, failed, Elements(batch)>>
    IN /\ UNION Elements(parts) = 0..(cursor - 1)
       /\ \A i, j \in 1..4 : i # j => parts[i] \cap parts[j] = {}

(* A cycle of the worker ends, whatever the carrier and the tracking       *)
(* service do: attempts are bounded and every call has a timeout.          *)
EveryCycleEnds == pc # "idle" ~> pc = "idle"
=============================================================================
