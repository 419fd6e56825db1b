---------------------------- MODULE StatusDispatch ----------------------------
(***************************************************************************)
(* UpdateOrderStatus of the tracking-service from its transaction to its   *)
(* answer, together with the notification-service it calls: after the      *)
(* commit and the two cache deletions the handler tells the                *)
(* notification-service of the change, by email and then by telegram.      *)
(* Each of the two requests may take SendTimeout, both and everything      *)
(* before them share the handler's Deadline.  A failed send is logged,     *)
(* nothing is ever sent again.                                             *)
(*                                                                         *)
(* The transaction is its effect on the order, one step (OrderStore); the  *)
(* steps of the notification-service are those of NotificationService,     *)
(* which Send implements (NotificationDedup).  A request that has been sent is handled whenever *)
(* it arrives, perhaps after the handler has given it up or died, perhaps  *)
(* never.                                                                  *)
(***************************************************************************)
EXTENDS StatusMachine, Naturals, Sequences

CONSTANTS
    Orders,
    Updates,      \* calls of UpdateOrderStatus
    Asks,         \* what they may ask for: functions from Updates to order and status
    Deadline,     \* updateStatusTimeout, in seconds
    SendTimeout   \* defaultRequestTimeout of the notification client, in seconds

ASSUME DispatchAssumption ==
    /\ Asks \subseteq [Updates -> [order: Orders, status: Statuses]]
    /\ Deadline \in Nat \ {0}
    /\ SendTimeout \in Nat \ {0}

VARIABLES
    status,     \* status[o]: the committed status of order o
    target,     \* target[u]: the order and the status that u asks for
    pc,         \* pc[u]: what the handler of u is about to do, or waits for
    age,        \* age[u]: seconds since the handler began, while it runs
    emailAt,    \* emailAt[u]: its age when it turned to its first request
    waited,     \* waited[u]: seconds the handler has waited for the current request
    reply,      \* reply[u]: what the handler of u answered
    heard,      \* heard[r]: what the handler made of request r
    call,       \* call[r]: how far request r has come
    reserved,   \* the keys of dedupSentAt of the notification-service
    committed,  \* updates that changed their order (history)
    earlier,    \* earlier[u]: updates whose handler had ended when u's began (history)
    taken       \* taken[ch]: updates the provider was told of on ch, in order (history)

times == <<age, emailAt, waited>>
handler == <<target, pc, times, reply, heard>>
service == <<reserved, taken>>
history == <<committed, earlier>>
vars == <<status, handler, call, service, history>>

Channels == {"email", "telegram"}
Requests == Updates \X Channels

(* buildDedupKey; each channel has one configured recipient. *)
Key(r) == <<target[r[1]].order, target[r[1]].status, r[2]>>
Keys == Orders \X Statuses \X Channels

keys == [r \in Requests |-> Key(r)]

Service == INSTANCE NotificationService WITH key <- keys

Ended(u) == pc[u] \in {"done", "cut"}
Running(u) == pc[u] # "idle" /\ ~Ended(u)
Sending(u) == pc[u] \in Channels
Current(u) == <<u, pc[u]>>

Init ==
    /\ status = [o \in Orders |-> "created"]
    /\ target \in Asks
    /\ pc = [u \in Updates |-> "idle"]
    /\ age = [u \in Updates |-> 0]
    /\ emailAt = [u \in Updates |-> 0]
    /\ waited = [u \in Updates |-> 0]
    /\ reply = [u \in Updates |-> "none"]
    /\ heard = [r \in Requests |-> "none"]
    /\ call = [r \in Requests |-> "none"]
    /\ reserved = {}
    /\ committed = {}
    /\ earlier = [u \in Updates |-> {}]
    /\ taken = [ch \in Channels |-> <<>>]

Goto(u, label) == pc' = [pc EXCEPT ![u] = label]

Answer(u, r) ==
    /\ Goto(u, "done")
    /\ reply' = [reply EXCEPT ![u] = r]
    /\ age' = [age EXCEPT ![u] = 0]
    /\ emailAt' = [emailAt EXCEPT ![u] = 0]

-----------------------------------------------------------------------------
(* The client obeys the handler's deadline only. *)
MutSharedBudget(u) == age[u] = Deadline

(* The request carries no context and the client has no timeout. *)
MutNoTimeout(u) == FALSE

(* The client's timeout or the context of the handler ends a request. *)
TimeIsUp(u) == age[u] = Deadline \/ waited[u] = SendTimeout

(* The handler turns to its next request at once. *)
AboutToSend(u) == Sending(u) /\ call[Current(u)] = "none"

(* A second passes. *)
Tick ==
    /\ \E u \in Updates : Running(u)
    /\ \A u \in Updates : Running(u) =>
        /\ age[u] < Deadline
        /\ ~AboutToSend(u)
        /\ Sending(u) => ~TimeIsUp(u)
    /\ age' = [u \in Updates |-> IF Running(u) THEN age[u] + 1 ELSE age[u]]
    /\ waited' = [u \in Updates |-> IF Sending(u) THEN waited[u] + 1 ELSE waited[u]]
    /\ UNCHANGED <<status, target, pc, emailAt, reply, heard, call, service, history>>

Begin(u) ==
    /\ pc[u] = "idle"
    /\ Goto(u, "transaction")
    /\ earlier' = [earlier EXCEPT ![u] = {v \in Updates : Ended(v)}]
    /\ UNCHANGED <<status, target, times, reply, heard, call, service, committed>>

Allowed(u) == ValidateStatusTransition(status[target[u].order], target[u].status)

Apply(u) ==
    /\ status' = [status EXCEPT ![target[u].order] = target[u].status]
    /\ committed' = committed \cup {u}

Commit(u) ==
    /\ pc[u] = "transaction"
    /\ Allowed(u)
    /\ Apply(u)
    /\ Goto(u, "caches")
    /\ UNCHANGED <<target, times, reply, heard, call, service, earlier>>

Refuse(u) ==
    /\ pc[u] = "transaction"
    /\ ~Allowed(u)
    /\ Answer(u, "refused")
    /\ UNCHANGED <<status, target, waited, heard, call, service, history>>

(* Postgres fails or the deadline passes.  The answer to a COMMIT may be   *)
(* what is lost: then the order has changed and nobody is told.            *)
CommitFails(u) ==
    /\ pc[u] = "transaction"
    /\ \/ UNCHANGED <<status, committed>>
       \/ Allowed(u) /\ Apply(u)
    /\ Answer(u, "error")
    /\ UNCHANGED <<target, waited, heard, call, service, earlier>>

(* invalidateTimeline and invalidateOrderCache are over. *)
Invalidate(u) ==
    /\ pc[u] = "caches"
    /\ Goto(u, "email")
    /\ emailAt' = [emailAt EXCEPT ![u] = age[u]]
    /\ UNCHANGED <<status, target, age, waited, reply, heard, call, service, history>>

-----------------------------------------------------------------------------
(* NotifyStatusChanged sends the request of the current channel. *)
Send(u) ==
    /\ AboutToSend(u)
    /\ age[u] < Deadline
    /\ UNCHANGED <<status, handler, taken, history>>
    /\ Service!Ask(Current(u))

(* The first failure ends the dispatch. *)
MutStopAtFailure(u, what) ==
    /\ heard' = [heard EXCEPT ![Current(u)] = what]
    /\ waited' = [waited EXCEPT ![u] = 0]
    /\ IF pc[u] = "email" /\ what = "ok" THEN Goto(u, "telegram") /\ UNCHANGED <<reply, age, emailAt>>
                                         ELSE Answer(u, "ok")

(* The current request is over; an error is collected and logged, and the  *)
(* change is answered as a success all the same.                           *)
Conclude(u, what) ==
    /\ heard' = [heard EXCEPT ![Current(u)] = what]
    /\ waited' = [waited EXCEPT ![u] = 0]
    /\ IF pc[u] = "email" THEN Goto(u, "telegram") /\ UNCHANGED <<reply, age, emailAt>>
                          ELSE Answer(u, "ok")

(* The notification-service answers as soon as it has the event. *)
MutHearAccepted(u) ==
    /\ Sending(u)
    /\ \/ call[Current(u)] \in {"send", "taken", "duplicate"} /\ Conclude(u, "ok")
       \/ call[Current(u)] = "failed" /\ Conclude(u, "failed")
    /\ UNCHANGED <<status, target, call, service, history>>

Hear(u) ==
    /\ Sending(u)
    /\ \/ call[Current(u)] \in {"taken", "duplicate"} /\ Conclude(u, "ok")
       \/ call[Current(u)] = "failed" /\ Conclude(u, "failed")
    /\ UNCHANGED <<status, target, call, service, history>>

TimeUp(u) ==
    /\ Sending(u)
    /\ TimeIsUp(u)
    /\ Conclude(u, "failed")
    /\ UNCHANGED <<status, target, call, service, history>>

(* There is no connection, it broke, or the caller of the handler has      *)
(* gone, which cancels the handler's context.                              *)
Broken(u) ==
    /\ Sending(u)
    /\ Conclude(u, "failed")
    /\ UNCHANGED <<status, target, call, service, history>>

(* The tracking-service dies: its handlers are cut, what was sent stays    *)
(* sent.                                                                   *)
Crash ==
    /\ \E u \in Updates : Running(u)
    /\ pc' = [u \in Updates |-> IF Running(u) THEN "cut" ELSE pc[u]]
    /\ age' = [u \in Updates |-> 0]
    /\ emailAt' = [u \in Updates |-> 0]
    /\ waited' = [u \in Updates |-> 0]
    /\ UNCHANGED <<status, target, reply, heard, call, service, history>>

-----------------------------------------------------------------------------
(* The steps of the notification-service leave the handlers alone. *)
Reserve(r) ==
    /\ UNCHANGED <<status, handler, taken, history>>
    /\ Service!Enter(r)

ProviderTakes(r) ==
    /\ taken' = [taken EXCEPT ![r[2]] = Append(@, r[1])]
    /\ UNCHANGED <<status, handler, history>>
    /\ Service!Take(r)

ProviderFails(r) ==
    /\ UNCHANGED <<status, handler, taken, history>>
    /\ Service!Fail(r)

Restart ==
    /\ UNCHANGED <<status, handler, taken, history>>
    /\ Service!Restart

-----------------------------------------------------------------------------
(* AssignOrder of the order-service notifies nobody. *)
AssignOrder(o) ==
    /\ status[o] = "created"
    /\ status' = [status EXCEPT ![o] = "assigned"]
    /\ UNCHANGED <<handler, call, service, history>>

(* What a handler does by itself, without the notification-service. *)
Advance(u) ==
    \/ Commit(u) \/ Refuse(u) \/ CommitFails(u) \/ Invalidate(u)
    \/ Send(u) \/ Hear(u) \/ TimeUp(u)

Next ==
    \/ Tick
    \/ Crash
    \/ Restart
    \/ \E u \in Updates : Begin(u) \/ Advance(u) \/ Broken(u)
    \/ \E r \in Requests : Reserve(r) \/ ProviderTakes(r) \/ ProviderFails(r)
    \/ \E o \in Orders : AssignOrder(o)

Spec == Init /\ [][Next]_vars

(* Time passes, and a handler that need not wait goes on. *)
FairSpec == Spec /\ WF_vars(Tick \/ \E u \in Updates : Advance(u))

-----------------------------------------------------------------------------
TypeOK ==
    /\ status \in [Orders -> Statuses]
    /\ target \in [Updates -> [order: Orders, status: Statuses]]
    /\ pc \in [Updates -> {"idle", "transaction", "caches", "done", "cut"} \cup Channels]
    /\ age \in [Updates -> 0..Deadline]
    /\ waited \in [Updates -> 0..SendTimeout]
    /\ reply \in [Updates -> {"none", "ok", "refused", "error"}]
    /\ heard \in [Requests -> {"none", "ok", "failed"}]
    /\ call \in [Requests -> {"none", "net", "send", "taken", "duplicate", "failed"}]
    /\ reserved \subseteq Keys
    /\ committed \subseteq Updates
    /\ emailAt \in [Updates -> 0..Deadline]
    /\ earlier \in [Updates -> SUBSET Updates]
    /\ taken \in [Channels -> Seq(Updates)]

(* The provider takes an event only for a change that was committed, and   *)
(* one event for each change and channel, however often reservations       *)
(* expire or are lost with the notification-service: that every status is  *)
(* entered once, which is the database's doing, is what it rests on.       *)
ProviderTakesCommittedOnce ==
    \A ch \in Channels : \A i, j \in 1..Len(taken[ch]) :
        /\ taken[ch][i] \in committed
        /\ target[taken[ch][i]] = target[taken[ch][j]] => i = j

Took(u, ch) == \E i \in 1..Len(taken[ch]) : taken[ch][i] = u

(* A change that was answered as a success has been taken by the provider  *)
(* on both channels, or else the log has an error for the channel: no      *)
(* failure of one channel keeps the other from being tried, and no answer  *)
(* of the notification-service is for somebody else's event.               *)
TakenOrLogged ==
    \A u \in Updates : reply[u] = "ok" => \A ch \in Channels :
        Took(u, ch) \/ heard[<<u, ch>>] = "failed"

(* The provider may be given the changes of an order in the wrong order    *)
(* only if their handlers overlapped, or if the one that was overtaken had *)
(* been given up by its handler while it was still under way.              *)
OvertakenOnlyWhenGivenUp ==
    \A ch \in Channels : \A i, j \in 1..Len(taken[ch]) :
        i < j /\ taken[ch][j] \in earlier[taken[ch][i]] => heard[<<taken[ch][j], ch>>] # "ok"

(* A notification-service that does not answer the first request leaves    *)
(* the second one some time, if the dispatch began soon enough.            *)
SlowEmailSparesTelegram ==
    \A u \in Updates :
        pc[u] = "telegram" /\ AboutToSend(u) /\ emailAt[u] + SendTimeout < Deadline
        => age[u] < Deadline

(* Again and again no handler is running: each of the finitely many calls  *)
(* ends, by the time limits alone; nothing need ever arrive or be answered.*)
HandlersEnd == []<>(\A u \in Updates : ~Running(u))


(* To the notification-service the handlers are clients like any other.    *)
UsesNotificationService == Service!ServiceSpec
=============================================================================
