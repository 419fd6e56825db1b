------------------------- MODULE StatusDispatchProofs -------------------------
(***************************************************************************)
(* The safety properties of StatusDispatch, for every number of orders and *)
(* updates and all time limits.  The invariant says where the handlers are *)
(* in their time (TimeInv), what the committed updates say of the orders   *)
(* (OrderInv), and what became of the notifications (SentInv, ReservedInv, *)
(* TakenInv, HeardInv, PastInv).  These rest on OrderInv: no two committed *)
(* updates ask for the same, so no notification ever meets a reservation   *)
(* but its own.                                                            *)
(***************************************************************************)
EXTENDS StatusDispatch, TLAPS

(* How far a status is along the lifecycle. *)
Rank == [s \in Statuses |->
            IF s = "created" THEN 0 ELSE IF s = "assigned" THEN 1
            ELSE IF s = "in_transit" THEN 2 ELSE 3]

Labels == {"idle", "transaction", "caches", "email", "telegram", "done", "cut"}

(* The parts of TypeOK, without the times. *)
Types ==
    /\ status \in [Orders -> Statuses]
    /\ target \in [Updates -> [order: Orders, status: Statuses]]
    /\ pc \in [Updates -> Labels]
    /\ reply \in [Updates -> {"none", "ok", "refused", "error"}]
    /\ heard \in [Requests -> {"none", "ok", "failed"}]
    /\ call \in [Requests -> {"none", "net", "send", "taken", "duplicate", "failed"}]
    /\ reserved \subseteq Keys
    /\ committed \subseteq Updates
    /\ earlier \in [Updates -> SUBSET Updates]
    /\ taken \in [Channels -> Seq(Updates)]

TimeTypes ==
    /\ age \in [Updates -> 0..Deadline]
    /\ emailAt \in [Updates -> 0..Deadline]
    /\ waited \in [Updates -> 0..SendTimeout]

(* A handler waits only for requests; the email is its first one, and it   *)
(* turns to telegram no later than the client's timeout after that.        *)
OnTime(u) ==
    /\ ~Sending(u) => waited[u] = 0
    /\ pc[u] = "email" => age[u] = emailAt[u] + waited[u]
    /\ pc[u] = "telegram" /\ call[<<u, "telegram">>] = "none" =>
           age[u] \leq emailAt[u] + SendTimeout

TimeInv == TimeTypes /\ \A u \in Updates : OnTime(u)

(* What was committed is behind its order now, and was no repetition. *)
OrderInv ==
    /\ \A u \in committed : Rank[target[u].status] \leq Rank[status[target[u].order]]
    /\ \A u, v \in committed : target[u] = target[v] => u = v

(* Only committed updates come to be notified. *)
SentInv ==
    /\ \A u \in Updates : pc[u] \in {"caches", "email", "telegram"} => u \in committed
    /\ \A r \in Requests : call[r] # "none" =>
           r[1] \in committed /\ pc[r[1]] \notin {"idle", "transaction", "caches"}

(* The reservations are those of requests that were or are being sent, and *)
(* the provider was told of a request when it took it.                     *)
ReservedInv ==
    /\ \A r \in Requests : call[r] # "duplicate"
    /\ \A k \in reserved : \E q \in Requests : Key(q) = k /\ call[q] \in {"send", "taken"}

Distinct(s) == \A i, j \in 1..Len(s) : s[i] = s[j] => i = j

TakenInv ==
    /\ \A u \in Updates, ch \in Channels : Took(u, ch) <=> call[<<u, ch>>] = "taken"
    /\ \A ch \in Channels : Distinct(taken[ch])

(* What the handlers know of their requests. *)
HeardInv ==
    /\ \A r \in Requests : heard[r] = "ok" => call[r] = "taken"
    /\ \A u \in Updates : pc[u] = "telegram" => heard[<<u, "email">>] # "none"
    /\ \A u \in Updates : reply[u] = "ok" => \A ch \in Channels : heard[<<u, ch>>] # "none"

PastInv ==
    /\ \A u \in Updates : \A v \in earlier[u] : Ended(v)
    /\ OvertakenOnlyWhenGivenUp

-----------------------------------------------------------------------------
(* The limits are positive numbers. *)
LEMMA Limits ==
    /\ Deadline \in Nat /\ Deadline \geq 1
    /\ SendTimeout \in Nat /\ SendTimeout \geq 1
  BY DispatchAssumption

(* Every transition the tracking-service allows leads onward. *)
LEMMA TransitionOnward ==
    ASSUME NEW s \in Statuses, NEW t, ValidateStatusTransition(s, t)
    PROVE  t \in Statuses /\ Rank[s] < Rank[t]
  BY DEF ValidateStatusTransition, AllowedTransitions, Statuses, Rank

(* Ranks are numbers. *)
LEMMA RankNat == \A s \in Statuses : Rank[s] \in Nat
  BY DEF Rank, Statuses

(* The request a handler that is sending waits for. *)
LEMMA CurrentIsRequest ==
    ASSUME NEW u \in Updates, Sending(u)
    PROVE  Current(u) \in Requests /\ Current(u)[1] = u /\ Current(u)[2] = pc[u]
  BY DEF Sending, Current, Requests

(* The key of a request. *)
LEMMA KeyIsKey ==
    ASSUME Types, NEW r \in Requests
    PROVE  Key(r) \in Keys /\ r[1] \in Updates /\ r[2] \in Channels
  <1>1. r[1] \in Updates /\ r[2] \in Channels
    BY DEF Requests
  <1>2. target[r[1]].order \in Orders /\ target[r[1]].status \in Statuses
    BY <1>1 DEF Types
  <1> QED
    BY <1>1, <1>2 DEF Key, Keys

-----------------------------------------------------------------------------
(* What the steps of the notification-service do, in the dispatch's terms. *)
LEMMA SendCalls ==
    ASSUME NEW u \in Updates, Send(u)
    PROVE  /\ call[Current(u)] = "none" /\ call' = [call EXCEPT ![Current(u)] = "net"]
           /\ reserved' = reserved
  BY DEF Send, Service!Ask, Service!Reaches

LEMMA ReserveCalls ==
    ASSUME NEW r \in Requests, Reserve(r)
    PROVE  /\ call[r] = "net"
           /\ \E kept \in SUBSET reserved :
                 IF Key(r) \in kept
                 THEN call' = [call EXCEPT ![r] = "duplicate"] /\ reserved' = kept
                 ELSE call' = [call EXCEPT ![r] = "send"] /\ reserved' = kept \cup {Key(r)}
  BY DEF Reserve, Service!Enter, Service!Reaches, keys

LEMMA ProviderTakesCalls ==
    ASSUME NEW r \in Requests, ProviderTakes(r)
    PROVE  /\ call[r] = "send" /\ call' = [call EXCEPT ![r] = "taken"]
           /\ reserved' = reserved
  BY DEF ProviderTakes, Service!Take, Service!Reaches

LEMMA ProviderFailsCalls ==
    ASSUME NEW r \in Requests, ProviderFails(r)
    PROVE  /\ call[r] = "send" /\ call' = [call EXCEPT ![r] = "failed"]
           /\ reserved' = reserved \ {Key(r)}
  BY DEF ProviderFails, Service!Fail, Service!Reaches, keys

LEMMA RestartCalls ==
    ASSUME Restart
    PROVE  /\ reserved' = {}
           /\ \E cut \in SUBSET {r \in Requests : call[r] = "net"} :
                 call' = [r \in Requests |->
                             IF call[r] = "send" \/ r \in cut THEN "failed" ELSE call[r]]
  BY DEF Restart, Service!Restart

-----------------------------------------------------------------------------
(* A handler that makes a step within its transaction or its caches, or    *)
(* ends before it has sent anything.                                       *)
Label(u, label, r) ==
    /\ pc' = [pc EXCEPT ![u] = label]
    /\ reply' = [reply EXCEPT ![u] = r]

(* What a handler makes of its current request. *)
LEMMA ConcludeFacts ==
    ASSUME Types, NEW u \in Updates, Sending(u), NEW what \in {"ok", "failed"}, Conclude(u, what)
    PROVE  /\ heard' = [heard EXCEPT ![Current(u)] = what]
           /\ waited' = [waited EXCEPT ![u] = 0]
           /\ pc[u] = "email" => Label(u, "telegram", reply[u]) /\ UNCHANGED <<age, emailAt>>
           /\ pc[u] = "telegram" =>
                /\ Label(u, "done", "ok")
                /\ age' = [age EXCEPT ![u] = 0]
                /\ emailAt' = [emailAt EXCEPT ![u] = 0]
           /\ pc[u] \in {"email", "telegram"}
  <1>1. pc[u] \in {"email", "telegram"}
    BY DEF Sending, Channels
  <1>2. heard' = [heard EXCEPT ![Current(u)] = what] /\ waited' = [waited EXCEPT ![u] = 0]
    BY DEF Conclude
  <1>3. CASE pc[u] = "email"
    <2>1. pc' = [pc EXCEPT ![u] = "telegram"] /\ UNCHANGED <<reply, age, emailAt>>
      BY <1>3 DEF Conclude, Goto
    <2>2. reply = [reply EXCEPT ![u] = reply[u]]
      BY DEF Types
    <2> QED
      BY <1>1, <1>2, <1>3, <2>1, <2>2, Zenon DEF Label
  <1>4. CASE pc[u] = "telegram"
    <2>1. pc[u] # "email"
      BY <1>4
    <2>2. Answer(u, "ok")
      BY <2>1, Zenon DEF Conclude
    <2>3. /\ pc' = [pc EXCEPT ![u] = "done"]
          /\ reply' = [reply EXCEPT ![u] = "ok"]
          /\ age' = [age EXCEPT ![u] = 0]
          /\ emailAt' = [emailAt EXCEPT ![u] = 0]
      BY <2>2, Zenon DEF Answer, Goto
    <2> QED
      BY <1>1, <1>2, <1>4, <2>1, <2>3, Zenon DEF Label
  <1> QED
    BY <1>1, <1>3, <1>4

(* The steps of the handler of u, by what they change. *)
Conclusion(u) ==
    /\ Sending(u)
    /\ \E what \in {"ok", "failed"} :
          /\ Conclude(u, what)
          /\ what = "ok" => call[Current(u)] \in {"taken", "duplicate"}
    /\ UNCHANGED <<status, target, call, service, history>>

(* An answer, a timeout and a broken connection conclude a request. *)
LEMMA Conclusions ==
    ASSUME NEW u \in Updates, Hear(u) \/ TimeUp(u) \/ Broken(u)
    PROVE  Conclusion(u)
  <1>1. CASE Hear(u)
    BY <1>1 DEF Hear, Conclusion
  <1>2. CASE TimeUp(u)
    BY <1>2 DEF TimeUp, Conclusion
  <1>3. CASE Broken(u)
    BY <1>3 DEF Broken, Conclusion
  <1> QED
    BY <1>1, <1>2, <1>3

-----------------------------------------------------------------------------
(* Time touches nothing but the ages. *)
LEMMA TickTypes == ASSUME Types, Tick PROVE Types'
  BY DEF Types, Tick, service, history

(* The steps before the first request keep the types. *)
LEMMA BeginTypes == ASSUME Types, NEW u \in Updates, Begin(u) PROVE Types'
  BY DEF Types, Begin, Goto, service, Labels

(* A status change that was allowed. *)
LEMMA ApplyTypes ==
    ASSUME Types, NEW u \in Updates, Apply(u)
    PROVE  status' \in [Orders -> Statuses] /\ committed' \subseteq Updates
  <1>1. target[u].order \in Orders /\ target[u].status \in Statuses
    BY DEF Types
  <1> QED
    BY <1>1 DEF Types, Apply

(* A handler's label and answer. *)
LEMMA LabelTypes ==
    ASSUME Types, NEW u \in Updates, NEW l \in Labels,
           NEW r \in {"none", "ok", "refused", "error"}, Label(u, l, r)
    PROVE  pc' \in [Updates -> Labels] /\ reply' \in [Updates -> {"none", "ok", "refused", "error"}]
  BY DEF Types, Label

(* The commit keeps the types. *)
LEMMA CommitTypes == ASSUME Types, NEW u \in Updates, Commit(u) PROVE Types'
  <1>1. Apply(u) /\ pc' = [pc EXCEPT ![u] = "caches"]
    BY DEF Commit, Goto
  <1>2. UNCHANGED <<target, reply, heard, call, reserved, taken, earlier>>
    BY DEF Commit, service
  <1>3. status' \in [Orders -> Statuses] /\ committed' \subseteq Updates
    BY <1>1, ApplyTypes
  <1>4. pc' \in [Updates -> Labels]
    BY <1>1 DEF Types, Labels
  <1> QED
    BY <1>2, <1>3, <1>4 DEF Types

(* So does its failure, whether or not it took effect. *)
LEMMA CommitFailsTypes == ASSUME Types, NEW u \in Updates, CommitFails(u) PROVE Types'
  <1>1. Label(u, "done", "error")
    BY DEF CommitFails, Answer, Goto, Label
  <1>2. UNCHANGED <<target, heard, call, reserved, taken, earlier>>
    BY DEF CommitFails, service
  <1>3. status' \in [Orders -> Statuses] /\ committed' \subseteq Updates
    <2>1. CASE UNCHANGED <<status, committed>>
      BY <2>1 DEF Types
    <2>2. CASE Apply(u)
      BY <2>2, ApplyTypes
    <2> QED
      BY <2>1, <2>2 DEF CommitFails
  <1>4. /\ pc' \in [Updates -> Labels]
        /\ reply' \in [Updates -> {"none", "ok", "refused", "error"}]
    <2>1. "done" \in Labels
      BY DEF Labels
    <2> QED
      BY <1>1, <2>1, LabelTypes
  <1> QED
    BY <1>2, <1>3, <1>4 DEF Types

(* A refusal keeps the types. *)
LEMMA RefuseTypes == ASSUME Types, NEW u \in Updates, Refuse(u) PROVE Types'
  BY DEF Types, Refuse, Answer, Goto, service, history, Labels

(* The cache deletions keep the types. *)
LEMMA InvalidateTypes == ASSUME Types, NEW u \in Updates, Invalidate(u) PROVE Types'
  BY DEF Types, Invalidate, Goto, service, history, Labels

(* A request is sent. *)
LEMMA SendTypes == ASSUME Types, NEW u \in Updates, Send(u) PROVE Types'
  <1>1. Current(u) \in Requests /\ call' = [call EXCEPT ![Current(u)] = "net"]
    BY CurrentIsRequest, SendCalls DEF Send, AboutToSend
  <1>2. UNCHANGED <<status, target, pc, reply, heard, reserved, taken, committed, earlier>>
    BY SendCalls DEF Send, handler, history
  <1> QED
    BY <1>1, <1>2 DEF Types

(* The conclusion of a request keeps the types. *)
LEMMA ConclusionTypes == ASSUME Types, NEW u \in Updates, Conclusion(u) PROVE Types'
  <1>1. UNCHANGED <<status, target, call, reserved, taken, committed, earlier>>
    BY DEF Conclusion, service, history
  <1>2. PICK what \in {"ok", "failed"} : Conclude(u, what)
    BY DEF Conclusion
  <1>3. /\ heard' = [heard EXCEPT ![Current(u)] = what]
        /\ pc[u] = "email" => Label(u, "telegram", reply[u])
        /\ pc[u] = "telegram" => Label(u, "done", "ok")
        /\ pc[u] \in {"email", "telegram"}
    BY <1>2, ConcludeFacts DEF Conclusion
  <1>4. heard' \in [Requests -> {"none", "ok", "failed"}]
    <2>1. Current(u) \in Requests
      BY CurrentIsRequest DEF Conclusion
    <2> QED
      BY <1>3, <2>1 DEF Types
  <1>5. /\ pc' \in [Updates -> Labels]
        /\ reply' \in [Updates -> {"none", "ok", "refused", "error"}]
    <2>1. /\ "telegram" \in Labels /\ "done" \in Labels
          /\ reply[u] \in {"none", "ok", "refused", "error"}
      BY DEF Labels, Types
    <2> QED
      BY <1>3, <2>1, LabelTypes
  <1> QED
    BY <1>1, <1>4, <1>5 DEF Types

(* A crash cuts the handlers. *)
LEMMA CrashTypes == ASSUME Types, Crash PROVE Types'
  BY DEF Types, Crash, service, history, Labels

(* The steps of the notification-service keep the types. *)
LEMMA ReserveTypes == ASSUME Types, NEW r \in Requests, Reserve(r) PROVE Types'
  <1>1. /\ \E place \in {"duplicate", "send"} : call' = [call EXCEPT ![r] = place]
        /\ reserved' \subseteq reserved \cup {Key(r)}
    BY ReserveCalls
  <1>2. reserved' \subseteq Keys
    BY <1>1, KeyIsKey DEF Types
  <1>3. call' \in [Requests -> {"none", "net", "send", "taken", "duplicate", "failed"}]
    BY <1>1 DEF Types
  <1>4. UNCHANGED <<status, target, pc, reply, heard, committed, earlier, taken>>
    BY DEF Reserve, handler, history
  <1> QED
    BY <1>2, <1>3, <1>4 DEF Types

(* The provider takes a request. *)
LEMMA ProviderTakesTypes == ASSUME Types, NEW r \in Requests, ProviderTakes(r) PROVE Types'
  <1>1. taken' = [taken EXCEPT ![r[2]] = Append(taken[r[2]], r[1])]
    BY DEF ProviderTakes
  <1>2. UNCHANGED <<status, target, pc, reply, heard, reserved, committed, earlier>>
    BY ProviderTakesCalls DEF ProviderTakes, handler, history
  <1>3. taken' \in [Channels -> Seq(Updates)]
    BY <1>1, KeyIsKey DEF Types
  <1>4. call' \in [Requests -> {"none", "net", "send", "taken", "duplicate", "failed"}]
    BY ProviderTakesCalls DEF Types
  <1> QED
    BY <1>2, <1>3, <1>4 DEF Types

(* The provider fails a request. *)
LEMMA ProviderFailsTypes == ASSUME Types, NEW r \in Requests, ProviderFails(r) PROVE Types'
  BY ProviderFailsCalls DEF Types, ProviderFails, handler, history

(* The notification-service restarts. *)
LEMMA RestartTypes == ASSUME Types, Restart PROVE Types'
  <1>1. UNCHANGED <<status, target, pc, reply, heard, committed, earlier, taken>>
    BY DEF Restart, handler, history
  <1>2. call' \in [Requests -> {"none", "net", "send", "taken", "duplicate", "failed"}]
    BY RestartCalls DEF Types
  <1> QED
    BY <1>1, <1>2, RestartCalls DEF Types

(* An assignment by the order-service. *)
LEMMA AssignTypes == ASSUME Types, NEW o \in Orders, AssignOrder(o) PROVE Types'
  BY DEF Types, AssignOrder, handler, service, history, Statuses

-----------------------------------------------------------------------------
(* Orders and committed updates that stand leave OrderInv standing. *)
LEMMA OrderFrame ==
    ASSUME OrderInv, UNCHANGED <<status, target, committed>>
    PROVE  OrderInv'
  BY DEF OrderInv

(* A commit moves its order onward. *)
LEMMA ApplyOrder ==
    ASSUME Types, OrderInv, NEW u \in Updates, Allowed(u), Apply(u), target' = target
    PROVE  OrderInv'
  <1> DEFINE o == target[u].order
             t == target[u].status
  <1>1. o \in Orders /\ t \in Statuses /\ status[o] \in Statuses
    BY DEF Types
  <1>2. Rank[status[o]] < Rank[t]
    BY <1>1, TransitionOnward DEF Allowed
  <1>3. /\ status' = [status EXCEPT ![o] = t]
        /\ committed' = committed \cup {u}
    BY DEF Apply
  <1>4. status'[o] = t /\ \A q \in Orders : q # o => status'[q] = status[q]
    BY <1>1, <1>3 DEF Types
  <1>5. Rank[status[o]] \in Nat /\ Rank[t] \in Nat
    BY <1>1, RankNat
  <1>6. ASSUME NEW v \in committed
        PROVE  /\ target[v].order \in Orders
               /\ Rank[target[v].status] \in Nat
               /\ Rank[target[v].status] \leq Rank[status[target[v].order]]
    <2>1. target[v].order \in Orders /\ target[v].status \in Statuses
      BY DEF Types
    <2> QED
      BY <2>1, RankNat DEF OrderInv
  <1>7. ASSUME NEW v \in committed'
        PROVE  Rank[target[v].status] \leq Rank[status'[target[v].order]]
    <2>1. CASE v = u
      BY <1>4, <1>5, <2>1
    <2>2. CASE v \in committed /\ target[v].order # o
      BY <1>4, <1>6, <2>2
    <2>3. CASE v \in committed /\ target[v].order = o
      BY <1>2, <1>4, <1>5, <1>6, <2>3
    <2> QED
      BY <1>3, <2>1, <2>2, <2>3
  <1>8. ASSUME NEW v \in committed, target[v] = target[u] PROVE FALSE
    <2>1. Rank[t] \leq Rank[status[o]]
      BY <1>6, <1>8
    <2> QED
      BY <1>2, <1>5, <2>1
  <1>9. ASSUME NEW v \in committed', NEW w \in committed', target[v] = target[w] PROVE v = w
    BY <1>3, <1>8, <1>9 DEF OrderInv
  <1> QED
    BY <1>7, <1>9 DEF OrderInv

(* An assignment by the order-service does too. *)
LEMMA AssignKeepsOrder ==
    ASSUME Types, OrderInv, NEW o \in Orders, AssignOrder(o)
    PROVE  OrderInv'
  <1>1. /\ status[o] = "created" /\ status' = [status EXCEPT ![o] = "assigned"]
        /\ target' = target /\ committed' = committed
    BY DEF AssignOrder, handler, history
  <1>2. status'[o] = "assigned" /\ \A q \in Orders : q # o => status'[q] = status[q]
    BY <1>1 DEF Types
  <1>3. Rank["created"] = 0 /\ Rank["assigned"] = 1
    BY DEF Rank, Statuses
  <1>4. ASSUME NEW v \in committed
        PROVE  Rank[target[v].status] \leq Rank[status'[target[v].order]]
    <2>1. target[v].order \in Orders /\ target[v].status \in Statuses
      BY DEF Types
    <2>2. Rank[target[v].status] \in Nat
      BY <2>1, RankNat
    <2>3. Rank[target[v].status] \leq Rank[status[target[v].order]]
      BY DEF OrderInv
    <2>4. CASE target[v].order # o
      BY <1>2, <2>1, <2>3, <2>4
    <2>5. CASE target[v].order = o
      BY <1>1, <1>2, <1>3, <2>2, <2>3, <2>5
    <2> QED
      BY <2>4, <2>5
  <1> QED
    BY <1>1, <1>4 DEF OrderInv

-----------------------------------------------------------------------------
(* A label of u changes no other handler. *)
LEMMA LabelFacts ==
    ASSUME Types, NEW u \in Updates, NEW l, NEW r, Label(u, l, r)
    PROVE  /\ pc'[u] = l /\ reply'[u] = r
           /\ \A v \in Updates : v # u => pc'[v] = pc[v] /\ reply'[v] = reply[v]
  BY DEF Types, Label

(* The same without an answer. *)
LEMMA GotoFacts ==
    ASSUME Types, NEW u \in Updates, NEW l, pc' = [pc EXCEPT ![u] = l]
    PROVE  pc'[u] = l /\ \A v \in Updates : v # u => pc'[v] = pc[v]
  BY DEF Types

(* SentInv stands as long as no request is sent, updates stay committed    *)
(* and handlers get no nearer to the notifications than their commit.      *)
LEMMA SentFrame ==
    ASSUME SentInv, committed \subseteq committed',
           \A r \in Requests : call'[r] # "none" => call[r] # "none",
           \A u \in Updates :
               \/ pc'[u] = pc[u]
               \/ pc'[u] \in {"done", "cut"}
               \/ pc[u] \in {"caches", "email"} /\ pc'[u] \in {"email", "telegram"}
               \/ pc'[u] = "caches" /\ u \in committed' /\ pc[u] = "transaction"
               \/ pc[u] = "idle" /\ pc'[u] = "transaction"
    PROVE  SentInv'
  <1>1. ASSUME NEW u \in Updates, pc'[u] \in {"caches", "email", "telegram"}
        PROVE  u \in committed'
    <2>1. \/ pc[u] \in {"caches", "email", "telegram"}
          \/ u \in committed'
      BY <1>1
    <2> QED
      BY <2>1 DEF SentInv
  <1>2. ASSUME NEW r \in Requests, call'[r] # "none"
        PROVE  r[1] \in committed' /\ pc'[r[1]] \notin {"idle", "transaction", "caches"}
    <2>1. r[1] \in committed /\ pc[r[1]] \notin {"idle", "transaction", "caches"}
      BY <1>2 DEF SentInv
    <2>2. r[1] \in Updates
      BY DEF Requests
    <2> QED
      BY <2>1, <2>2
  <1> QED
    BY <1>1, <1>2 DEF SentInv

(* A request is sent for a committed update. *)
LEMMA SendSent ==
    ASSUME Types, SentInv, NEW u \in Updates, Send(u)
    PROVE  SentInv'
  <1>1. Sending(u) /\ call' = [call EXCEPT ![Current(u)] = "net"]
    BY SendCalls DEF Send, AboutToSend
  <1>2. committed' = committed /\ pc' = pc
    BY DEF Send, handler, history
  <1>3. Current(u) \in Requests /\ Current(u)[1] = u
    BY <1>1, CurrentIsRequest
  <1>4. pc[u] \in {"email", "telegram"} /\ u \in committed
    BY <1>1 DEF Sending, Channels, SentInv
  <1>5. ASSUME NEW r \in Requests, call'[r] # "none"
        PROVE  r[1] \in committed /\ pc[r[1]] \notin {"idle", "transaction", "caches"}
    <2>1. CASE r = Current(u)
      BY <1>3, <1>4, <2>1
    <2>2. CASE r # Current(u)
      BY <1>1, <1>3, <1>5, <2>2 DEF Types, SentInv
    <2> QED
      BY <2>1, <2>2
  <1> QED
    BY <1>2, <1>5 DEF SentInv

-----------------------------------------------------------------------------
(* The key of a request tells it from every other one that was sent. *)
LEMMA KeyInjective ==
    ASSUME Types, OrderInv, NEW q \in Requests, NEW r \in Requests,
           q[1] \in committed, r[1] \in committed, Key(q) = Key(r)
    PROVE  q = r
  <1>1. /\ target[q[1]].order = target[r[1]].order
        /\ target[q[1]].status = target[r[1]].status
        /\ q[2] = r[2]
    BY DEF Key
  <1>2. /\ target[q[1]] \in [order: Orders, status: Statuses]
        /\ target[r[1]] \in [order: Orders, status: Statuses]
    BY DEF Types
  <1>3. target[q[1]] = target[r[1]]
    BY <1>1, <1>2
  <1>4. q[1] = r[1]
    BY <1>3 DEF OrderInv
  <1> QED
    BY <1>1, <1>4 DEF Requests

(* Reservations that stay are still those of their requests. *)
LEMMA ReservedFrame ==
    ASSUME ReservedInv, target' = target, reserved' \subseteq reserved,
           \A r \in Requests : call'[r] # "duplicate",
           \A q \in Requests : call[q] \in {"send", "taken"} /\ Key(q) \in reserved'
                => call'[q] \in {"send", "taken"}
    PROVE  ReservedInv'
  <1>1. \A q \in Requests : Key(q)' = Key(q)
    BY DEF Key
  <1>2. ASSUME NEW k \in reserved'
        PROVE  \E q \in Requests : Key(q)' = k /\ call'[q] \in {"send", "taken"}
    <2>1. PICK q \in Requests : Key(q) = k /\ call[q] \in {"send", "taken"}
      BY DEF ReservedInv
    <2> QED
      BY <1>1, <2>1
  <1> QED
    BY <1>2 DEF ReservedInv

(* No request is taken for a duplicate. *)
LEMMA ReserveFacts ==
    ASSUME Types, OrderInv, SentInv, ReservedInv, NEW r \in Requests, Reserve(r)
    PROVE  /\ call[r] = "net" /\ call' = [call EXCEPT ![r] = "send"]
           /\ reserved' \subseteq reserved \cup {Key(r)}
  <1>1. call[r] = "net"
    BY ReserveCalls
  <1>2. ASSUME Key(r) \in reserved PROVE FALSE
    <2>1. PICK q \in Requests : Key(q) = Key(r) /\ call[q] \in {"send", "taken"}
      BY <1>2 DEF ReservedInv
    <2>2. q[1] \in committed /\ r[1] \in committed
      BY <1>1, <2>1 DEF SentInv
    <2>3. q = r
      BY <2>1, <2>2, KeyInjective
    <2> QED
      BY <1>1, <2>1, <2>3
  <1> QED
    BY <1>1, <1>2, ReserveCalls

(* A reservation is that of the request which makes it. *)
LEMMA ReserveReserved ==
    ASSUME Types, OrderInv, SentInv, ReservedInv, NEW r \in Requests, Reserve(r)
    PROVE  ReservedInv'
  <1>1. /\ call' = [call EXCEPT ![r] = "send"]
        /\ reserved' \subseteq reserved \cup {Key(r)}
    BY ReserveFacts
  <1>2. target' = target
    BY DEF Reserve, handler
  <1>3. \A q \in Requests : Key(q)' = Key(q)
    BY <1>2 DEF Key
  <1>4. call'[r] = "send" /\ \A q \in Requests : q # r => call'[q] = call[q]
    BY <1>1 DEF Types
  <1>5. ASSUME NEW k \in reserved'
        PROVE  \E q \in Requests : Key(q)' = k /\ call'[q] \in {"send", "taken"}
    <2>1. CASE k = Key(r)
      BY <1>3, <1>4, <2>1
    <2>2. CASE k \in reserved
      <3>1. PICK q \in Requests : Key(q) = k /\ call[q] \in {"send", "taken"}
        BY <2>2 DEF ReservedInv
      <3> QED
        BY <1>3, <1>4, <3>1
    <2> QED
      BY <1>1, <2>1, <2>2
  <1>6. \A q \in Requests : call'[q] # "duplicate"
    BY <1>4 DEF ReservedInv
  <1> QED
    BY <1>5, <1>6 DEF ReservedInv

(* A step of the provider or of a handler moves one request. *)
LEMMA CallFacts ==
    ASSUME Types, NEW r \in Requests, NEW place, call' = [call EXCEPT ![r] = place]
    PROVE  call'[r] = place /\ \A q \in Requests : q # r => call'[q] = call[q]
  BY DEF Types

(* A request that was taken keeps its reservation. *)
LEMMA ProviderTakesReserved ==
    ASSUME Types, ReservedInv, NEW r \in Requests, ProviderTakes(r)
    PROVE  ReservedInv'
  <1>1. call' = [call EXCEPT ![r] = "taken"] /\ target' = target /\ reserved' = reserved
    BY ProviderTakesCalls DEF ProviderTakes, handler
  <1>2. call'[r] = "taken" /\ \A q \in Requests : q # r => call'[q] = call[q]
    BY <1>1, CallFacts
  <1>3. \A q \in Requests : call'[q] # "duplicate"
    BY <1>2 DEF ReservedInv
  <1>4. \A q \in Requests : call[q] \in {"send", "taken"} => call'[q] \in {"send", "taken"}
    BY <1>2
  <1> QED
    BY <1>1, <1>3, <1>4, ReservedFrame

(* A request that failed gives its reservation back. *)
LEMMA ProviderFailsReserved ==
    ASSUME Types, ReservedInv, NEW r \in Requests, ProviderFails(r)
    PROVE  ReservedInv'
  <1>1. call' = [call EXCEPT ![r] = "failed"] /\ target' = target /\ reserved' = reserved \ {Key(r)}
    BY ProviderFailsCalls DEF ProviderFails, handler
  <1>2. call'[r] = "failed" /\ \A q \in Requests : q # r => call'[q] = call[q]
    BY <1>1, CallFacts
  <1>3. \A q \in Requests : call'[q] # "duplicate"
    BY <1>2 DEF ReservedInv
  <1>4. \A q \in Requests : Key(q) \in reserved' => q # r
    BY <1>1
  <1> QED
    BY <1>1, <1>2, <1>3, <1>4, ReservedFrame

(* Sending reserves nothing. *)
LEMMA SendReserved ==
    ASSUME Types, ReservedInv, NEW u \in Updates, Send(u)
    PROVE  ReservedInv'
  <1>1. /\ call[Current(u)] = "none" /\ Current(u) \in Requests
        /\ call' = [call EXCEPT ![Current(u)] = "net"]
    BY CurrentIsRequest, SendCalls DEF Send, AboutToSend
  <1>2. target' = target /\ reserved' = reserved
    BY SendCalls DEF Send, handler
  <1>3. call'[Current(u)] = "net" /\ \A q \in Requests : q # Current(u) => call'[q] = call[q]
    BY <1>1, CallFacts
  <1>4. \A q \in Requests : call'[q] # "duplicate"
    BY <1>3 DEF ReservedInv
  <1>5. \A q \in Requests : call[q] \in {"send", "taken"} => call'[q] = call[q]
    BY <1>1, <1>3
  <1> QED
    BY <1>2, <1>4, <1>5, ReservedFrame

(* Without reservations there is nothing to say of them. *)
LEMMA RestartReserved ==
    ASSUME Types, ReservedInv, Restart
    PROVE  ReservedInv'
  <1>1. reserved' = {} /\ \A r \in Requests : call'[r] = "failed" \/ call'[r] = call[r]
    BY RestartCalls
  <1> QED
    BY <1>1 DEF ReservedInv

-----------------------------------------------------------------------------
(* The provider is told of what it takes and of nothing else. *)
LEMMA TakenFrame ==
    ASSUME TakenInv, taken' = taken,
           \A r \in Requests : call'[r] = "taken" <=> call[r] = "taken"
    PROVE  TakenInv'
  <1>1. ASSUME NEW u \in Updates, NEW ch \in Channels
        PROVE  Took(u, ch)' <=> call'[<<u, ch>>] = "taken"
    <2>1. Took(u, ch)' <=> Took(u, ch)
      BY DEF Took
    <2>2. <<u, ch>> \in Requests
      BY DEF Requests
    <2> QED
      BY <2>1, <2>2 DEF TakenInv
  <1> QED
    BY <1>1 DEF TakenInv, Distinct

(* Appending to a sequence something that is not in it yet. *)
LEMMA AppendDistinct ==
    ASSUME NEW S, NEW s \in Seq(S), NEW x \in S, Distinct(s), \A i \in 1..Len(s) : s[i] # x
    PROVE  /\ Distinct(Append(s, x))
           /\ \A y : (\E i \in 1..Len(Append(s, x)) : Append(s, x)[i] = y)
                    <=> y = x \/ \E i \in 1..Len(s) : s[i] = y
  <1>1. Len(s) \in Nat /\ Len(Append(s, x)) = Len(s) + 1
    OBVIOUS
  <1>2. Append(s, x)[Len(s) + 1] = x /\ \A i \in 1..Len(s) : Append(s, x)[i] = s[i]
    OBVIOUS
  <1>3. ASSUME NEW i \in 1..Len(Append(s, x)) PROVE i = Len(s) + 1 \/ i \in 1..Len(s)
    BY <1>1
  <1>4. Distinct(Append(s, x))
    BY <1>1, <1>2, <1>3 DEF Distinct
  <1>5. ASSUME NEW y, NEW i \in 1..Len(Append(s, x)), Append(s, x)[i] = y
        PROVE  y = x \/ \E j \in 1..Len(s) : s[j] = y
    BY <1>2, <1>3, <1>5
  <1>6. ASSUME NEW y, y = x \/ \E i \in 1..Len(s) : s[i] = y
        PROVE  \E i \in 1..Len(Append(s, x)) : Append(s, x)[i] = y
    <2>1. CASE y = x
      <3>1. Len(s) + 1 \in 1..Len(Append(s, x))
        BY <1>1
      <3> QED
        BY <1>2, <2>1, <3>1
    <2>2. ASSUME NEW j \in 1..Len(s), s[j] = y
          PROVE  \E i \in 1..Len(Append(s, x)) : Append(s, x)[i] = y
      <3>1. j \in 1..Len(Append(s, x))
        BY <1>1
      <3> QED
        BY <1>2, <2>2, <3>1
    <2> QED
      BY <1>6, <2>1, <2>2
  <1> QED
    BY <1>4, <1>5, <1>6

(* What the provider is told of on the channel of a request it takes. *)
LEMMA ProviderTakesFacts ==
    ASSUME Types, TakenInv, NEW r \in Requests, ProviderTakes(r)
    PROVE  /\ call[r] = "send" /\ call' = [call EXCEPT ![r] = "taken"]
           /\ taken'[r[2]] = Append(taken[r[2]], r[1])
           /\ \A ch \in Channels : ch # r[2] => taken'[ch] = taken[ch]
           /\ r[1] \in Updates /\ r[2] \in Channels /\ r = <<r[1], r[2]>>
           /\ taken[r[2]] \in Seq(Updates) /\ Distinct(taken[r[2]])
           /\ \A i \in 1..Len(taken[r[2]]) : taken[r[2]][i] # r[1]
  <1>1. r[1] \in Updates /\ r[2] \in Channels /\ r = <<r[1], r[2]>>
    BY DEF Requests
  <1>2. /\ call[r] = "send" /\ call' = [call EXCEPT ![r] = "taken"]
        /\ taken' = [taken EXCEPT ![r[2]] = Append(taken[r[2]], r[1])]
    BY ProviderTakesCalls DEF ProviderTakes
  <1>3. ~Took(r[1], r[2])
    BY <1>1, <1>2 DEF TakenInv
  <1>4. \A i \in 1..Len(taken[r[2]]) : taken[r[2]][i] # r[1]
    BY <1>3 DEF Took
  <1>5. /\ taken'[r[2]] = Append(taken[r[2]], r[1])
        /\ \A ch \in Channels : ch # r[2] => taken'[ch] = taken[ch]
        /\ taken[r[2]] \in Seq(Updates)
    BY <1>1, <1>2 DEF Types
  <1> QED
    BY <1>1, <1>2, <1>4, <1>5 DEF TakenInv

(* What the provider takes, it takes once. *)
LEMMA ProviderTakesTaken ==
    ASSUME Types, TakenInv, NEW r \in Requests, ProviderTakes(r)
    PROVE  TakenInv'
  <1>1. /\ call' = [call EXCEPT ![r] = "taken"]
        /\ taken'[r[2]] = Append(taken[r[2]], r[1])
        /\ \A ch \in Channels : ch # r[2] => taken'[ch] = taken[ch]
        /\ r[1] \in Updates /\ r[2] \in Channels /\ r = <<r[1], r[2]>>
    BY ProviderTakesFacts
  <1>2. call'[r] = "taken" /\ \A q \in Requests : q # r => call'[q] = call[q]
    BY <1>1, CallFacts
  <1>3. /\ Distinct(Append(taken[r[2]], r[1]))
        /\ \A y : (\E i \in 1..Len(Append(taken[r[2]], r[1])) : Append(taken[r[2]], r[1])[i] = y)
                 <=> y = r[1] \/ \E i \in 1..Len(taken[r[2]]) : taken[r[2]][i] = y
    BY ProviderTakesFacts, AppendDistinct
  <1>4. ASSUME NEW u \in Updates, NEW ch \in Channels
        PROVE  Took(u, ch)' <=> call'[<<u, ch>>] = "taken"
    <2>1. <<u, ch>> \in Requests /\ (Took(u, ch) <=> call[<<u, ch>>] = "taken")
      BY DEF Requests, TakenInv
    <2>2. CASE ch # r[2]
      <3>1. <<u, ch>> # r
        BY <1>1, <2>2
      <3>2. Took(u, ch)' <=> Took(u, ch)
        BY <1>1, <2>2 DEF Took
      <3> QED
        BY <1>2, <2>1, <3>1, <3>2
    <2>3. CASE ch = r[2]
      <3>1. Took(u, ch)' <=> u = r[1] \/ Took(u, ch)
        BY <1>1, <1>3, <2>3 DEF Took
      <3>2. <<u, ch>> = r <=> u = r[1]
        BY <1>1, <2>3
      <3> QED
        BY <1>2, <2>1, <3>1, <3>2
    <2> QED
      BY <2>2, <2>3
  <1>5. ASSUME NEW ch \in Channels PROVE Distinct(taken'[ch])
    <2>1. CASE ch # r[2]
      BY <1>1, <2>1 DEF TakenInv
    <2>2. CASE ch = r[2]
      BY <1>1, <1>3, <2>2
    <2> QED
      BY <2>1, <2>2
  <1>6. \A ch \in Channels : Distinct(taken[ch])'
    BY <1>5 DEF Distinct
  <1> QED
    BY <1>4, <1>6 DEF TakenInv

-----------------------------------------------------------------------------
(* Nothing new is heard, and what was taken stays taken. *)
LEMMA HeardFrame ==
    ASSUME HeardInv, heard' = heard,
           \A r \in Requests : call[r] = "taken" => call'[r] = "taken",
           \A u \in Updates : pc'[u] = "telegram" => pc[u] = "telegram",
           \A u \in Updates : reply'[u] = "ok" => reply[u] = "ok"
    PROVE  HeardInv'
  BY DEF HeardInv

(* A handler hears a success of what the provider took only, and goes on   *)
(* when it has heard something.                                            *)
LEMMA ConclusionHeard ==
    ASSUME Types, ReservedInv, HeardInv, NEW u \in Updates, Conclusion(u)
    PROVE  HeardInv'
  <1> DEFINE c == Current(u)
  <1>1. PICK what \in {"ok", "failed"} :
            Conclude(u, what) /\ (what = "ok" => call[c] \in {"taken", "duplicate"})
    BY DEF Conclusion
  <1>2. c \in Requests /\ c = <<u, pc[u]>> /\ call' = call
    BY CurrentIsRequest DEF Conclusion, Current
  <1>3. /\ heard' = [heard EXCEPT ![c] = what]
        /\ pc[u] = "email" => Label(u, "telegram", reply[u])
        /\ pc[u] = "telegram" => Label(u, "done", "ok")
        /\ pc[u] \in {"email", "telegram"}
    BY <1>1, ConcludeFacts DEF Conclusion
  <1>4. heard'[c] = what /\ \A r \in Requests : r # c => heard'[r] = heard[r]
    BY <1>2, <1>3 DEF Types
  <1>5. ASSUME NEW v \in Updates, v # u PROVE pc'[v] = pc[v] /\ reply'[v] = reply[v]
    BY <1>3, <1>5, LabelFacts
  <1>6. ASSUME NEW r \in Requests, heard'[r] = "ok" PROVE call'[r] = "taken"
    <2>1. CASE r = c
      BY <1>1, <1>2, <1>4, <1>6, <2>1 DEF ReservedInv
    <2>2. CASE r # c
      BY <1>2, <1>4, <1>6, <2>2 DEF HeardInv
    <2> QED
      BY <2>1, <2>2
  <1>7. \A r \in Requests : heard[r] # "none" => heard'[r] # "none"
    BY <1>4
  <1>8. heard'[c] # "none"
    BY <1>4
  <1>9. ASSUME NEW v \in Updates PROVE <<v, "email">> \in Requests /\ <<v, "telegram">> \in Requests
    BY DEF Requests, Channels
  <1>10. ASSUME NEW v \in Updates, pc'[v] = "telegram" PROVE heard'[<<v, "email">>] # "none"
    <2>1. CASE v # u
      BY <1>5, <1>7, <1>9, <1>10, <2>1 DEF HeardInv
    <2>2. CASE v = u /\ pc[u] = "email"
      BY <1>2, <1>8, <2>2
    <2>3. CASE v = u /\ pc[u] = "telegram"
      BY <1>3, <1>10, <2>3, LabelFacts
    <2> QED
      BY <1>3, <2>1, <2>2, <2>3
  <1>11. ASSUME NEW v \in Updates, reply'[v] = "ok", NEW ch \in Channels
         PROVE  heard'[<<v, ch>>] # "none"
    <2>1. <<v, ch>> \in Requests
      BY DEF Requests
    <2>2. CASE reply[v] = "ok"
      BY <1>7, <2>1, <2>2 DEF HeardInv
    <2>3. CASE reply[v] # "ok"
      <3>1. v = u /\ pc[u] = "telegram"
        <4>1. v = u
          BY <1>5, <1>11, <2>3
        <4>2. pc[u] # "email"
          BY <1>3, <1>11, <2>3, <4>1, LabelFacts
        <4> QED
          BY <1>3, <4>1, <4>2
      <3>2. CASE ch = "telegram"
        BY <1>2, <1>8, <3>1, <3>2
      <3>3. CASE ch = "email"
        BY <1>7, <1>9, <3>1, <3>3 DEF HeardInv
      <3> QED
        BY <3>2, <3>3 DEF Channels
    <2> QED
      BY <2>2, <2>3
  <1> QED
    BY <1>6, <1>10, <1>11 DEF HeardInv

-----------------------------------------------------------------------------
(* Nothing is taken or heard, and no call begins. *)
LEMMA PastFrame ==
    ASSUME Types, PastInv, UNCHANGED <<heard, taken, earlier>>,
           \A u \in Updates : Ended(u) => Ended(u)'
    PROVE  PastInv'
  <1>1. OvertakenOnlyWhenGivenUp'
    BY DEF PastInv, OvertakenOnlyWhenGivenUp
  <1>2. \A u \in Updates : earlier[u] \subseteq Updates
    BY DEF Types
  <1> QED
    BY <1>1, <1>2 DEF PastInv

(* A call that begins has sent nothing yet. *)
LEMMA BeginPast ==
    ASSUME Types, SentInv, TakenInv, PastInv, NEW u \in Updates, Begin(u)
    PROVE  PastInv'
  <1>1. /\ pc[u] = "idle" /\ pc' = [pc EXCEPT ![u] = "transaction"]
        /\ earlier' = [earlier EXCEPT ![u] = {v \in Updates : Ended(v)}]
        /\ heard' = heard /\ taken' = taken
    BY DEF Begin, Goto, service
  <1>2. \A v \in Updates : Ended(v) => Ended(v)'
    BY <1>1 DEF Types, Ended
  <1>3. earlier'[u] = {v \in Updates : Ended(v)} /\ \A v \in Updates : v # u => earlier'[v] = earlier[v]
    BY <1>1 DEF Types
  <1>4. ASSUME NEW v \in Updates, NEW w \in earlier'[v] PROVE Ended(w)'
    <2>1. w \in Updates /\ Ended(w)
      BY <1>3 DEF PastInv, Types
    <2> QED
      BY <1>2, <2>1
  <1>5. ASSUME NEW ch \in Channels, NEW i \in 1..Len(taken[ch])
        PROVE  taken[ch][i] # u /\ taken[ch][i] \in Updates
    <2>1. taken[ch][i] \in Updates
      BY DEF Types
    <2>2. <<u, ch>> \in Requests /\ <<u, ch>>[1] = u
      BY DEF Requests
    <2>3. call[<<u, ch>>] = "none"
      BY <1>1, <2>2 DEF SentInv
    <2>4. ~Took(u, ch)
      BY <2>3 DEF TakenInv
    <2> QED
      BY <2>1, <2>4 DEF Took
  <1>6. ASSUME NEW ch \in Channels, NEW i \in 1..Len(taken[ch]), NEW j \in 1..Len(taken[ch]),
               i < j, taken[ch][j] \in earlier'[taken[ch][i]]
        PROVE  heard[<<taken[ch][j], ch>>] # "ok"
    <2>1. earlier'[taken[ch][i]] = earlier[taken[ch][i]]
      BY <1>3, <1>5
    <2> QED
      BY <1>6, <2>1 DEF PastInv, OvertakenOnlyWhenGivenUp
  <1>7. OvertakenOnlyWhenGivenUp'
    BY <1>1, <1>6 DEF OvertakenOnlyWhenGivenUp
  <1> QED
    BY <1>4, <1>7 DEF PastInv

(* A handler that concludes a request has not ended before anything. *)
LEMMA ConclusionPast ==
    ASSUME Types, PastInv, NEW u \in Updates, Conclusion(u)
    PROVE  PastInv'
  <1>1. PICK what \in {"ok", "failed"} : Conclude(u, what)
    BY DEF Conclusion
  <1>2. /\ heard' = [heard EXCEPT ![Current(u)] = what]
        /\ pc[u] = "email" => Label(u, "telegram", reply[u])
        /\ pc[u] = "telegram" => Label(u, "done", "ok")
        /\ pc[u] \in {"email", "telegram"}
    BY <1>1, ConcludeFacts DEF Conclusion
  <1>3. taken' = taken /\ earlier' = earlier
    BY DEF Conclusion, service, history
  <1>4. ~Ended(u)
    BY <1>2 DEF Ended
  <1>5. ASSUME NEW v \in Updates, Ended(v) PROVE Ended(v)'
    <2>1. v # u
      BY <1>4, <1>5
    <2>2. pc'[v] = pc[v]
      BY <1>2, <2>1, LabelFacts
    <2> QED
      BY <1>5, <2>2 DEF Ended
  <1>6. ASSUME NEW ch \in Channels, NEW i \in 1..Len(taken[ch]), NEW j \in 1..Len(taken[ch]),
               i < j, taken[ch][j] \in earlier[taken[ch][i]]
        PROVE  heard'[<<taken[ch][j], ch>>] # "ok"
    <2>1. taken[ch][i] \in Updates /\ taken[ch][j] \in Updates
      BY DEF Types
    <2>2. taken[ch][j] # u
      BY <1>4, <1>6, <2>1 DEF PastInv
    <2>3. <<taken[ch][j], ch>> # Current(u) /\ <<taken[ch][j], ch>> \in Requests
      BY <2>1, <2>2 DEF Current, Requests
    <2>4. heard'[<<taken[ch][j], ch>>] = heard[<<taken[ch][j], ch>>]
      BY <1>2, <2>3 DEF Types
    <2> QED
      BY <1>6, <2>4 DEF PastInv, OvertakenOnlyWhenGivenUp
  <1>7. OvertakenOnlyWhenGivenUp'
    BY <1>3, <1>6 DEF OvertakenOnlyWhenGivenUp
  <1> QED
    BY <1>3, <1>5, <1>7 DEF PastInv, Types

(* What the provider takes has not been heard of as a success. *)
LEMMA ProviderTakesPast ==
    ASSUME Types, TakenInv, HeardInv, PastInv, NEW r \in Requests, ProviderTakes(r)
    PROVE  PastInv'
  <1>1. /\ call[r] = "send"
        /\ taken'[r[2]] = Append(taken[r[2]], r[1])
        /\ \A ch \in Channels : ch # r[2] => taken'[ch] = taken[ch]
        /\ r[1] \in Updates /\ r[2] \in Channels /\ r = <<r[1], r[2]>>
        /\ taken[r[2]] \in Seq(Updates)
    BY ProviderTakesFacts
  <1>2. heard' = heard /\ earlier' = earlier /\ pc' = pc
    BY DEF ProviderTakes, handler, history
  <1>3. heard[r] # "ok"
    BY <1>1 DEF HeardInv
  <1>4. ASSUME NEW ch \in Channels, NEW i \in 1..Len(taken'[ch]), NEW j \in 1..Len(taken'[ch]),
               i < j, taken'[ch][j] \in earlier[taken'[ch][i]]
        PROVE  heard[<<taken'[ch][j], ch>>] # "ok"
    <2>1. CASE ch # r[2]
      BY <1>1, <1>4, <2>1 DEF PastInv, OvertakenOnlyWhenGivenUp
    <2>2. CASE ch = r[2]
      <3> DEFINE s == taken[r[2]]
      <3>1. Len(s) \in Nat /\ Len(taken'[ch]) = Len(s) + 1
        BY <1>1, <2>2
      <3>2. taken'[ch][Len(s) + 1] = r[1] /\ \A k \in 1..Len(s) : taken'[ch][k] = s[k]
        BY <1>1, <2>2
      <3>3. CASE j = Len(s) + 1
        BY <1>1, <1>3, <2>2, <3>2, <3>3
      <3>4. CASE j # Len(s) + 1
        <4>1. i \in 1..Len(s) /\ j \in 1..Len(s)
          BY <1>4, <3>1, <3>4
        <4>2. taken'[ch][i] = s[i] /\ taken'[ch][j] = s[j]
          BY <3>2, <4>1
        <4>3. s[j] \in earlier[s[i]]
          BY <1>4, <4>2
        <4>4. heard[<<s[j], r[2]>>] # "ok"
          BY <1>1, <1>4, <4>1, <4>3 DEF PastInv, OvertakenOnlyWhenGivenUp
        <4> QED
          BY <2>2, <4>2, <4>4
      <3> QED
        BY <3>3, <3>4
    <2> QED
      BY <2>1, <2>2
  <1>5. OvertakenOnlyWhenGivenUp'
    BY <1>2, <1>4 DEF OvertakenOnlyWhenGivenUp
  <1>6. \A v \in Updates : Ended(v)' <=> Ended(v)
    BY <1>2 DEF Ended
  <1> QED
    BY <1>2, <1>5, <1>6 DEF PastInv, Types

-----------------------------------------------------------------------------
(* A step that moves no handler, and sends requests at most. *)
LEMMA TimeFrame ==
    ASSUME TimeInv, UNCHANGED <<pc, age, emailAt, waited>>,
           \A r \in Requests : call'[r] = "none" => call[r] = "none"
    PROVE  TimeInv'
  <1>1. TimeTypes'
    BY DEF TimeInv, TimeTypes
  <1>2. ASSUME NEW u \in Updates PROVE OnTime(u)'
    <2>1. Sending(u)' <=> Sending(u)
      BY DEF Sending
    <2>2. <<u, "telegram">> \in Requests
      BY DEF Requests, Channels
    <2>3. OnTime(u)
      BY DEF TimeInv
    <2> QED
      BY <2>1, <2>2, <2>3 DEF OnTime
  <1> QED
    BY <1>1, <1>2 DEF TimeInv

(* A step of one handler. *)
LEMMA TimeOfOne ==
    ASSUME Types, TimeInv, NEW u \in Updates, call' = call, NEW l, pc' = [pc EXCEPT ![u] = l],
           NEW a \in 0..Deadline, age' = [age EXCEPT ![u] = a],
           NEW e \in 0..Deadline, emailAt' = [emailAt EXCEPT ![u] = e],
           NEW w \in 0..SendTimeout, waited' = [waited EXCEPT ![u] = w],
           l \notin Channels => w = 0,
           l = "email" => a = e + w,
           l = "telegram" => a \leq e + SendTimeout
    PROVE  TimeInv'
  <1>1. TimeTypes'
    BY DEF TimeInv, TimeTypes
  <1>2. /\ pc'[u] = l /\ age'[u] = a /\ emailAt'[u] = e /\ waited'[u] = w
        /\ \A v \in Updates : v # u =>
              pc'[v] = pc[v] /\ age'[v] = age[v] /\ emailAt'[v] = emailAt[v] /\ waited'[v] = waited[v]
    BY DEF Types, TimeInv, TimeTypes
  <1>3. OnTime(u)'
    BY <1>2 DEF OnTime, Sending
  <1>4. ASSUME NEW v \in Updates, v # u PROVE OnTime(v)'
    BY <1>2, <1>4 DEF TimeInv, OnTime, Sending
  <1> QED
    BY <1>1, <1>3, <1>4 DEF TimeInv

(* The clocks of a handler hold their values. *)
LEMMA ClocksStand ==
    ASSUME TimeInv, NEW u \in Updates
    PROVE  /\ age[u] \in 0..Deadline /\ age = [age EXCEPT ![u] = age[u]]
           /\ emailAt[u] \in 0..Deadline /\ emailAt = [emailAt EXCEPT ![u] = emailAt[u]]
           /\ waited[u] \in 0..SendTimeout /\ waited = [waited EXCEPT ![u] = waited[u]]
           /\ 0 \in 0..Deadline /\ 0 \in 0..SendTimeout
           /\ OnTime(u)
  BY Limits DEF TimeInv, TimeTypes

(* The steps before the first request take no time by themselves. *)
LEMMA BeginTime ==
    ASSUME Types, TimeInv, NEW u \in Updates, Begin(u)
    PROVE  TimeInv'
  <1>1. /\ pc[u] = "idle" /\ pc' = [pc EXCEPT ![u] = "transaction"]
        /\ call' = call /\ UNCHANGED <<age, emailAt, waited>>
    BY DEF Begin, Goto, times
  <1>2. waited[u] = 0
    BY <1>1, ClocksStand DEF OnTime, Sending, Channels
  <1>3. "transaction" \notin Channels /\ "transaction" # "email" /\ "transaction" # "telegram"
    BY DEF Channels
  <1> QED
    BY <1>1, <1>2, <1>3, ClocksStand, TimeOfOne

(* So with the commit. *)
LEMMA CommitTime ==
    ASSUME Types, TimeInv, NEW u \in Updates, Commit(u)
    PROVE  TimeInv'
  <1>1. /\ pc[u] = "transaction" /\ pc' = [pc EXCEPT ![u] = "caches"]
        /\ call' = call /\ UNCHANGED <<age, emailAt, waited>>
    BY DEF Commit, Goto, times
  <1>2. waited[u] = 0
    BY <1>1, ClocksStand DEF OnTime, Sending, Channels
  <1>3. "caches" \notin Channels /\ "caches" # "email" /\ "caches" # "telegram"
    BY DEF Channels
  <1> QED
    BY <1>1, <1>2, <1>3, ClocksStand, TimeOfOne

(* A handler that ends without a request resets its clocks. *)
LEMMA RefusalTime ==
    ASSUME Types, TimeInv, NEW u \in Updates, Refuse(u) \/ CommitFails(u)
    PROVE  TimeInv'
  <1>1. /\ pc[u] = "transaction" /\ pc' = [pc EXCEPT ![u] = "done"]
        /\ age' = [age EXCEPT ![u] = 0]
        /\ emailAt' = [emailAt EXCEPT ![u] = 0]
        /\ call' = call /\ waited' = waited
    <2>1. CASE Refuse(u)
      BY <2>1 DEF Refuse, Answer, Goto
    <2>2. CASE CommitFails(u)
      BY <2>2 DEF CommitFails, Answer, Goto
    <2> QED
      BY <2>1, <2>2
  <1>2. waited[u] = 0
    BY <1>1, ClocksStand DEF OnTime, Sending, Channels
  <1>3. "done" \notin Channels /\ "done" # "email" /\ "done" # "telegram"
    BY DEF Channels
  <1> QED
    BY <1>1, <1>2, <1>3, ClocksStand, TimeOfOne

(* The dispatch begins. *)
LEMMA InvalidateTime ==
    ASSUME Types, TimeInv, NEW u \in Updates, Invalidate(u)
    PROVE  TimeInv'
  <1>1. /\ pc[u] = "caches" /\ pc' = [pc EXCEPT ![u] = "email"]
        /\ emailAt' = [emailAt EXCEPT ![u] = age[u]]
        /\ call' = call /\ UNCHANGED <<age, waited>>
    BY DEF Invalidate, Goto
  <1>2. waited[u] = 0
    BY <1>1, ClocksStand DEF OnTime, Sending, Channels
  <1>3. "email" \in Channels /\ "email" # "telegram" /\ age[u] = age[u] + 0
    BY ClocksStand DEF Channels
  <1>4. /\ age' = [age EXCEPT ![u] = age[u]] /\ waited' = [waited EXCEPT ![u] = 0]
        /\ age[u] \in 0..Deadline /\ 0 \in 0..SendTimeout
    BY <1>1, <1>2, ClocksStand
  <1> QED
    BY <1>1, <1>3, <1>4, TimeOfOne

(* The email takes no longer than the client's timeout. *)
LEMMA ConclusionTime ==
    ASSUME Types, TimeInv, NEW u \in Updates, Conclusion(u)
    PROVE  TimeInv'
  <1>1. PICK what \in {"ok", "failed"} : Conclude(u, what)
    BY DEF Conclusion
  <1>2. /\ waited' = [waited EXCEPT ![u] = 0]
        /\ pc[u] = "email" => Label(u, "telegram", reply[u]) /\ UNCHANGED <<age, emailAt>>
        /\ pc[u] = "telegram" =>
             /\ Label(u, "done", "ok")
             /\ age' = [age EXCEPT ![u] = 0]
             /\ emailAt' = [emailAt EXCEPT ![u] = 0]
        /\ pc[u] \in {"email", "telegram"}
    BY <1>1, ConcludeFacts DEF Conclusion
  <1>3. call' = call
    BY DEF Conclusion
  <1>4. CASE pc[u] = "email"
    <2>1. age[u] \leq emailAt[u] + SendTimeout
      <3>1. age[u] = emailAt[u] + waited[u]
        BY <1>4, ClocksStand DEF OnTime
      <3>2. emailAt[u] \in 0..Deadline /\ waited[u] \in 0..SendTimeout
        BY ClocksStand
      <3> QED
        BY <3>1, <3>2, Limits
    <2>2. pc' = [pc EXCEPT ![u] = "telegram"] /\ UNCHANGED <<age, emailAt>>
      BY <1>2, <1>4 DEF Label
    <2>3. "telegram" \in Channels /\ "telegram" # "email"
      BY DEF Channels
    <2>4. PICK a \in 0..Deadline, e \in 0..Deadline : a = age[u] /\ e = emailAt[u]
      BY ClocksStand
    <2>5. /\ age' = [age EXCEPT ![u] = a]
          /\ emailAt' = [emailAt EXCEPT ![u] = e]
          /\ waited' = [waited EXCEPT ![u] = 0] /\ 0 \in 0..SendTimeout
      BY <1>2, <2>2, <2>4, ClocksStand
    <2>6. a \leq e + SendTimeout
      BY <2>1, <2>4
    <2> QED
      BY <1>3, <2>2, <2>3, <2>5, <2>6, TimeOfOne
  <1>5. CASE pc[u] = "telegram"
    <2>1. pc' = [pc EXCEPT ![u] = "done"]
      BY <1>2, <1>5 DEF Label
    <2>2. "done" \notin Channels /\ "done" # "email" /\ "done" # "telegram"
      BY DEF Channels
    <2> QED
      BY <1>2, <1>3, <1>5, <2>1, <2>2, ClocksStand, TimeOfOne
  <1> QED
    BY <1>2, <1>4, <1>5

(* A second passes for all that run, while none is about to send. *)
LEMMA TickTime ==
    ASSUME Types, TimeInv, Tick
    PROVE  TimeInv'
  <1>1. /\ age' = [u \in Updates |-> IF Running(u) THEN age[u] + 1 ELSE age[u]]
        /\ waited' = [u \in Updates |-> IF Sending(u) THEN waited[u] + 1 ELSE waited[u]]
        /\ UNCHANGED <<pc, emailAt, call>>
    BY DEF Tick
  <1>2. ASSUME NEW u \in Updates
        PROVE  age'[u] \in 0..Deadline /\ waited'[u] \in 0..SendTimeout /\ OnTime(u)'
    <2>1. /\ age'[u] = IF Running(u) THEN age[u] + 1 ELSE age[u]
          /\ waited'[u] = IF Sending(u) THEN waited[u] + 1 ELSE waited[u]
          /\ pc'[u] = pc[u] /\ emailAt'[u] = emailAt[u]
      BY <1>1
    <2>2. Sending(u) => Running(u)
      BY DEF Sending, Running, Ended, Channels
    <2>3. Running(u) => age[u] < Deadline /\ ~AboutToSend(u) /\ (Sending(u) => ~TimeIsUp(u))
      BY DEF Tick
    <2>4. Running(u) => age'[u] \in 0..Deadline
      BY <2>1, <2>3, Limits, ClocksStand
    <2>5. Sending(u) => waited'[u] \in 0..SendTimeout
      BY <2>1, <2>2, <2>3, Limits, ClocksStand DEF TimeIsUp
    <2>6. ~Running(u) => age'[u] \in 0..Deadline
      BY <2>1, ClocksStand
    <2>7. ~Sending(u) => waited'[u] \in 0..SendTimeout /\ waited'[u] = 0
      BY <2>1, ClocksStand DEF OnTime
    <2>8. pc[u] = "email" => age'[u] = emailAt'[u] + waited'[u]
      <3>1. pc[u] = "email" => Sending(u) /\ age[u] = emailAt[u] + waited[u]
        BY ClocksStand DEF OnTime, Sending, Channels
      <3> QED
        BY <2>1, <2>2, <3>1, ClocksStand
    <2>9. ~(pc[u] = "telegram" /\ call[<<u, "telegram">>] = "none")
      BY <2>2, <2>3 DEF AboutToSend, Sending, Channels, Current
    <2>10. OnTime(u)'
      BY <1>1, <2>1, <2>7, <2>8, <2>9 DEF OnTime, Sending
    <2> QED
      BY <2>4, <2>5, <2>6, <2>7, <2>10
  <1>3. TimeTypes'
    BY <1>1, <1>2 DEF TimeInv, TimeTypes
  <1> QED
    BY <1>2, <1>3 DEF TimeInv

(* A crash stops all clocks. *)
LEMMA CrashTime ==
    ASSUME Types, TimeInv, Crash
    PROVE  TimeInv'
  <1>1. /\ pc' = [u \in Updates |-> IF Running(u) THEN "cut" ELSE pc[u]]
        /\ age' = [u \in Updates |-> 0]
        /\ emailAt' = [u \in Updates |-> 0]
        /\ waited' = [u \in Updates |-> 0]
    BY DEF Crash
  <1>2. TimeTypes'
    BY <1>1, Limits DEF TimeTypes
  <1>3. ASSUME NEW u \in Updates PROVE waited'[u] = 0 /\ pc'[u] \notin {"email", "telegram"}
    BY <1>1 DEF Running, Ended
  <1> QED
    BY <1>2, <1>3 DEF TimeInv, OnTime

-----------------------------------------------------------------------------
(* The invariant. *)
Inv ==
    /\ Types /\ TimeInv /\ OrderInv /\ SentInv
    /\ ReservedInv /\ TakenInv /\ HeardInv /\ PastInv

(* A step of the handler of u that is no request: what is known of the     *)
(* notifications stands.                                                   *)
LEMMA HandlerFrame ==
    ASSUME Inv, NEW u \in Updates, ~Ended(u), NEW l, l \notin Channels, pc' = [pc EXCEPT ![u] = l],
           \A v \in Updates : reply'[v] = "ok" => reply[v] = "ok",
           UNCHANGED <<target, heard, call, reserved, taken>>
    PROVE  ReservedInv' /\ TakenInv' /\ HeardInv' /\ \A v \in Updates : Ended(v) => Ended(v)'
  <1>1. pc'[u] = l /\ \A v \in Updates : v # u => pc'[v] = pc[v]
    BY DEF Inv, Types
  <1>2. \A r \in Requests : call[r] # "duplicate"
    BY DEF Inv, ReservedInv
  <1>3. ReservedInv'
    BY <1>2, ReservedFrame DEF Inv
  <1>4. TakenInv'
    BY TakenFrame DEF Inv
  <1>5. l # "telegram"
    BY DEF Channels
  <1>6. HeardInv'
    BY <1>1, <1>5, HeardFrame DEF Inv
  <1>7. \A v \in Updates : Ended(v) => Ended(v)'
    BY <1>1 DEF Ended
  <1> QED
    BY <1>3, <1>4, <1>6, <1>7

(* A step that moves no handler and no order. *)
LEMMA ServiceFrame ==
    ASSUME Inv, UNCHANGED <<status, handler, committed>>,
           \A r \in Requests : call'[r] = "none" <=> call[r] = "none"
    PROVE  TimeInv' /\ OrderInv' /\ SentInv' /\ \A v \in Updates : Ended(v) => Ended(v)'
  <1>1. UNCHANGED <<pc, age, emailAt, waited, target>>
    BY DEF handler, times
  <1>2. TimeInv'
    BY <1>1, TimeFrame DEF Inv
  <1>3. OrderInv'
    BY <1>1, OrderFrame DEF Inv
  <1>4. SentInv'
    BY <1>1, SentFrame DEF Inv
  <1>5. \A v \in Updates : Ended(v) => Ended(v)'
    BY <1>1 DEF Ended
  <1> QED
    BY <1>2, <1>3, <1>4, <1>5

-----------------------------------------------------------------------------
(* The invariant holds at the start. *)
LEMMA InitInv == ASSUME Init PROVE Inv
  <1>1. Types
    BY DispatchAssumption DEF Init, Types, Labels, Statuses, Channels
  <1>2. TimeInv
    BY Limits DEF Init, TimeInv, TimeTypes, OnTime
  <1>3. OrderInv /\ SentInv /\ ReservedInv
    BY DEF Init, OrderInv, SentInv, ReservedInv
  <1>4. \A ch \in Channels : taken[ch] = <<>> /\ Len(taken[ch]) = 0
    BY DEF Init
  <1>5. TakenInv
    <2>1. ASSUME NEW u \in Updates, NEW ch \in Channels PROVE ~Took(u, ch) /\ call[<<u, ch>>] # "taken"
      <3>1. <<u, ch>> \in Requests
        BY DEF Requests
      <3> QED
        BY <1>4, <3>1 DEF Init, Took
    <2>2. \A ch \in Channels : Distinct(taken[ch])
      BY <1>4 DEF Distinct
    <2> QED
      BY <2>1, <2>2 DEF TakenInv
  <1>6. HeardInv
    BY DEF Init, HeardInv
  <1>7. PastInv
    BY <1>4 DEF Init, PastInv, OvertakenOnlyWhenGivenUp
  <1> QED
    BY <1>1, <1>2, <1>3, <1>5, <1>6, <1>7 DEF Inv

(* A second. *)
LEMMA TickInv == ASSUME Inv, Tick PROVE Inv'
  <1>1. UNCHANGED <<status, target, pc, reply, heard, call, reserved, committed, earlier, taken>>
    BY DEF Tick, service, history
  <1>2. Types' /\ TimeInv'
    BY TickTypes, TickTime DEF Inv
  <1>3. OrderInv' /\ SentInv'
    BY <1>1, OrderFrame, SentFrame DEF Inv
  <1>4. ReservedInv' /\ TakenInv' /\ HeardInv'
    <2>1. \A r \in Requests : call[r] # "duplicate"
      BY DEF Inv, ReservedInv
    <2> QED
      BY <1>1, <2>1, ReservedFrame, TakenFrame, HeardFrame DEF Inv
  <1>5. \A u \in Updates : Ended(u) => Ended(u)'
    BY <1>1 DEF Ended
  <1>6. PastInv'
    BY <1>1, <1>5, PastFrame DEF Inv
  <1> QED
    BY <1>2, <1>3, <1>4, <1>6 DEF Inv

(* The tracking-service dies. *)
LEMMA CrashInv == ASSUME Inv, Crash PROVE Inv'
  <1>1. UNCHANGED <<status, target, reply, heard, call, reserved, committed, earlier, taken>>
    BY DEF Crash, service, history
  <1>2. ASSUME NEW u \in Updates PROVE pc'[u] = pc[u] \/ pc'[u] = "cut"
    BY DEF Crash
  <1>3. Types' /\ TimeInv'
    BY CrashTypes, CrashTime DEF Inv
  <1>4. OrderInv' /\ SentInv'
    BY <1>1, <1>2, OrderFrame, SentFrame DEF Inv
  <1>5. ReservedInv' /\ TakenInv' /\ HeardInv'
    <2>1. \A r \in Requests : call[r] # "duplicate"
      BY DEF Inv, ReservedInv
    <2>2. \A u \in Updates : pc'[u] = "telegram" => pc[u] = "telegram"
      BY <1>2
    <2> QED
      BY <1>1, <2>1, <2>2, ReservedFrame, TakenFrame, HeardFrame DEF Inv
  <1>6. \A u \in Updates : Ended(u) => Ended(u)'
    BY <1>2 DEF Ended
  <1>7. PastInv'
    BY <1>1, <1>6, PastFrame DEF Inv
  <1> QED
    BY <1>3, <1>4, <1>5, <1>7 DEF Inv

(* A call of UpdateOrderStatus begins. *)
LEMMA BeginInv == ASSUME Inv, NEW u \in Updates, Begin(u) PROVE Inv'
  <1>1. /\ pc[u] = "idle" /\ pc' = [pc EXCEPT ![u] = "transaction"]
        /\ UNCHANGED <<status, target, reply, heard, call, reserved, taken, committed>>
    BY DEF Begin, Goto, service
  <1>2. Types' /\ TimeInv' /\ PastInv'
    BY BeginTypes, BeginTime, BeginPast DEF Inv
  <1>3. OrderInv'
    BY <1>1, OrderFrame DEF Inv
  <1>4. pc'[u] = "transaction" /\ \A v \in Updates : v # u => pc'[v] = pc[v]
    BY <1>1, GotoFacts DEF Inv
  <1>5. SentInv'
    BY <1>1, <1>4, SentFrame DEF Inv
  <1>6. ReservedInv' /\ TakenInv' /\ HeardInv'
    BY <1>1, HandlerFrame DEF Ended, Channels
  <1> QED
    BY <1>2, <1>3, <1>5, <1>6 DEF Inv

(* Its transaction commits. *)
LEMMA CommitInv == ASSUME Inv, NEW u \in Updates, Commit(u) PROVE Inv'
  <1>1. /\ pc[u] = "transaction" /\ pc' = [pc EXCEPT ![u] = "caches"]
        /\ UNCHANGED <<target, reply, heard, call, reserved, taken, earlier>>
        /\ committed' = committed \cup {u}
    BY DEF Commit, Goto, service, Apply
  <1>2. Types' /\ TimeInv'
    BY CommitTypes, CommitTime DEF Inv
  <1>3. OrderInv'
    BY ApplyOrder DEF Inv, Commit
  <1>4. /\ pc'[u] = "caches" /\ \A v \in Updates : v # u => pc'[v] = pc[v]
        /\ u \in committed'
    BY <1>1, GotoFacts DEF Inv
  <1>5. SentInv'
    BY <1>1, <1>4, SentFrame DEF Inv
  <1>6. ReservedInv' /\ TakenInv' /\ HeardInv' /\ \A v \in Updates : Ended(v) => Ended(v)'
    BY <1>1, HandlerFrame DEF Ended, Channels
  <1>7. PastInv'
    BY <1>1, <1>6, PastFrame DEF Inv
  <1> QED
    BY <1>2, <1>3, <1>5, <1>6, <1>7 DEF Inv

(* Its transaction refuses the status, or fails. *)
LEMMA RefusalInv == ASSUME Inv, NEW u \in Updates, Refuse(u) \/ CommitFails(u) PROVE Inv'
  <1>1. PICK r \in {"refused", "error"} :
           /\ pc[u] = "transaction" /\ Label(u, "done", r)
           /\ UNCHANGED <<target, heard, call, reserved, taken, earlier>>
    <2>1. CASE Refuse(u)
      BY <2>1 DEF Refuse, Answer, Goto, Label, service, history
    <2>2. CASE CommitFails(u)
      BY <2>2 DEF CommitFails, Answer, Goto, Label, service
    <2> QED
      BY <2>1, <2>2
  <1>2. committed \subseteq committed' /\ OrderInv'
    <2>1. CASE UNCHANGED <<status, committed>>
      BY <1>1, <2>1, OrderFrame DEF Inv
    <2>2. CASE Allowed(u) /\ Apply(u)
      BY <1>1, <2>2, ApplyOrder DEF Inv, Apply
    <2> QED
      BY <2>1, <2>2 DEF Refuse, CommitFails, history
  <1>3. Types' /\ TimeInv'
    BY RefuseTypes, CommitFailsTypes, RefusalTime DEF Inv
  <1>4. /\ pc'[u] = "done" /\ reply'[u] = r
        /\ \A v \in Updates : v # u => pc'[v] = pc[v] /\ reply'[v] = reply[v]
    BY <1>1, LabelFacts DEF Inv
  <1>5. SentInv'
    BY <1>1, <1>2, <1>4, SentFrame DEF Inv
  <1>6. \A v \in Updates : reply'[v] = "ok" => reply[v] = "ok"
    BY <1>4
  <1>7. ReservedInv' /\ TakenInv' /\ HeardInv' /\ \A v \in Updates : Ended(v) => Ended(v)'
    <2>1. pc' = [pc EXCEPT ![u] = "done"] /\ "done" \notin Channels /\ ~Ended(u)
      BY <1>1 DEF Label, Channels, Ended
    <2> QED
      BY <1>1, <1>6, <2>1, HandlerFrame
  <1>8. PastInv'
    BY <1>1, <1>7, PastFrame DEF Inv
  <1> QED
    BY <1>2, <1>3, <1>5, <1>7, <1>8 DEF Inv

(* Its caches are cleared, and the dispatch begins. *)
LEMMA InvalidateInv == ASSUME Inv, NEW u \in Updates, Invalidate(u) PROVE Inv'
  <1>1. /\ pc[u] = "caches" /\ pc' = [pc EXCEPT ![u] = "email"]
        /\ UNCHANGED <<status, target, reply, heard, call, reserved, taken, committed, earlier>>
    BY DEF Invalidate, Goto, service, history
  <1>2. Types' /\ TimeInv'
    BY InvalidateTypes, InvalidateTime DEF Inv
  <1>3. OrderInv'
    BY <1>1, OrderFrame DEF Inv
  <1>4. pc'[u] = "email" /\ \A v \in Updates : v # u => pc'[v] = pc[v]
    BY <1>1, GotoFacts DEF Inv
  <1>5. SentInv'
    BY <1>1, <1>4, SentFrame DEF Inv
  <1>6. ReservedInv' /\ TakenInv' /\ HeardInv'
    <2>1. \A r \in Requests : call[r] # "duplicate"
      BY DEF Inv, ReservedInv
    <2>2. \A v \in Updates : pc'[v] = "telegram" => pc[v] = "telegram"
      BY <1>4
    <2> QED
      BY <1>1, <2>1, <2>2, ReservedFrame, TakenFrame, HeardFrame DEF Inv
  <1>7. \A v \in Updates : Ended(v) => Ended(v)'
    BY <1>1, <1>4 DEF Ended
  <1>8. PastInv'
    BY <1>1, <1>7, PastFrame DEF Inv
  <1> QED
    BY <1>2, <1>3, <1>5, <1>6, <1>8 DEF Inv

(* A request is sent. *)
LEMMA SendInv == ASSUME Inv, NEW u \in Updates, Send(u) PROVE Inv'
  <1>1. /\ call[Current(u)] = "none" /\ Current(u) \in Requests
        /\ call' = [call EXCEPT ![Current(u)] = "net"]
        /\ UNCHANGED <<status, target, pc, age, emailAt, waited, reply, heard>>
        /\ UNCHANGED <<reserved, taken, committed, earlier>>
    BY CurrentIsRequest, SendCalls DEF Send, AboutToSend, handler, times, history
  <1>2. call'[Current(u)] = "net" /\ \A q \in Requests : q # Current(u) => call'[q] = call[q]
    BY <1>1, CallFacts DEF Inv
  <1>3. \A q \in Requests : call'[q] = "none" => call[q] = "none"
    BY <1>2
  <1>4. Types' /\ TimeInv' /\ OrderInv' /\ SentInv' /\ ReservedInv'
    BY <1>1, <1>3, SendTypes, TimeFrame, OrderFrame, SendSent, SendReserved DEF Inv
  <1>5. \A q \in Requests : call'[q] = "taken" <=> call[q] = "taken"
    BY <1>1, <1>2
  <1>6. TakenInv' /\ HeardInv'
    BY <1>1, <1>5, TakenFrame, HeardFrame DEF Inv
  <1>7. \A v \in Updates : Ended(v) => Ended(v)'
    BY <1>1 DEF Ended
  <1>8. PastInv'
    BY <1>1, <1>7, PastFrame DEF Inv
  <1> QED
    BY <1>4, <1>6, <1>8 DEF Inv

(* A request is concluded. *)
LEMMA ConclusionInv == ASSUME Inv, NEW u \in Updates, Conclusion(u) PROVE Inv'
  <1>1. UNCHANGED <<status, target, call, reserved, taken, committed, earlier>>
    BY DEF Conclusion, service, history
  <1>2. Types' /\ TimeInv' /\ HeardInv' /\ PastInv'
    BY ConclusionTypes, ConclusionTime, ConclusionHeard, ConclusionPast DEF Inv
  <1>3. OrderInv'
    BY <1>1, OrderFrame DEF Inv
  <1>4. PICK what \in {"ok", "failed"} : Conclude(u, what)
    BY DEF Conclusion
  <1>5. /\ pc[u] = "email" => Label(u, "telegram", reply[u])
        /\ pc[u] = "telegram" => Label(u, "done", "ok")
        /\ pc[u] \in {"email", "telegram"}
    BY <1>4, ConcludeFacts DEF Conclusion, Inv
  <1>6. /\ (pc[u] = "email" /\ pc'[u] = "telegram") \/ pc'[u] = "done"
        /\ \A v \in Updates : v # u => pc'[v] = pc[v]
    BY <1>5, LabelFacts DEF Inv
  <1>7. SentInv'
    BY <1>1, <1>6, SentFrame DEF Inv
  <1>8. ReservedInv' /\ TakenInv'
    <2>1. \A r \in Requests : call[r] # "duplicate"
      BY DEF Inv, ReservedInv
    <2> QED
      BY <1>1, <2>1, ReservedFrame, TakenFrame DEF Inv
  <1> QED
    BY <1>2, <1>3, <1>7, <1>8 DEF Inv

(* The notification-service reserves the key of a request. *)
LEMMA ReserveInv == ASSUME Inv, NEW r \in Requests, Reserve(r) PROVE Inv'
  <1>1. UNCHANGED <<status, handler, committed, earlier, taken>>
    BY DEF Reserve, history
  <1>2. call[r] = "net" /\ call' = [call EXCEPT ![r] = "send"]
    BY ReserveFacts DEF Inv
  <1>3. call'[r] = "send" /\ \A q \in Requests : q # r => call'[q] = call[q]
    BY <1>2, CallFacts DEF Inv
  <1>4. Types' /\ ReservedInv'
    BY ReserveTypes, ReserveReserved DEF Inv
  <1>5. \A q \in Requests : call'[q] = "none" <=> call[q] = "none"
    BY <1>2, <1>3
  <1>6. TimeInv' /\ OrderInv' /\ SentInv' /\ \A v \in Updates : Ended(v) => Ended(v)'
    BY <1>1, <1>5, ServiceFrame
  <1>7. \A q \in Requests : call'[q] = "taken" <=> call[q] = "taken"
    BY <1>2, <1>3
  <1>8. TakenInv' /\ HeardInv' /\ PastInv'
    BY <1>1, <1>6, <1>7, TakenFrame, HeardFrame, PastFrame DEF Inv, handler
  <1> QED
    BY <1>4, <1>6, <1>8 DEF Inv

(* The provider takes a request. *)
LEMMA ProviderTakesInv == ASSUME Inv, NEW r \in Requests, ProviderTakes(r) PROVE Inv'
  <1>1. UNCHANGED <<status, handler, reserved, committed, earlier>>
    BY ProviderTakesCalls DEF ProviderTakes, history
  <1>2. call[r] = "send" /\ call' = [call EXCEPT ![r] = "taken"]
    BY ProviderTakesCalls
  <1>3. call'[r] = "taken" /\ \A q \in Requests : q # r => call'[q] = call[q]
    BY <1>2, CallFacts DEF Inv
  <1>4. Types' /\ ReservedInv' /\ TakenInv' /\ PastInv'
    BY ProviderTakesTypes, ProviderTakesReserved, ProviderTakesTaken, ProviderTakesPast DEF Inv
  <1>5. \A q \in Requests : call'[q] = "none" <=> call[q] = "none"
    BY <1>2, <1>3
  <1>6. TimeInv' /\ OrderInv' /\ SentInv'
    BY <1>1, <1>5, ServiceFrame
  <1>7. HeardInv'
    BY <1>1, <1>3, HeardFrame DEF Inv, handler
  <1> QED
    BY <1>4, <1>6, <1>7 DEF Inv

(* The provider fails a request. *)
LEMMA ProviderFailsInv == ASSUME Inv, NEW r \in Requests, ProviderFails(r) PROVE Inv'
  <1>1. UNCHANGED <<status, handler, taken, committed, earlier>>
    BY DEF ProviderFails, history
  <1>2. call[r] = "send" /\ call' = [call EXCEPT ![r] = "failed"]
    BY ProviderFailsCalls
  <1>3. call'[r] = "failed" /\ \A q \in Requests : q # r => call'[q] = call[q]
    BY <1>2, CallFacts DEF Inv
  <1>4. Types' /\ ReservedInv'
    BY ProviderFailsTypes, ProviderFailsReserved DEF Inv
  <1>5. \A q \in Requests : call'[q] = "none" <=> call[q] = "none"
    BY <1>2, <1>3
  <1>6. TimeInv' /\ OrderInv' /\ SentInv' /\ \A v \in Updates : Ended(v) => Ended(v)'
    BY <1>1, <1>5, ServiceFrame
  <1>7. \A q \in Requests : call'[q] = "taken" <=> call[q] = "taken"
    BY <1>2, <1>3
  <1>8. TakenInv' /\ HeardInv' /\ PastInv'
    BY <1>1, <1>6, <1>7, TakenFrame, HeardFrame, PastFrame DEF Inv, handler
  <1> QED
    BY <1>4, <1>6, <1>8 DEF Inv

(* The notification-service restarts. *)
LEMMA RestartInv == ASSUME Inv, Restart PROVE Inv'
  <1>1. UNCHANGED <<status, handler, taken, committed, earlier>>
    BY DEF Restart, history
  <1>2. \A q \in Requests :
            call'[q] = call[q] \/ (call[q] \in {"net", "send"} /\ call'[q] = "failed")
    BY RestartCalls
  <1>3. Types' /\ ReservedInv'
    BY RestartTypes, RestartReserved DEF Inv
  <1>4. /\ \A q \in Requests : call'[q] = "none" <=> call[q] = "none"
        /\ \A q \in Requests : call'[q] = "taken" <=> call[q] = "taken"
    BY <1>2
  <1>5. TimeInv' /\ OrderInv' /\ SentInv' /\ \A v \in Updates : Ended(v) => Ended(v)'
    BY <1>1, <1>4, ServiceFrame
  <1>6. TakenInv' /\ HeardInv' /\ PastInv'
    BY <1>1, <1>4, <1>5, TakenFrame, HeardFrame, PastFrame DEF Inv, handler
  <1> QED
    BY <1>3, <1>5, <1>6 DEF Inv

(* The order-service assigns an order. *)
LEMMA AssignInv == ASSUME Inv, NEW o \in Orders, AssignOrder(o) PROVE Inv'
  <1>1. UNCHANGED <<target, pc, age, emailAt, waited, reply, heard>>
    BY DEF AssignOrder, handler, times
  <1>2. UNCHANGED <<call, reserved, taken, committed, earlier>>
    BY DEF AssignOrder, service, history
  <1>3. Types' /\ OrderInv'
    BY AssignTypes, AssignKeepsOrder DEF Inv
  <1>4. TimeInv' /\ SentInv'
    BY <1>1, <1>2, TimeFrame, SentFrame DEF Inv
  <1>5. \A r \in Requests : call[r] # "duplicate"
    BY DEF Inv, ReservedInv
  <1>6. \A v \in Updates : Ended(v) => Ended(v)'
    BY <1>1 DEF Ended
  <1>7. ReservedInv' /\ TakenInv' /\ HeardInv' /\ PastInv'
    BY <1>1, <1>2, <1>5, <1>6, ReservedFrame, TakenFrame, HeardFrame, PastFrame DEF Inv
  <1> QED
    BY <1>3, <1>4, <1>7 DEF Inv

(* Nothing happens. *)
LEMMA StutterInv == ASSUME Inv, UNCHANGED vars PROVE Inv'
  <1>1. UNCHANGED <<status, target, pc, age, emailAt, waited, reply, heard>>
    BY DEF vars, handler, times
  <1>2. UNCHANGED <<call, reserved, taken, committed, earlier>>
    BY DEF vars, service, history
  <1>3. Types'
    BY <1>1, <1>2 DEF Inv, Types
  <1>4. TimeInv' /\ OrderInv' /\ SentInv'
    BY <1>1, <1>2, TimeFrame, OrderFrame, SentFrame DEF Inv
  <1>5. \A r \in Requests : call[r] # "duplicate"
    BY DEF Inv, ReservedInv
  <1>6. \A v \in Updates : Ended(v) => Ended(v)'
    BY <1>1 DEF Ended
  <1>7. ReservedInv' /\ TakenInv' /\ HeardInv' /\ PastInv'
    BY <1>1, <1>2, <1>5, <1>6, ReservedFrame, TakenFrame, HeardFrame, PastFrame DEF Inv
  <1> QED
    BY <1>3, <1>4, <1>7 DEF Inv

-----------------------------------------------------------------------------
(* The invariant holds in every reachable state of the dispatch. *)
THEOREM DispatchInvariant == Spec => []Inv
  <1>1. Init => Inv
    BY InitInv
  <1>2. Inv /\ [Next]_vars => Inv'
    <2> SUFFICES ASSUME Inv, [Next]_vars PROVE Inv'
      OBVIOUS
    <2>1. ASSUME NEW u \in Updates, Begin(u) \/ Advance(u) \/ Broken(u) PROVE Inv'
      <3>1. CASE Begin(u)
        BY <3>1, BeginInv
      <3>2. CASE Commit(u)
        BY <3>2, CommitInv
      <3>3. CASE Refuse(u) \/ CommitFails(u)
        BY <3>3, RefusalInv
      <3>4. CASE Invalidate(u)
        BY <3>4, InvalidateInv
      <3>5. CASE Send(u)
        BY <3>5, SendInv
      <3>6. CASE Hear(u) \/ TimeUp(u) \/ Broken(u)
        BY <3>6, Conclusions, ConclusionInv
      <3> QED
        BY <2>1, <3>1, <3>2, <3>3, <3>4, <3>5, <3>6 DEF Advance
    <2>2. ASSUME NEW r \in Requests, Reserve(r) \/ ProviderTakes(r) \/ ProviderFails(r) PROVE Inv'
      BY <2>2, ReserveInv, ProviderTakesInv, ProviderFailsInv
    <2>3. ASSUME NEW o \in Orders, AssignOrder(o) PROVE Inv'
      BY <2>3, AssignInv
    <2> QED
      BY <2>1, <2>2, <2>3, TickInv, CrashInv, RestartInv, StutterInv DEF Next
  <1> QED
    BY <1>1, <1>2, PTL DEF Spec

(* TypeOK of StatusDispatch holds in every reachable state: every handler  *)
(* keeps to its deadline and every request to the client's timeout.        *)
THEOREM DispatchTyped == Spec => []TypeOK
  <1>1. Inv => TypeOK
    BY DEF Inv, Types, TimeInv, TimeTypes, TypeOK, Labels, Channels
  <1> QED
    BY <1>1, DispatchInvariant, PTL

(* ProviderTakesCommittedOnce: for any number of updates and restarts of   *)
(* the notification-service, an event reaches the provider once for each   *)
(* committed change and channel, and for no other change.                  *)
THEOREM DispatchOnce == Spec => []ProviderTakesCommittedOnce
  <1>1. ASSUME Inv PROVE ProviderTakesCommittedOnce
    <2>1. ASSUME NEW ch \in Channels, NEW i \in 1..Len(taken[ch])
          PROVE  taken[ch][i] \in committed
      <3>1. taken[ch][i] \in Updates
        BY <1>1 DEF Inv, Types
      <3>2. Took(taken[ch][i], ch)
        BY DEF Took
      <3>3. call[<<taken[ch][i], ch>>] = "taken"
        BY <1>1, <3>1, <3>2 DEF Inv, TakenInv
      <3>4. <<taken[ch][i], ch>> \in Requests /\ <<taken[ch][i], ch>>[1] = taken[ch][i]
        BY <3>1 DEF Requests
      <3>5. call[<<taken[ch][i], ch>>] # "none"
        BY <3>3
      <3> QED
        BY <1>1, <3>4, <3>5 DEF Inv, SentInv
    <2>2. ASSUME NEW ch \in Channels, NEW i \in 1..Len(taken[ch]), NEW j \in 1..Len(taken[ch]),
                 target[taken[ch][i]] = target[taken[ch][j]]
          PROVE  i = j
      <3>1. taken[ch][i] = taken[ch][j]
        BY <1>1, <2>1, <2>2 DEF Inv, OrderInv
      <3> QED
        BY <1>1, <3>1 DEF Inv, TakenInv, Distinct
    <2> QED
      BY <2>1, <2>2 DEF ProviderTakesCommittedOnce
  <1> QED
    BY <1>1, DispatchInvariant, PTL

(* TakenOrLogged: a change that was answered as a success was taken by the *)
(* provider on each channel, or an error of that channel was logged.       *)
THEOREM DispatchComplete == Spec => []TakenOrLogged
  <1>1. ASSUME Inv PROVE TakenOrLogged
    <2>1. ASSUME NEW u \in Updates, reply[u] = "ok", NEW ch \in Channels, heard[<<u, ch>>] # "failed"
          PROVE  Took(u, ch)
      <3>1. <<u, ch>> \in Requests
        BY DEF Requests
      <3>2. heard[<<u, ch>>] \in {"none", "ok", "failed"}
        BY <1>1, <3>1 DEF Inv, Types
      <3>3. heard[<<u, ch>>] # "none"
        BY <1>1, <2>1 DEF Inv, HeardInv
      <3>4. call[<<u, ch>>] = "taken"
        BY <1>1, <2>1, <3>1, <3>2, <3>3 DEF Inv, HeardInv
      <3> QED
        BY <1>1, <3>4 DEF Inv, TakenInv
    <2> QED
      BY <2>1 DEF TakenOrLogged
  <1> QED
    BY <1>1, DispatchInvariant, PTL

(* OvertakenOnlyWhenGivenUp: the provider is given the changes of an order *)
(* in the wrong order only if their handlers overlapped, or if the handler *)
(* of the one that was overtaken had given its request up.                 *)
THEOREM DispatchOvertaking == Spec => []OvertakenOnlyWhenGivenUp
  <1>1. Inv => OvertakenOnlyWhenGivenUp
    BY DEF Inv, PastInv
  <1> QED
    BY <1>1, DispatchInvariant, PTL

(* SlowEmailSparesTelegram: whatever the limits, a dispatch that begins    *)
(* more than the client's timeout before the deadline has time left for    *)
(* its second request.                                                     *)
THEOREM DispatchSparesTelegram == Spec => []SlowEmailSparesTelegram
  <1>1. ASSUME Inv PROVE SlowEmailSparesTelegram
    <2>1. ASSUME NEW u \in Updates, pc[u] = "telegram", AboutToSend(u), emailAt[u] + SendTimeout < Deadline
          PROVE  age[u] < Deadline
      <3>1. call[<<u, "telegram">>] = "none"
        BY <2>1 DEF AboutToSend, Current
      <3>2. age[u] \leq emailAt[u] + SendTimeout
        BY <1>1, <2>1, <3>1 DEF Inv, TimeInv, OnTime
      <3>3. age[u] \in 0..Deadline /\ emailAt[u] \in 0..Deadline
        BY <1>1 DEF Inv, TimeInv, TimeTypes
      <3> QED
        BY <2>1, <3>2, <3>3, Limits
    <2> QED
      BY <2>1 DEF SlowEmailSparesTelegram
  <1> QED
    BY <1>1, DispatchInvariant, PTL

-----------------------------------------------------------------------------
(* What the handler of u still has to do, besides waiting.                 *)
Work(u) ==
    CASE pc[u] = "transaction" -> 6
      [] pc[u] = "caches"      -> 5
      [] pc[u] = "email"       -> IF AboutToSend(u) THEN 4 ELSE 3
      [] pc[u] = "telegram"    -> IF AboutToSend(u) THEN 2 ELSE 1

(* The most steps the handler of u and its clock may still take.           *)
Left(u) == IF Running(u) THEN Deadline - age[u] + Work(u) ELSE 0

(* A handler begins with a known budget; each of its steps, a broken       *)
(* connection, every second and a crash take from it, and no other         *)
(* handler, client or step of the notification-service adds to it.         *)
BudgetSpent ==
    \A u \in Updates :
        /\ Advance(u) \/ Broken(u) => Left(u)' < Left(u)
        /\ Running(u) /\ (Tick \/ Crash) => Left(u)' < Left(u)
        /\ Begin(u) => Left(u)' \leq Deadline + 6
        /\ ~Begin(u) => Left(u)' \leq Left(u)

(* The budget by the label of the handler.                                 *)
LEMMA LeftFacts ==
    ASSUME Inv, NEW u \in Updates
    PROVE  /\ ~Running(u) => Left(u) = 0
           /\ Running(u) => pc[u] \in {"transaction", "caches", "email", "telegram"}
           /\ pc[u] = "transaction" => Left(u) = Deadline - age[u] + 6
           /\ pc[u] = "caches" => Left(u) = Deadline - age[u] + 5
           /\ pc[u] = "email" /\ AboutToSend(u) => Left(u) = Deadline - age[u] + 4
           /\ pc[u] = "email" /\ ~AboutToSend(u) => Left(u) = Deadline - age[u] + 3
           /\ pc[u] = "telegram" /\ AboutToSend(u) => Left(u) = Deadline - age[u] + 2
           /\ pc[u] = "telegram" /\ ~AboutToSend(u) => Left(u) = Deadline - age[u] + 1
           /\ Deadline \in Nat /\ age[u] \in 0..Deadline
  <1>1. pc[u] \in Labels
    BY DEF Inv, Types
  <1>2. Deadline \in Nat /\ age[u] \in 0..Deadline
    BY Limits DEF Inv, TimeInv, TimeTypes
  <1> QED
    BY <1>1, <1>2 DEF Left, Work, Running, Ended, Labels

(* It is a number, and it is spent exactly when the handler does not run.  *)
LEMMA LeftNat == ASSUME Inv, NEW u \in Updates PROVE Left(u) \in Nat /\ (Left(u) = 0 <=> ~Running(u))
  <1>1. CASE ~Running(u)
    BY <1>1, LeftFacts
  <1>2. CASE Running(u)
    <2>1. \E n \in 1..6 : Left(u) = Deadline - age[u] + n
      BY <1>2, LeftFacts
    <2>2. Deadline \in Nat /\ age[u] \in 0..Deadline
      BY LeftFacts
    <2> QED
      BY <1>2, <2>1, <2>2
  <1> QED
    BY <1>1, <1>2

(* The budget stands as long as the handler, its clock and whether its     *)
(* requests have been sent do.                                             *)
LEMMA LeftFrame ==
    ASSUME NEW u \in Updates, pc'[u] = pc[u], age'[u] = age[u],
           \A ch \in Channels : call'[<<u, ch>>] = "none" <=> call[<<u, ch>>] = "none"
    PROVE  Left(u)' = Left(u)
  <1>1. Running(u)' <=> Running(u)
    BY DEF Running, Ended
  <1>2. AboutToSend(u)' <=> AboutToSend(u)
    BY DEF AboutToSend, Sending, Current
  <1>3. Work(u)' = Work(u)
    BY <1>2 DEF Work
  <1> QED
    BY <1>1, <1>3 DEF Left

(* A handler that has ended has nothing left.                              *)
LEMMA EndedHasNothing ==
    ASSUME NEW u \in Updates, pc'[u] \in {"done", "cut"}
    PROVE  Left(u)' = 0
  BY DEF Left, Running, Ended

(* A step before the first request takes one, or all that is left.         *)
LEMMA EarlyStepSpends ==
    ASSUME Inv, NEW u \in Updates, Commit(u) \/ Refuse(u) \/ CommitFails(u) \/ Invalidate(u)
    PROVE  Left(u)' \in 0..(Left(u) - 1)
  <1>1. CASE Commit(u)
    <2>1. pc[u] = "transaction" /\ pc' = [pc EXCEPT ![u] = "caches"] /\ age' = age
      BY <1>1 DEF Commit, Goto, times
    <2>2. pc'[u] = "caches"
      BY <2>1, GotoFacts DEF Inv
    <2>3. Left(u)' = Deadline - age[u] + 5
      BY <2>1, <2>2 DEF Left, Work, Running, Ended
    <2>4. Left(u) = Deadline - age[u] + 6 /\ Deadline \in Nat /\ age[u] \in 0..Deadline
      BY <2>1, LeftFacts
    <2> QED
      BY <2>3, <2>4
  <1>2. CASE Refuse(u) \/ CommitFails(u)
    <2>1. pc[u] = "transaction" /\ pc' = [pc EXCEPT ![u] = "done"]
      BY <1>2 DEF Refuse, CommitFails, Answer, Goto
    <2>2. pc'[u] = "done"
      BY <2>1, GotoFacts DEF Inv
    <2>3. Left(u)' = 0
      BY <2>2, EndedHasNothing
    <2>4. Left(u) = Deadline - age[u] + 6 /\ Deadline \in Nat /\ age[u] \in 0..Deadline
      BY <2>1, LeftFacts
    <2> QED
      BY <2>3, <2>4
  <1>3. CASE Invalidate(u)
    <2>1. pc[u] = "caches" /\ pc' = [pc EXCEPT ![u] = "email"] /\ age' = age
      BY <1>3 DEF Invalidate, Goto
    <2>2. pc'[u] = "email"
      BY <2>1, GotoFacts DEF Inv
    <2>3. Left(u)' \in {Deadline - age[u] + 4, Deadline - age[u] + 3}
      BY <2>1, <2>2 DEF Left, Work, Running, Ended
    <2>4. Left(u) = Deadline - age[u] + 5 /\ Deadline \in Nat /\ age[u] \in 0..Deadline
      BY <2>1, LeftFacts
    <2> QED
      BY <2>3, <2>4
  <1> QED
    BY <1>1, <1>2, <1>3

(* So does the sending of a request.                                       *)
LEMMA SendSpends == ASSUME Inv, NEW u \in Updates, Send(u) PROVE Left(u)' \in 0..(Left(u) - 1)
  <1>1. Current(u) \in Requests /\ Current(u) = <<u, pc[u]>>
    BY CurrentIsRequest DEF Send, AboutToSend, Current
  <1>2. call[Current(u)] = "none" /\ call' = [call EXCEPT ![Current(u)] = "net"]
    BY SendCalls
  <1>3. call'[Current(u)] = "net"
    BY <1>1, <1>2 DEF Inv, Types
  <1>4. pc' = pc /\ age' = age
    BY DEF Send, handler, times
  <1>5. pc[u] \in {"email", "telegram"}
    BY DEF Send, AboutToSend, Sending, Channels
  <1>6. ~AboutToSend(u)'
    BY <1>3, <1>4 DEF AboutToSend, Current
  <1>7. Left(u)' = Deadline - age[u] + (IF pc[u] = "email" THEN 3 ELSE 1)
    BY <1>4, <1>5, <1>6 DEF Left, Work, Running, Ended
  <1>8. Left(u) = Deadline - age[u] + (IF pc[u] = "email" THEN 4 ELSE 2)
    BY <1>5, LeftFacts DEF Send
  <1>9. Deadline \in Nat /\ age[u] \in 0..Deadline
    BY LeftFacts
  <1> QED
    BY <1>7, <1>8, <1>9

(* And the end of a request, however it ends.                              *)
LEMMA ConclusionSpends == ASSUME Inv, NEW u \in Updates, Conclusion(u) PROVE Left(u)' \in 0..(Left(u) - 1)
  <1>1. PICK what \in {"ok", "failed"} : Conclude(u, what)
    BY DEF Conclusion
  <1>2. Sending(u)
    BY DEF Conclusion
  <1>3. /\ pc[u] = "email" => Label(u, "telegram", reply[u]) /\ UNCHANGED age
        /\ pc[u] = "telegram" => Label(u, "done", "ok")
        /\ pc[u] \in {"email", "telegram"}
    BY <1>1, <1>2, ConcludeFacts DEF Inv
  <1>4. CASE pc[u] = "email"
    <2>1. pc'[u] = "telegram" /\ age' = age
      BY <1>3, <1>4, LabelFacts DEF Inv
    <2>2. Left(u)' \in {Deadline - age[u] + 2, Deadline - age[u] + 1}
      BY <2>1 DEF Left, Work, Running, Ended
    <2>3. Left(u) \in {Deadline - age[u] + 4, Deadline - age[u] + 3}
      BY <1>4, LeftFacts
    <2>4. Deadline \in Nat /\ age[u] \in 0..Deadline
      BY LeftFacts
    <2> QED
      BY <2>2, <2>3, <2>4
  <1>5. CASE pc[u] = "telegram"
    <2>1. pc'[u] = "done"
      BY <1>3, <1>5, LabelFacts DEF Inv
    <2>2. Left(u)' = 0
      BY <2>1, EndedHasNothing
    <2>3. Left(u) \in {Deadline - age[u] + 2, Deadline - age[u] + 1}
      BY <1>5, LeftFacts
    <2>4. Deadline \in Nat /\ age[u] \in 0..Deadline
      BY LeftFacts
    <2> QED
      BY <2>2, <2>3, <2>4
  <1> QED
    BY <1>3, <1>4, <1>5

(* A second takes from every handler that runs, and from no other.         *)
LEMMA TickSpends ==
    ASSUME Inv, Tick, NEW u \in Updates
    PROVE  Left(u)' = IF Running(u) THEN Left(u) - 1 ELSE Left(u)
  <1>1. pc' = pc /\ call' = call /\ age'[u] = IF Running(u) THEN age[u] + 1 ELSE age[u]
    BY DEF Tick
  <1>2. CASE Running(u)
    <2>1. Running(u)' /\ Work(u)' = Work(u)
      BY <1>1, <1>2 DEF Running, Ended, Work, AboutToSend, Sending, Current
    <2>2. Left(u) = Deadline - age[u] + Work(u) /\ Left(u)' = Deadline - (age[u] + 1) + Work(u)
      BY <1>1, <1>2, <2>1 DEF Left
    <2>3. Work(u) \in {1, 2, 3, 4, 5, 6}
      BY <1>2, LeftFacts DEF Work
    <2>4. Deadline \in Nat /\ age[u] \in 0..Deadline
      BY LeftFacts
    <2> QED
      BY <1>2, <2>2, <2>3, <2>4
  <1>3. CASE ~Running(u)
    BY <1>1, <1>3, LeftFrame
  <1> QED
    BY <1>2, <1>3

(* A handler that begins has its deadline and its own steps before it.     *)
LEMMA BeginBudget == ASSUME Inv, NEW u \in Updates, Begin(u) PROVE Left(u)' \leq Deadline + 6
  <1>1. pc' = [pc EXCEPT ![u] = "transaction"] /\ age' = age
    BY DEF Begin, Goto, times
  <1>2. pc'[u] = "transaction"
    BY <1>1, GotoFacts DEF Inv
  <1>3. Left(u)' = Deadline - age[u] + 6
    BY <1>1, <1>2 DEF Left, Work, Running, Ended
  <1>4. Deadline \in Nat /\ age[u] \in 0..Deadline
    BY LeftFacts
  <1> QED
    BY <1>3, <1>4

(* The steps of one handler take nothing from the others.                  *)
LEMMA OthersKeepBudget ==
    ASSUME Inv, NEW u \in Updates, NEW v \in Updates, u # v, Begin(v) \/ Advance(v) \/ Broken(v)
    PROVE  Left(u)' = Left(u)
  <1>1. CASE Send(v)
    <2>1. call' = [call EXCEPT ![<<v, pc[v]>>] = "net"] /\ pc' = pc /\ age' = age
      BY <1>1, SendCalls DEF Send, Current, handler, times
    <2>2. \A ch \in Channels : <<u, ch>> \in Requests /\ <<u, ch>> # <<v, pc[v]>>
      BY DEF Requests
    <2>3. \A ch \in Channels : call'[<<u, ch>>] = call[<<u, ch>>]
      BY <2>1, <2>2 DEF Inv, Types
    <2> QED
      BY <2>1, <2>3, LeftFrame
  <1>2. CASE Begin(v) \/ Commit(v) \/ Refuse(v) \/ CommitFails(v) \/ Invalidate(v)
    <2>1. \E l : pc' = [pc EXCEPT ![v] = l]
      BY <1>2 DEF Begin, Commit, Refuse, CommitFails, Invalidate, Answer, Goto
    <2>2. pc'[u] = pc[u]
      BY <2>1, GotoFacts DEF Inv
    <2>3. age' = age \/ age' = [age EXCEPT ![v] = 0]
      BY <1>2 DEF Begin, Commit, Refuse, CommitFails, Invalidate, Answer, times
    <2>4. age'[u] = age[u]
      BY <2>3 DEF Inv, TimeInv, TimeTypes
    <2>5. call' = call
      BY <1>2 DEF Begin, Commit, Refuse, CommitFails, Invalidate
    <2> QED
      BY <2>2, <2>4, <2>5, LeftFrame
  <1>3. CASE Conclusion(v)
    <2>1. PICK what \in {"ok", "failed"} : Conclude(v, what)
      BY <1>3 DEF Conclusion
    <2>2. Sending(v) /\ call' = call
      BY <1>3 DEF Conclusion
    <2>3. \/ Label(v, "telegram", reply[v]) /\ age' = age
          \/ Label(v, "done", "ok") /\ age' = [age EXCEPT ![v] = 0]
      BY <2>1, <2>2, ConcludeFacts DEF Inv
    <2>4. pc'[u] = pc[u]
      BY <2>3, LabelFacts DEF Inv
    <2>5. age'[u] = age[u]
      BY <2>3 DEF Inv, TimeInv, TimeTypes
    <2> QED
      BY <2>2, <2>4, <2>5, LeftFrame
  <1> QED
    BY <1>1, <1>2, <1>3, Conclusions DEF Advance

(* Neither do the notification-service and the order-service.              *)
LEMMA ServiceKeepsBudget ==
    ASSUME Inv, NEW u \in Updates,
           \/ \E r \in Requests : Reserve(r) \/ ProviderTakes(r) \/ ProviderFails(r)
           \/ Restart
           \/ \E o \in Orders : AssignOrder(o)
    PROVE  Left(u)' = Left(u)
  <1>1. pc' = pc /\ age' = age
    BY DEF Reserve, ProviderTakes, ProviderFails, Restart, AssignOrder, handler, times
  <1>2. \A q \in Requests : call'[q] = "none" <=> call[q] = "none"
    <2>1. ASSUME NEW r \in Requests, Reserve(r) \/ ProviderTakes(r) \/ ProviderFails(r)
          PROVE  \A q \in Requests : call'[q] = "none" <=> call[q] = "none"
      <3>1. call[r] # "none"
        BY <2>1, ReserveCalls, ProviderTakesCalls, ProviderFailsCalls
      <3>2. \E place \in {"duplicate", "send", "taken", "failed"} : call' = [call EXCEPT ![r] = place]
        BY <2>1, ReserveCalls, ProviderTakesCalls, ProviderFailsCalls
      <3> QED
        BY <3>1, <3>2 DEF Inv, Types
    <2>2. CASE Restart
      BY <2>2, RestartCalls
    <2>3. CASE \E o \in Orders : AssignOrder(o)
      BY <2>3 DEF AssignOrder
    <2> QED
      BY <2>1, <2>2, <2>3
  <1>3. \A ch \in Channels : <<u, ch>> \in Requests
    BY DEF Requests
  <1> QED
    BY <1>1, <1>2, <1>3, LeftFrame

(* Every step does with the budgets what BudgetSpent says.                 *)
LEMMA StepBudget == ASSUME Inv, [Next]_vars PROVE BudgetSpent
  <1> SUFFICES ASSUME NEW u \in Updates
               PROVE  /\ Advance(u) \/ Broken(u) => Left(u)' < Left(u)
                      /\ Running(u) /\ (Tick \/ Crash) => Left(u)' < Left(u)
                      /\ Begin(u) => Left(u)' \leq Deadline + 6
                      /\ ~Begin(u) => Left(u)' \leq Left(u)
    BY DEF BudgetSpent
  <1>1. ASSUME Advance(u) \/ Broken(u) PROVE Left(u)' \in 0..(Left(u) - 1)
    BY <1>1, Conclusions, EarlyStepSpends, SendSpends, ConclusionSpends DEF Advance
  <1>2. Tick => IF Running(u) THEN Left(u)' = Left(u) - 1 ELSE Left(u)' = Left(u)
    BY TickSpends
  <1>3. ASSUME Crash PROVE IF Running(u) THEN Left(u)' = 0 ELSE Left(u)' = Left(u)
    <2>1. pc'[u] = IF Running(u) THEN "cut" ELSE pc[u]
      BY <1>3 DEF Crash
    <2>2. Running(u) => Left(u)' = 0
      BY <2>1, EndedHasNothing
    <2>3. ~Running(u) => ~Running(u)'
      BY <2>1 DEF Running, Ended
    <2> QED
      BY <2>2, <2>3, LeftFacts DEF Left
  <1>4. Left(u) \in Nat /\ (Left(u) = 0 <=> ~Running(u))
    BY LeftNat
  <1>5. ASSUME NEW v \in Updates, v # u, Begin(v) \/ Advance(v) \/ Broken(v) PROVE Left(u)' = Left(u)
    BY <1>5, OthersKeepBudget
  <1>6. UNCHANGED vars => Left(u)' = Left(u)
    <2> SUFFICES ASSUME UNCHANGED vars PROVE Left(u)' = Left(u)
      OBVIOUS
    <2>1. pc' = pc /\ age' = age /\ call' = call
      BY DEF vars, handler, times
    <2> QED
      BY <2>1, LeftFrame
  <1>7. ASSUME ~Begin(u) PROVE Left(u)' \leq Left(u)
    <2>1. \/ Advance(u) \/ Broken(u)
          \/ Tick \/ Crash \/ UNCHANGED vars
          \/ \E v \in Updates : v # u /\ (Begin(v) \/ Advance(v) \/ Broken(v))
          \/ \E r \in Requests : Reserve(r) \/ ProviderTakes(r) \/ ProviderFails(r)
          \/ Restart
          \/ \E o \in Orders : AssignOrder(o)
      BY <1>7 DEF Next
    <2>2. Left(u)' \in 0..(Left(u) - 1) \/ Left(u)' = Left(u) - 1 \/ Left(u)' = 0 \/ Left(u)' = Left(u)
      BY <1>1, <1>2, <1>3, <1>5, <1>6, <2>1, ServiceKeepsBudget
    <2> QED
      BY <1>4, <2>2
  <1> QED
    BY <1>1, <1>2, <1>3, <1>4, <1>7, BeginBudget

(* The core of HandlersEnd, for every number of calls and all limits: no   *)
(* handler takes more than Deadline + 6 steps and seconds together,        *)
(* whatever is lost, late or never answered.                               *)
THEOREM HandlersBounded ==
    Spec => [](\A u \in Updates : Left(u) \in Nat /\ (Left(u) = 0 <=> ~Running(u))) /\ [][BudgetSpent]_vars
  <1>1. Inv => \A u \in Updates : Left(u) \in Nat /\ (Left(u) = 0 <=> ~Running(u))
    BY LeftNat
  <1>2. Inv /\ [Next]_vars => [BudgetSpent]_vars
    BY StepBudget
  <1> QED
    BY <1>1, <1>2, DispatchInvariant, PTL DEF Spec


-----------------------------------------------------------------------------
(* The keys of the requests never change.                                  *)
LEMMA KeysStand ==
    ASSUME UNCHANGED target
    PROVE  UNCHANGED keys
  BY DEF keys, Key

(* Of what handlers do, the service sees the requests they send.           *)
LEMMA HandlerRefines ==
    ASSUME NEW u \in Updates, Begin(u) \/ Advance(u) \/ Broken(u)
    PROVE  Service!ServiceNext \/ UNCHANGED <<call, keys, reserved>>
  <1>1. CASE Send(u)
    BY <1>1, CurrentIsRequest DEF Send, AboutToSend, Service!ServiceNext
  <1>2. CASE Begin(u) \/ Commit(u) \/ Refuse(u) \/ CommitFails(u) \/ Invalidate(u)
    BY <1>2, KeysStand DEF Begin, Commit, Refuse, CommitFails, Invalidate, Answer, service
  <1>3. CASE Hear(u) \/ TimeUp(u) \/ Broken(u)
    BY <1>3, KeysStand DEF Hear, TimeUp, Broken, service
  <1> QED
    BY <1>1, <1>2, <1>3 DEF Advance

(* Every step is one of the service, or none.                              *)
LEMMA StepRefines == [Next]_vars => [Service!ServiceNext]_(Service!serviceVars)
  <1> SUFFICES ASSUME [Next]_vars
               PROVE  Service!ServiceNext \/ UNCHANGED <<call, keys, reserved>>
    BY DEF Service!serviceVars
  <1>1. ASSUME NEW r \in Requests, Reserve(r) \/ ProviderTakes(r) \/ ProviderFails(r)
        PROVE  Service!ServiceNext
    BY <1>1 DEF Reserve, ProviderTakes, ProviderFails, Service!ServiceNext
  <1>2. CASE Restart
    BY <1>2 DEF Restart, Service!ServiceNext
  <1>3. CASE Tick \/ Crash \/ UNCHANGED vars \/ \E o \in Orders : AssignOrder(o)
    BY <1>3, KeysStand DEF Tick, Crash, AssignOrder, vars, handler, service
  <1> QED
    BY <1>1, <1>2, <1>3, HandlerRefines DEF Next

(* UsesNotificationService: handlers that die, give up or run late never   *)
(* touch the service but by a new request, so StatusDispatch holds of      *)
(* every service that NotificationService allows, and Send is one of them  *)
(* (DedupImplementsService).                                               *)
THEOREM DispatchUsesService == Spec => UsesNotificationService
  <1>1. ASSUME Init PROVE Service!ServiceInit
    <2>1. \A r \in Requests : Key(r) \in Keys
      BY <1>1, InitInv, KeyIsKey DEF Inv
    <2> QED
      BY <1>1, <2>1 DEF Init, keys, Service!ServiceInit
  <1> QED
    BY <1>1, StepRefines, PTL DEF Spec, UsesNotificationService, Service!ServiceSpec
=============================================================================
