---------------------------- MODULE GatewayProofs ----------------------------
(***************************************************************************)
(* Proofs about Gateway, for any number of calls, orders and couriers.     *)
(* None of the properties speaks of where a call is, and none of them is   *)
(* inductive without it: CallInv adds what is known of a call at every     *)
(* place on its way, and what each outcome of a service says of the order  *)
(* for good, whatever other clients do to it afterwards.                   *)
(***************************************************************************)
EXTENDS Gateway, TLAPS

Places == {"client", "refused", "service", "handled", "lost"}

Answers == [status: {0, 200, 201, 400, 404, 405, 409, 500, 502, 504}, code: Codes]

(* The refusals of a service: the order was not touched. *)
Refusals == {"invalid", "rejected", "order_not_found", "courier_not_found", "already_assigned",
             "assignment_not_allowed", "transition_not_allowed"}

(* A call that no service has handled has had no effect; one that was      *)
(* forwarded has no flaw the gateway knows.                                *)
PlaceInv(p) ==
    /\ at[p] # "handled" => outcome[p] = "none" /\ p \notin applied
    /\ at[p] = "client" => answer[p] = NoAnswer
    /\ at[p] \notin {"client", "refused"} => call[p].flaw \notin GatewayChecks[call[p].route]

(* What an outcome says, at any later time. *)
OutcomeInv(p) ==
    /\ outcome[p] # "invalid"
    /\ outcome[p] \in Refusals => p \notin applied
    /\ outcome[p] = "created" => p \in applied
    /\ outcome[p] = "ok" => call[p].route # "create"
    /\ outcome[p] = "ok" /\ call[p].route \in {"assign", "update"} => p \in applied
    /\ outcome[p] = "existing" =>
            call[p].route = "create" /\ status[call[p].order] # NoOrder
    /\ outcome[p] \in {"already_assigned", "assignment_not_allowed"} =>
            status[call[p].order] \notin {NoOrder, "created"}
    /\ outcome[p] = "transition_not_allowed" => call[p].route = "update"

(* Where an answer comes from: nowhere yet, a check of the gateway, the    *)
(* failure of the connection, or the service.                              *)
AnswerInv(p) ==
    \/ answer[p] = NoAnswer
    \/ at[p] = "refused" /\ answer[p].status \in {400, 405}
    \/ answer[p].status \in {502, 504}
    \/ at[p] = "handled" /\ answer[p] = ToClient(Reply(outcome[p]))

CallInv == \A p \in Calls : PlaceInv(p) /\ OutcomeInv(p) /\ AnswerInv(p)

-----------------------------------------------------------------------------
(* What the request record of a call carries, by route. *)
LEMMA InputFacts ==
    ASSUME NEW c \in Inputs
    PROVE  /\ c.route \in Routes
           /\ c.flaw \in Flaws(c.route)
           /\ c.order \in Orders
           /\ c.route = "assign" => c.courier \in Couriers
           /\ c.next \in Statuses
  <1>1. PICK r \in Routes :
            c \in [route: {r}, flaw: Flaws(r), order: Orders,
                   courier: IF r = "assign" THEN Couriers ELSE {NoCourier},
                   next: IF r = "update" THEN Statuses ELSE {"assigned"}]
    BY Zenon DEF Inputs
  <1> QED
    BY <1>1 DEF Statuses

(* Every check of a service is one of the gateway's as well: the heart of  *)
(* AcceptedIsValid, and the fact that a check dropped from validation.go   *)
(* would break.                                                            *)
LEMMA GatewayIsStricter ==
    \A r \in Routes : ServiceChecks[r] \subseteq GatewayChecks[r]
  BY DEF Routes, ServiceChecks, GatewayChecks, CreateFlaws, LimitFlaws, BodyFlaws

(* Every answer of a service has a status of the list and a code. *)
LEMMA ReplyTyped ==
    ASSUME NEW o \in Outcomes
    PROVE  ToClient(Reply(o)) \in Answers /\ ToClient(Reply(o)).code # ""
  <1> USE DEF ToClient, Reply, ErrorCode, BusinessCode, StatusCode, Answers, Codes
  <1>1. CASE o \in {"ok", "existing", "created", "invalid"}
    BY <1>1
  <1>2. CASE o \in {"order_not_found", "courier_not_found", "already_assigned"}
    BY <1>2
  <1>3. CASE o \in {"assignment_not_allowed", "transition_not_allowed"}
    BY <1>3
  <1>4. CASE o \in {"none", "rejected", "error"}
    BY <1>4
  <1> QED
    BY <1>1, <1>2, <1>3, <1>4 DEF Outcomes

(* What a client can read from an answer of a service. *)
LEMMA ReplyFacts ==
    ASSUME NEW o \in Outcomes
    PROVE  /\ ToClient(Reply(o)).status \in {200, 201, 400, 404, 409, 500}
           /\ ToClient(Reply(o)).status = 200 => o \in {"ok", "existing"}
           /\ ToClient(Reply(o)).status = 201 => o = "created"
           /\ ToClient(Reply(o)).status = 400 => o = "invalid"
           /\ ToClient(Reply(o)).status \in {404, 409} => o \in Refusals
  <1> USE DEF ToClient, Reply, Refusals
  <1>1. CASE o \in {"ok", "existing", "created", "invalid"}
    BY <1>1
  <1>2. CASE o \in {"order_not_found", "courier_not_found", "already_assigned"}
    BY <1>2
  <1>3. CASE o \in {"assignment_not_allowed", "transition_not_allowed"}
    BY <1>3
  <1>4. CASE o \in {"none", "rejected", "error"}
    BY <1>4
  <1> QED
    BY <1>1, <1>2, <1>3, <1>4 DEF Outcomes

(* The five refusals the gateway has a code for. *)
LEMMA RefusalCodes ==
    ASSUME NEW o \in Outcomes, ToClient(Reply(o)).status \in {404, 409}
    PROVE  /\ o \in {"order_not_found", "courier_not_found", "already_assigned",
                     "assignment_not_allowed", "transition_not_allowed"}
           /\ o = "order_not_found" => ToClient(Reply(o)).code = "order_not_found"
           /\ o = "courier_not_found" => ToClient(Reply(o)).code = "courier_not_found"
           /\ o = "already_assigned" => ToClient(Reply(o)).code = "order_already_assigned"
           /\ o = "assignment_not_allowed" =>
                    ToClient(Reply(o)).code = "assignment_not_allowed"
           /\ o = "transition_not_allowed" =>
                    ToClient(Reply(o)).code = "status_transition_not_allowed"
  <1>1. o \in {"order_not_found", "courier_not_found", "already_assigned",
               "assignment_not_allowed", "transition_not_allowed"}
    BY DEF Outcomes, ToClient, Reply
  <1>2. /\ BusinessCode("order not found") = "order_not_found"
        /\ BusinessCode("courier not found") = "courier_not_found"
        /\ BusinessCode("order already assigned") = "order_already_assigned"
    BY DEF BusinessCode
  <1>3. /\ BusinessCode("assignment is not allowed for current order status")
              = "assignment_not_allowed"
        /\ BusinessCode("status transition is not allowed") = "status_transition_not_allowed"
    BY DEF BusinessCode
  <1>4. /\ o = "order_not_found" => Reply(o).message = "order not found"
        /\ o = "courier_not_found" => Reply(o).message = "courier not found"
        /\ o = "already_assigned" => Reply(o).message = "order already assigned"
        /\ o = "assignment_not_allowed" =>
              Reply(o).message = "assignment is not allowed for current order status"
        /\ o = "transition_not_allowed" =>
              Reply(o).message = "status transition is not allowed"
    BY DEF Reply
  <1> DEFINE r == Reply(o)
             a == ToClient(r)
  <1>5. r.status \in {404, 409}
    BY DEF ToClient
  <1>6. a.code = ErrorCode(r.status, r.message)
    <2> HIDE DEF r
    <2> QED
      BY <1>5 DEF ToClient
  <1>7. BusinessCode(r.message) # "" => a.code = BusinessCode(r.message)
    BY <1>6 DEF ErrorCode
  <1>8. BusinessCode(r.message) # ""
    BY <1>1, <1>2, <1>3, <1>4
  <1> HIDE DEF a
  <1>9. a.code = BusinessCode(r.message)
    BY <1>7, <1>8
  <1>10. o = "order_not_found" => a.code = "order_not_found"
    BY <1>2, <1>4, <1>9, Zenon
  <1>11. o = "courier_not_found" => a.code = "courier_not_found"
    BY <1>2, <1>4, <1>9, Zenon
  <1>12. o = "already_assigned" => a.code = "order_already_assigned"
    BY <1>2, <1>4, <1>9, Zenon
  <1>13. o = "assignment_not_allowed" => a.code = "assignment_not_allowed"
    BY <1>3, <1>4, <1>9, Zenon
  <1>14. o = "transition_not_allowed" => a.code = "status_transition_not_allowed"
    BY <1>3, <1>4, <1>9, Zenon
  <1> QED
    BY <1>1, <1>10, <1>11, <1>12, <1>13, <1>14, Zenon DEF a, r

(* 409 is the answer to these three refusals only. *)
LEMMA ConflictOutcomes ==
    ASSUME NEW o \in Outcomes, ToClient(Reply(o)).status = 409
    PROVE  o \in {"already_assigned", "assignment_not_allowed", "transition_not_allowed"}
  BY DEF Outcomes, ToClient, Reply

(* Why a service refuses: never as invalid when the gateway let it pass,   *)
(* and a refused assignment has seen an order past created.                *)
LEMMA RefusalFacts ==
    ASSUME NEW c \in Inputs, status \in [Orders -> Statuses \cup {NoOrder}],
           c.flaw \notin GatewayChecks[c.route], Refusal(c) # "none"
    PROVE  /\ Refusal(c) \in Refusals \ {"invalid"}
           /\ Refusal(c) \in {"already_assigned", "assignment_not_allowed"} =>
                    status[c.order] \notin {NoOrder, "created"}
           /\ Refusal(c) = "transition_not_allowed" => c.route = "update"
  <1>1. c.flaw \notin ServiceChecks[c.route]
    BY InputFacts, GatewayIsStricter
  <1>2. AssignRefusal(c) # "none" =>
            /\ AssignRefusal(c) \in {"order_not_found", "courier_not_found", "already_assigned",
                                     "assignment_not_allowed"}
            /\ AssignRefusal(c) \in {"already_assigned", "assignment_not_allowed"} =>
                    status[c.order] \notin {NoOrder, "created"}
    BY GatewayAssumption DEF AssignRefusal, Statuses
  <1>3. c.route \in Routes
    BY InputFacts
  <1> QED
    BY <1>1, <1>2, <1>3 DEF Refusal, Refusals, Routes

(* An order never disappears and never becomes created again. *)
Onward ==
    \A o \in Orders :
        /\ status[o] # NoOrder => status'[o] # NoOrder
        /\ status[o] \notin {NoOrder, "created"} => status'[o] \notin {NoOrder, "created"}

(* Each step of the lifecycle keeps the types and goes onward. *)
LEMMA LifecycleStep ==
    ASSUME status \in [Orders -> Statuses \cup {NoOrder}],
           courier \in [Orders -> Couriers \cup {NoCourier}],
           NEW o \in Orders,
           \/ Create(o)
           \/ \E c \in Couriers : Assign(o, c)
           \/ \E s \in Statuses : Move(o, s)
    PROVE  /\ status' \in [Orders -> Statuses \cup {NoOrder}]
           /\ courier' \in [Orders -> Couriers \cup {NoCourier}]
           /\ Onward
  <1>1. CASE Create(o)
    BY <1>1, GatewayAssumption DEF Create, Onward, Statuses
  <1>2. CASE \E c \in Couriers : Assign(o, c)
    BY <1>2, GatewayAssumption DEF Assign, Onward, Statuses
  <1>3. CASE \E s \in Statuses : Move(o, s)
    <2>1. PICK s \in Statuses : Move(o, s)
      BY <1>3
    <2>2. s # "created"
      BY <2>1 DEF Move, AllowedTransitions, Statuses
    <2> QED
      BY <2>1, <2>2, GatewayAssumption DEF Move, Onward
  <1> QED
    BY <1>1, <1>2, <1>3

-----------------------------------------------------------------------------
(* The parts of TypeOK that a step can disturb, without the answers' codes. *)
Types ==
    /\ status \in [Orders -> Statuses \cup {NoOrder}]
    /\ courier \in [Orders -> Couriers \cup {NoCourier}]
    /\ call \in [Calls -> Inputs]
    /\ at \in [Calls -> Places]
    /\ outcome \in [Calls -> Outcomes]
    /\ answer \in [Calls -> Answers]
    /\ \A p \in Calls : answer[p] # NoAnswer => answer[p].code # ""
    /\ applied \subseteq Calls

(* Types is TypeOK of the specification, in named sets. *)
LEMMA TypesIsTypeOK == Types <=> TypeOK
  BY DEF Types, TypeOK, Places, Answers

(* The four origins of an answer, of the next state. *)
LEMMA AnswerComesFrom ==
    ASSUME NEW q \in Calls,
           \/ answer'[q] = NoAnswer
           \/ at'[q] = "refused" /\ answer'[q].status \in {400, 405}
           \/ answer'[q].status = 502
           \/ answer'[q].status = 504
           \/ at'[q] = "handled" /\ answer'[q] = ToClient(Reply(outcome'[q]))
    PROVE  AnswerInv(q)'
  BY DEF AnswerInv

(* An answer stands while the call and its outcome do. *)
LEMMA AnswerStands ==
    ASSUME NEW q \in Calls, AnswerInv(q),
           at'[q] = at[q], outcome'[q] = outcome[q], answer'[q] = answer[q]
    PROVE  AnswerInv(q)'
  BY DEF AnswerInv

(* An outcome says the same as long as the order only moves onward. *)
LEMMA OutcomeStands ==
    ASSUME NEW q \in Calls, OutcomeInv(q),
           outcome'[q] = outcome[q], call'[q] = call[q], q \in applied' <=> q \in applied,
           status[call[q].order] # NoOrder => status'[call[q].order] # NoOrder,
           status[call[q].order] \notin {NoOrder, "created"} =>
                status'[call[q].order] \notin {NoOrder, "created"}
    PROVE  OutcomeInv(q)'
  BY DEF OutcomeInv, Refusals

(* A step about the call p leaves the other calls alone. *)
OnlyCall(p) ==
    \A q \in Calls \ {p} :
        /\ at'[q] = at[q] /\ outcome'[q] = outcome[q] /\ answer'[q] = answer[q]
        /\ q \in applied' <=> q \in applied

CallTypes ==
    /\ at' \in [Calls -> Places]
    /\ outcome' \in [Calls -> Outcomes]
    /\ answer' \in [Calls -> Answers]
    /\ applied' \subseteq Calls
    /\ call' = call

OrderTypes ==
    /\ status' \in [Orders -> Statuses \cup {NoOrder}]
    /\ courier' \in [Orders -> Couriers \cup {NoCourier}]
    /\ Onward

(* For such a step, if it takes the orders only onward, the invariant is   *)
(* to be shown for p alone.                                                *)
LEMMA OneCall ==
    ASSUME Types, CallInv, NEW p \in Calls, CallTypes, OnlyCall(p), OrderTypes,
           answer'[p] # NoAnswer => answer'[p].code # "",
           PlaceInv(p)', OutcomeInv(p)', AnswerInv(p)'
    PROVE  Types' /\ CallInv'
  <1>1. ASSUME NEW q \in Calls, q # p
        PROVE  /\ at'[q] = at[q] /\ outcome'[q] = outcome[q] /\ answer'[q] = answer[q]
               /\ q \in applied' <=> q \in applied
    BY <1>1 DEF OnlyCall
  <1>2. NoAnswer' = NoAnswer
    BY DEF NoAnswer
  <1>3. \A q \in Calls : answer'[q] # NoAnswer => answer'[q].code # ""
    BY <1>1 DEF Types
  <1>4. Types'
    BY <1>2, <1>3 DEF Types, CallTypes, OrderTypes
  <1>5. ASSUME NEW q \in Calls, q # p
        PROVE  PlaceInv(q)' /\ OutcomeInv(q)' /\ AnswerInv(q)'
    <2>1. call'[q] = call[q] /\ call[q].order \in Orders
      BY InputFacts DEF Types, CallTypes
    <2>2. /\ status[call[q].order] # NoOrder => status'[call[q].order] # NoOrder
          /\ status[call[q].order] \notin {NoOrder, "created"} =>
                status'[call[q].order] \notin {NoOrder, "created"}
      BY <2>1 DEF Onward, OrderTypes
    <2>3. PlaceInv(q) /\ OutcomeInv(q) /\ AnswerInv(q)
      BY DEF CallInv
    <2>4. /\ at'[q] = at[q] /\ outcome'[q] = outcome[q] /\ answer'[q] = answer[q]
          /\ q \in applied' <=> q \in applied
      BY <1>1, <1>5
    <2>5. PlaceInv(q)'
      BY <1>2, <2>1, <2>3, <2>4 DEF PlaceInv
    <2>6. OutcomeInv(q)'
      BY <2>1, <2>2, <2>3, <2>4, OutcomeStands
    <2>7. AnswerInv(q)'
      BY <2>3, <2>4, AnswerStands
    <2> QED
      BY <2>5, <2>6, <2>7
  <1> QED
    BY <1>4, <1>5 DEF CallInv

(* A step that leaves the orders alone. *)
LEMMA OrdersStand ==
    ASSUME Types, UNCHANGED <<status, courier>>
    PROVE  OrderTypes
  BY DEF Types, OrderTypes, Onward

(* What the updates of a call's place, answer and outcome leave. *)
LEMMA Moved ==
    ASSUME Types, NEW p \in Calls, NEW place \in Places, Goto(p, place)
    PROVE  /\ at' \in [Calls -> Places]
           /\ at'[p] = place
           /\ \A q \in Calls \ {p} : at'[q] = at[q]
  BY DEF Types, Goto

(* The same for an answer written as a whole... *)
LEMMA Answered ==
    ASSUME Types, NEW p \in Calls, NEW a \in Answers, answer' = [answer EXCEPT ![p] = a]
    PROVE  /\ answer' \in [Calls -> Answers]
           /\ answer'[p] = a
           /\ \A q \in Calls \ {p} : answer'[q] = answer[q]
  <1>1. answer \in [Calls -> Answers]
    BY DEF Types
  <1> QED
    BY <1>1

(* ... and for one given by its status and code. *)
LEMMA Responded ==
    ASSUME Types, NEW p \in Calls, NEW s, NEW k,
           [status |-> s, code |-> k] \in Answers, Respond(p, s, k)
    PROVE  /\ answer' \in [Calls -> Answers]
           /\ answer'[p].status = s
           /\ answer'[p].code = k
           /\ \A q \in Calls \ {p} : answer'[q] = answer[q]
  <1>1. PICK a \in Answers : a = [status |-> s, code |-> k]
    BY Zenon
  <1>2. a.status = s /\ a.code = k
    BY <1>1
  <1>3. answer' = [answer EXCEPT ![p] = a]
    BY <1>1 DEF Respond
  <1>4. /\ answer' \in [Calls -> Answers]
        /\ answer'[p] = a
        /\ \A q \in Calls \ {p} : answer'[q] = answer[q]
    BY <1>3, Answered, Zenon
  <1> QED
    BY <1>2, <1>4, Zenon

(* Refused by the gateway: the call has gone no further and never will. *)
LEMMA RefuseKeeps ==
    ASSUME Types, CallInv, NEW p \in Calls, Refuse(p)
    PROVE  Types' /\ CallInv'
  <1>1. /\ answer' \in [Calls -> Answers]
        /\ answer'[p].status \in {400, 405}
        /\ answer'[p].code # ""
        /\ \A q \in Calls \ {p} : answer'[q] = answer[q]
    <2>1. /\ [status |-> 405, code |-> "method_not_allowed"] \in Answers
          /\ [status |-> 400, code |-> "validation_error"] \in Answers
      BY DEF Answers, Codes
    <2>2. CASE Respond(p, 405, "method_not_allowed")
      <3>1. /\ answer' \in [Calls -> Answers]
            /\ answer'[p].status = 405
            /\ answer'[p].code = "method_not_allowed"
            /\ \A q \in Calls \ {p} : answer'[q] = answer[q]
        BY <2>1, <2>2, Responded, Zenon
      <3>2. answer'[p].status \in {400, 405} /\ answer'[p].code # ""
        BY <3>1
      <3> QED
        BY <3>1, <3>2, Zenon
    <2>3. CASE Respond(p, 400, "validation_error")
      <3>1. /\ answer' \in [Calls -> Answers]
            /\ answer'[p].status = 400
            /\ answer'[p].code = "validation_error"
            /\ \A q \in Calls \ {p} : answer'[q] = answer[q]
        BY <2>1, <2>3, Responded, Zenon
      <3>2. answer'[p].status \in {400, 405} /\ answer'[p].code # ""
        BY <3>1
      <3> QED
        BY <3>1, <3>2, Zenon
    <2> QED
      BY <2>2, <2>3 DEF Refuse
  <1>2. /\ at' \in [Calls -> Places]
        /\ at'[p] = "refused"
        /\ \A q \in Calls \ {p} : at'[q] = at[q]
    BY Moved DEF Refuse, Places
  <1>3. outcome' = outcome /\ applied' = applied /\ call' = call /\ UNCHANGED <<status, courier>>
    BY DEF Refuse
  <1>4. at[p] = "client" /\ outcome[p] = "none" /\ p \notin applied
    BY DEF Refuse, CallInv, PlaceInv
  <1>5. CallTypes /\ OnlyCall(p)
    BY <1>1, <1>2, <1>3 DEF CallTypes, OnlyCall, Types
  <1>6. PlaceInv(p)'
    BY <1>2, <1>3, <1>4 DEF PlaceInv
  <1>7. OutcomeInv(p)'
    BY <1>3, <1>4 DEF OutcomeInv, Refusals
  <1>8. AnswerInv(p)'
    BY <1>1, <1>2, AnswerComesFrom
  <1>9. OrderTypes
    BY <1>3, OrdersStand
  <1> QED
    BY <1>1, <1>5, <1>6, <1>7, <1>8, <1>9, OneCall

(* A forwarded call has no flaw the gateway knows. *)
LEMMA ForwardKeeps ==
    ASSUME Types, CallInv, NEW p \in Calls, Forward(p)
    PROVE  Types' /\ CallInv'
  <1>1. /\ at' \in [Calls -> Places]
        /\ at'[p] = "service"
        /\ \A q \in Calls \ {p} : at'[q] = at[q]
    BY Moved DEF Forward, Places
  <1>2. /\ outcome' = outcome /\ answer' = answer /\ applied' = applied /\ call' = call
        /\ UNCHANGED <<status, courier>>
    BY DEF Forward
  <1>3. /\ outcome[p] = "none" /\ p \notin applied /\ answer[p] = NoAnswer
        /\ call[p].flaw \notin GatewayChecks[call[p].route]
    BY DEF Forward, CallInv, PlaceInv
  <1>4. CallTypes /\ OnlyCall(p)
    BY <1>1, <1>2 DEF CallTypes, OnlyCall, Types
  <1>5. PlaceInv(p)'
    BY <1>1, <1>2, <1>3 DEF PlaceInv
  <1>6. OutcomeInv(p)'
    BY <1>2, <1>3 DEF OutcomeInv, Refusals
  <1>7. AnswerInv(p)'
    BY <1>2, <1>3, AnswerComesFrom
  <1>8. OrderTypes
    BY <1>2, OrdersStand
  <1> QED
    BY <1>2, <1>3, <1>4, <1>5, <1>6, <1>7, <1>8, OneCall

(* The answer delivered is the reply to the call's own outcome. *)
LEMMA DeliverKeeps ==
    ASSUME Types, CallInv, NEW p \in Calls, Deliver(p)
    PROVE  Types' /\ CallInv'
  <1>1. outcome[p] \in Outcomes
    BY DEF Types
  <1>2. ToClient(Reply(outcome[p])) \in Answers /\ ToClient(Reply(outcome[p])).code # ""
    BY <1>1, ReplyTyped, Zenon
  <1>3. answer' = [answer EXCEPT ![p] = ToClient(Reply(outcome[p]))]
    BY DEF Deliver
  <1>4. /\ answer' \in [Calls -> Answers]
        /\ answer'[p] = ToClient(Reply(outcome[p]))
        /\ \A q \in Calls \ {p} : answer'[q] = answer[q]
    BY <1>2, <1>3, Answered, Zenon
  <1>5. /\ at' = at /\ outcome' = outcome /\ applied' = applied /\ call' = call
        /\ UNCHANGED <<status, courier>>
    BY DEF Deliver
  <1>6. at[p] = "handled" /\ PlaceInv(p) /\ OutcomeInv(p)
    BY DEF Deliver, CallInv
  <1>7. CallTypes /\ OnlyCall(p)
    BY <1>4, <1>5 DEF CallTypes, OnlyCall, Types
  <1>8. PlaceInv(p)'
    BY <1>5, <1>6 DEF PlaceInv
  <1>9. OutcomeInv(p)'
    BY <1>5, <1>6 DEF OutcomeInv, Refusals
  <1>10. AnswerInv(p)'
    BY <1>4, <1>5, <1>6, AnswerComesFrom, Zenon
  <1>11. OrderTypes
    BY <1>5, OrdersStand
  <1>12. answer'[p].code # ""
    BY <1>2, <1>4, Zenon
  <1> QED
    BY <1>7, <1>8, <1>9, <1>10, <1>11, <1>12, OneCall, Zenon

(* A call timed out stays where it is: its outcome may still come. *)
LEMMA TimeOutKeeps ==
    ASSUME Types, CallInv, NEW p \in Calls, TimeOut(p)
    PROVE  Types' /\ CallInv'
  <1>1. [status |-> 504, code |-> "gateway_timeout"] \in Answers
    BY DEF Answers, Codes
  <1>2. Respond(p, 504, "gateway_timeout")
    BY DEF TimeOut
  <1>3. /\ answer' \in [Calls -> Answers]
        /\ answer'[p].status = 504
        /\ answer'[p].code = "gateway_timeout"
        /\ \A q \in Calls \ {p} : answer'[q] = answer[q]
    BY <1>1, <1>2, Responded, Zenon
  <1>4. /\ at' = at /\ outcome' = outcome /\ applied' = applied /\ call' = call
        /\ UNCHANGED <<status, courier>>
    BY DEF TimeOut
  <1>5. at[p] \in {"service", "handled"} /\ PlaceInv(p) /\ OutcomeInv(p)
    BY DEF TimeOut, CallInv
  <1>6. CallTypes /\ OnlyCall(p)
    BY <1>3, <1>4 DEF CallTypes, OnlyCall, Types
  <1>7. PlaceInv(p)'
    BY <1>4, <1>5 DEF PlaceInv
  <1>8. OutcomeInv(p)'
    BY <1>4, <1>5 DEF OutcomeInv, Refusals
  <1>9. answer'[p].code # ""
    BY <1>3
  <1>10. AnswerInv(p)'
    BY <1>3, AnswerComesFrom, Zenon
  <1>11. OrderTypes
    BY <1>4, OrdersStand
  <1> QED
    BY <1>6, <1>7, <1>8, <1>9, <1>10, <1>11, OneCall, Zenon

(* A call whose connection broke is lost or stays with the service. *)
LEMMA UnavailableKeeps ==
    ASSUME Types, CallInv, NEW p \in Calls, Unavailable(p)
    PROVE  Types' /\ CallInv'
  <1>1. [status |-> 502, code |-> "upstream_unavailable"] \in Answers
    BY DEF Answers, Codes
  <1>2. Respond(p, 502, "upstream_unavailable")
    BY DEF Unavailable
  <1>3. /\ answer' \in [Calls -> Answers]
        /\ answer'[p].status = 502
        /\ answer'[p].code = "upstream_unavailable"
        /\ \A q \in Calls \ {p} : answer'[q] = answer[q]
    BY <1>1, <1>2, Responded, Zenon
  <1>4. /\ outcome' = outcome /\ applied' = applied /\ call' = call
        /\ UNCHANGED <<status, courier>>
    BY DEF Unavailable
  <1>5. at[p] \in {"service", "handled"} /\ PlaceInv(p) /\ OutcomeInv(p)
    BY DEF Unavailable, CallInv
  <1>6. /\ at' \in [Calls -> Places]
        /\ at'[p] = at[p] \/ (at[p] = "service" /\ at'[p] = "lost")
        /\ \A q \in Calls \ {p} : at'[q] = at[q]
    <2>1. at' = at \/ (at[p] = "service" /\ at' = [at EXCEPT ![p] = "lost"])
      BY <1>5 DEF Unavailable
    <2>2. at \in [Calls -> Places] /\ "lost" \in Places
      BY DEF Types, Places
    <2> QED
      BY <2>1, <2>2
  <1>7. CallTypes /\ OnlyCall(p)
    BY <1>3, <1>4, <1>6 DEF CallTypes, OnlyCall, Types
  <1>8. PlaceInv(p)'
    BY <1>4, <1>5, <1>6 DEF PlaceInv
  <1>9. OutcomeInv(p)'
    BY <1>4, <1>5 DEF OutcomeInv, Refusals
  <1>10. answer'[p].code # ""
    BY <1>3
  <1>11. AnswerInv(p)'
    BY <1>3, AnswerComesFrom, Zenon
  <1>12. OrderTypes
    BY <1>4, OrdersStand
  <1> QED
    BY <1>7, <1>8, <1>9, <1>10, <1>11, <1>12, OneCall, Zenon

(* Other clients move orders onward, and outcomes stay true of them. *)
LEMMA OthersKeeps ==
    ASSUME Types, CallInv, Others
    PROVE  Types' /\ CallInv'
  <1>1. PICK o \in Orders :
            \/ Create(o)
            \/ \E c \in Couriers : Assign(o, c)
            \/ \E s \in Statuses : Move(o, s)
    BY DEF Others, LifecycleNext
  <1>2. OrderTypes
    BY <1>1, LifecycleStep DEF Types, OrderTypes
  <1>3. call' = call /\ at' = at /\ outcome' = outcome /\ answer' = answer /\ applied' = applied
    BY DEF Others
  <1>4. NoAnswer' = NoAnswer
    BY DEF NoAnswer
  <1>5. Types'
    BY <1>2, <1>3, <1>4 DEF Types, OrderTypes
  <1>6. ASSUME NEW q \in Calls PROVE PlaceInv(q)' /\ OutcomeInv(q)' /\ AnswerInv(q)'
    <2>1. PlaceInv(q) /\ OutcomeInv(q) /\ AnswerInv(q) /\ call[q].order \in Orders
      BY InputFacts DEF CallInv, Types
    <2>2. /\ status[call[q].order] # NoOrder => status'[call[q].order] # NoOrder
          /\ status[call[q].order] \notin {NoOrder, "created"} =>
                status'[call[q].order] \notin {NoOrder, "created"}
      BY <1>2, <2>1 DEF OrderTypes, Onward
    <2>3. PlaceInv(q)'
      BY <1>3, <1>4, <2>1 DEF PlaceInv
    <2>4. OutcomeInv(q)'
      BY <1>3, <2>1, <2>2, OutcomeStands
    <2>5. AnswerInv(q)'
      BY <1>3, <2>1, AnswerStands
    <2> QED
      BY <2>3, <2>4, <2>5
  <1> QED
    BY <1>5, <1>6 DEF CallInv

(* The service has finished with a call that was with it: what is left to  *)
(* show is what the outcome says.                                          *)
LEMMA HandleKeeps ==
    ASSUME Types, CallInv, NEW p \in Calls, NEW o \in Outcomes,
           at[p] = "service", Finish(p, o),
           call' = call, answer' = answer, applied' \in {applied, applied \cup {p}},
           OrderTypes, outcome'[p] = o => OutcomeInv(p)'
    PROVE  Types' /\ CallInv'
  <1>1. /\ at' \in [Calls -> Places]
        /\ at'[p] = "handled"
        /\ \A q \in Calls \ {p} : at'[q] = at[q]
    BY Moved DEF Finish, Places
  <1>2. /\ outcome' \in [Calls -> Outcomes]
        /\ outcome'[p] = o
        /\ \A q \in Calls \ {p} : outcome'[q] = outcome[q]
    BY DEF Finish, Types
  <1>3. applied' \subseteq Calls /\ \A q \in Calls \ {p} : q \in applied' <=> q \in applied
    BY DEF Types
  <1>4. CallTypes /\ OnlyCall(p)
    BY <1>1, <1>2, <1>3 DEF CallTypes, OnlyCall, Types
  <1>5. PlaceInv(p) /\ AnswerInv(p)
    BY DEF CallInv
  <1>6. PlaceInv(p)'
    BY <1>1, <1>5 DEF PlaceInv
  <1>7. answer[p] = NoAnswer \/ answer[p].status = 502 \/ answer[p].status = 504
    BY <1>5 DEF AnswerInv
  <1>8. AnswerInv(p)'
    BY <1>7, AnswerComesFrom, Zenon
  <1>9. answer'[p] # NoAnswer => answer'[p].code # ""
    BY DEF Types
  <1> QED
    BY <1>2, <1>4, <1>6, <1>8, <1>9, OneCall, Zenon

(* A refusal says what the order was, and that it is past being created. *)
LEMMA HandleRefusedKeeps ==
    ASSUME Types, CallInv, NEW p \in Calls, HandleRefused(p)
    PROVE  Types' /\ CallInv'
  <1> DEFINE o == Refusal(call[p])
  <1>1. at[p] = "service" /\ o # "none" /\ Finish(p, o)
    BY DEF HandleRefused
  <1>2. call' = call /\ answer' = answer /\ applied' = applied /\ UNCHANGED <<status, courier>>
    BY DEF HandleRefused
  <1>3. /\ p \notin applied
        /\ call[p].flaw \notin GatewayChecks[call[p].route]
        /\ call[p] \in Inputs
    BY <1>1 DEF CallInv, PlaceInv, Types
  <1>4. /\ o \in Refusals \ {"invalid"}
        /\ o \in {"already_assigned", "assignment_not_allowed"} =>
                status[call[p].order] \notin {NoOrder, "created"}
        /\ o = "transition_not_allowed" => call[p].route = "update"
    BY <1>1, <1>3, RefusalFacts DEF Types
  <1> HIDE DEF o
  <1>5. ASSUME outcome'[p] = o PROVE OutcomeInv(p)'
    BY <1>2, <1>3, <1>4, <1>5 DEF OutcomeInv, Refusals
  <1>6. OrderTypes
    BY <1>2, OrdersStand
  <1>7. o \in Outcomes
    BY <1>4 DEF Refusals, Outcomes
  <1> QED
    BY <1>1, <1>2, <1>5, <1>6, <1>7, HandleKeeps

(* A call that took effect is in applied, whatever it is answered. *)
LEMMA HandleAppliedKeeps ==
    ASSUME Types, CallInv, NEW p \in Calls, NEW o \in Outcomes, HandleApplied(p, o)
    PROVE  Types' /\ CallInv'
  <1>1. at[p] = "service" /\ Finish(p, o) /\ Effect(call[p])
    BY DEF HandleApplied
  <1>2. call' = call /\ answer' = answer /\ applied' = applied \cup {p}
    BY DEF HandleApplied
  <1>3. o \in {IF call[p].route = "create" THEN "created" ELSE "ok", "error"}
    BY DEF HandleApplied
  <1>4. /\ call[p].order \in Orders
        /\ call[p].route = "assign" => call[p].courier \in Couriers
        /\ call[p].next \in Statuses
    BY InputFacts DEF Types
  <1>5. \/ Create(call[p].order)
        \/ call[p].route = "assign" /\ Assign(call[p].order, call[p].courier)
        \/ Move(call[p].order, call[p].next)
    BY <1>1 DEF Effect
  <1>6. OrderTypes
    BY <1>4, <1>5, LifecycleStep DEF Types, OrderTypes
  <1>7. ASSUME outcome'[p] = o PROVE OutcomeInv(p)'
    BY <1>2, <1>3, <1>7 DEF OutcomeInv, Refusals
  <1> QED
    BY <1>1, <1>2, <1>6, <1>7, HandleKeeps

(* A replayed creation has found the order. *)
LEMMA HandleReadKeeps ==
    ASSUME Types, CallInv, NEW p \in Calls, HandleRead(p)
    PROVE  Types' /\ CallInv'
  <1>1. PICK o \in {"existing", "ok"} :
            /\ Finish(p, o)
            /\ o = "existing" <=> call[p].route = "create"
    BY DEF HandleRead
  <1>2. at[p] = "service" /\ ~Changes(call[p])
    BY DEF HandleRead
  <1>3. call' = call /\ answer' = answer /\ applied' = applied /\ UNCHANGED <<status, courier>>
    BY DEF HandleRead
  <1>4. ASSUME outcome'[p] = o PROVE OutcomeInv(p)'
    BY <1>1, <1>2, <1>3, <1>4 DEF OutcomeInv, Refusals, Changes
  <1>5. OrderTypes
    BY <1>3, OrdersStand
  <1>6. o \in Outcomes
    BY DEF Outcomes
  <1> QED
    BY <1>1, <1>2, <1>3, <1>4, <1>5, <1>6, HandleKeeps

(* An error says nothing. *)
LEMMA HandleFailsKeeps ==
    ASSUME Types, CallInv, NEW p \in Calls, HandleFails(p)
    PROVE  Types' /\ CallInv'
  <1>1. at[p] = "service" /\ Finish(p, "error")
    BY DEF HandleFails
  <1>2. call' = call /\ answer' = answer /\ applied' = applied /\ UNCHANGED <<status, courier>>
    BY DEF HandleFails
  <1>3. ASSUME outcome'[p] = "error" PROVE OutcomeInv(p)'
    BY <1>3 DEF OutcomeInv, Refusals
  <1>4. OrderTypes
    BY <1>2, OrdersStand
  <1>5. "error" \in Outcomes
    BY DEF Outcomes
  <1> QED
    BY <1>1, <1>2, <1>3, <1>4, <1>5, HandleKeeps

-----------------------------------------------------------------------------
(* No call has left its client. *)
LEMMA InitKeeps ==
    ASSUME Init
    PROVE  Types /\ CallInv
  <1>1. NoAnswer \in Answers
    BY DEF NoAnswer, Answers, Codes
  <1>2. Types
    BY <1>1 DEF Init, LifecycleInit, Types, Places, Outcomes
  <1>3. ASSUME NEW p \in Calls PROVE PlaceInv(p) /\ OutcomeInv(p) /\ AnswerInv(p)
    BY DEF Init, PlaceInv, OutcomeInv, AnswerInv, Refusals
  <1> QED
    BY <1>2, <1>3 DEF CallInv

(* Every step of the specification keeps the invariant. *)
LEMMA StepKeeps ==
    ASSUME Types, CallInv, [Next]_vars
    PROVE  Types' /\ CallInv'
  <1>1. CASE UNCHANGED vars
    <2>1. NoAnswer' = NoAnswer
      BY DEF NoAnswer
    <2>2. Types'
      BY <1>1, <2>1 DEF Types, vars
    <2>3. ASSUME NEW q \in Calls PROVE PlaceInv(q)' /\ OutcomeInv(q)' /\ AnswerInv(q)'
      <3>1. PlaceInv(q) /\ OutcomeInv(q) /\ AnswerInv(q)
        BY DEF CallInv
      <3>2. PlaceInv(q)'
        BY <1>1, <2>1, <3>1 DEF PlaceInv, vars
      <3>3. OutcomeInv(q)'
        BY <1>1, <3>1, OutcomeStands DEF vars
      <3>4. AnswerInv(q)'
        BY <1>1, <3>1, AnswerStands DEF vars
      <3> QED
        BY <3>2, <3>3, <3>4
    <2> QED
      BY <2>2, <2>3 DEF CallInv
  <1>2. CASE Others
    BY <1>2, OthersKeeps
  <1>3. ASSUME NEW p \in Calls, Advance(p) PROVE Types' /\ CallInv'
    BY <1>3, RefuseKeeps, ForwardKeeps, DeliverKeeps, TimeOutKeeps DEF Advance
  <1>4. ASSUME NEW p \in Calls, HandleRefused(p) PROVE Types' /\ CallInv'
    BY <1>4, HandleRefusedKeeps
  <1>5. ASSUME NEW p \in Calls, NEW o \in Outcomes, HandleApplied(p, o) PROVE Types' /\ CallInv'
    BY <1>5, HandleAppliedKeeps
  <1>6. ASSUME NEW p \in Calls, HandleRead(p) PROVE Types' /\ CallInv'
    BY <1>6, HandleReadKeeps
  <1>7. ASSUME NEW p \in Calls, HandleFails(p) PROVE Types' /\ CallInv'
    BY <1>7, HandleFailsKeeps
  <1>8. ASSUME NEW p \in Calls, Unavailable(p) PROVE Types' /\ CallInv'
    BY <1>8, UnavailableKeeps
  <1> QED
    BY <1>1, <1>2, <1>3, <1>4, <1>5, <1>6, <1>7, <1>8 DEF Next

(* The invariant holds in every reachable state. *)
THEOREM GatewayInvariant == Spec => [](Types /\ CallInv)
  <1>1. Init => Types /\ CallInv
    BY InitKeeps
  <1>2. (Types /\ CallInv) /\ [Next]_vars => (Types /\ CallInv)'
    BY StepKeeps
  <1> QED
    BY <1>1, <1>2, PTL DEF Spec

(* Calls, orders and answers are well typed, and every answer has a code. *)
THEOREM GatewayTyped == Spec => []TypeOK
  <1>1. Types => TypeOK
    BY TypesIsTypeOK
  <1> QED
    BY <1>1, GatewayInvariant, PTL

(* No request the gateway forwards is refused as invalid by a service,     *)
(* whatever the orders, couriers and other clients.                        *)
THEOREM ValidationAgrees == Spec => []AcceptedIsValid
  <1>1. CallInv => AcceptedIsValid
    BY DEF CallInv, OutcomeInv, AcceptedIsValid
  <1> QED
    BY <1>1, GatewayInvariant, PTL

(* The parts of the invariant, for one call. *)
LEMMA CallFacts ==
    ASSUME Types, CallInv, NEW p \in Calls
    PROVE  PlaceInv(p) /\ OutcomeInv(p) /\ AnswerInv(p) /\ outcome[p] \in Outcomes
  BY DEF CallInv, Types

(* Which statuses only a service can have answered. *)
LEMMA ServiceAnswered ==
    ASSUME NEW p \in Calls, AnswerInv(p),
           NEW s, answer[p].status = s, s \in {200, 201, 404, 409}
    PROVE  at[p] = "handled" /\ answer[p] = ToClient(Reply(outcome[p]))
  <1>1. answer[p] # NoAnswer
    <2>1. NoAnswer.status = 0
      BY DEF NoAnswer
    <2>2. s # 0
      OBVIOUS
    <2> QED
      BY <2>1, <2>2, Zenon
  <1>2. answer[p].status \notin {400, 405} /\ answer[p].status \notin {502, 504}
    OBVIOUS
  <1> QED
    BY <1>1, <1>2, Zenon DEF AnswerInv

(* An answer from 400 to 499 comes from the gateway's checks or from a     *)
(* refusal of the service.                                                 *)
LEMMA ClientErrorOrigin ==
    ASSUME NEW p \in Calls, PlaceInv(p), OutcomeInv(p), AnswerInv(p), outcome[p] \in Outcomes,
           NEW s, answer[p].status = s, s \in 400..499
    PROVE  p \notin applied /\ at[p] # "service"
  <1>1. answer[p] # NoAnswer
    <2>1. NoAnswer.status = 0
      BY DEF NoAnswer
    <2>2. s # 0
      OBVIOUS
    <2> QED
      BY <2>1, <2>2, Zenon
  <1>2. answer[p].status \notin {502, 504}
    OBVIOUS
  <1>3. CASE at[p] = "refused"
    BY <1>3 DEF PlaceInv
  <1>4. CASE at[p] = "handled" /\ answer[p] = ToClient(Reply(outcome[p]))
    <2>1. outcome[p] \in Refusals
      BY <1>4, ReplyFacts DEF Refusals
    <2> QED
      BY <1>4, <2>1 DEF OutcomeInv
  <1> QED
    BY <1>1, <1>2, <1>3, <1>4, Zenon DEF AnswerInv

(* The successes, by route. *)
LEMMA SuccessOrigin ==
    ASSUME NEW p \in Calls, OutcomeInv(p), outcome[p] \in Outcomes,
           answer[p] = ToClient(Reply(outcome[p]))
    PROVE  /\ answer[p].status = 201 => p \in applied
           /\ answer[p].status = 200 /\ call[p].route \in {"assign", "update"} => p \in applied
           /\ answer[p].status = 200 /\ call[p].route = "create" =>
                    status[call[p].order] # NoOrder
  <1>1. answer[p].status = 200 => outcome[p] = "ok" \/ outcome[p] = "existing"
    BY ReplyFacts
  <1>2. answer[p].status = 201 => outcome[p] = "created"
    BY ReplyFacts
  <1> QED
    BY <1>1, <1>2 DEF OutcomeInv

(* The class of an answer tells a client what became of its call: 4xx that *)
(* it changed nothing and never will, a success that the order is as was   *)
(* asked, although timed out calls may still be handled later.             *)
THEOREM AnswersAreHonest == Spec => []AnswerTellsEffect
  <1>1. ASSUME Types, CallInv, NEW p \in Calls, answer[p].status \in 400..499
        PROVE  p \notin applied /\ at[p] # "service"
    <2>1. PlaceInv(p) /\ OutcomeInv(p) /\ AnswerInv(p) /\ outcome[p] \in Outcomes
      BY <1>1, CallFacts
    <2> QED
      BY <1>1, <2>1, ClientErrorOrigin, Zenon
  <1>2. ASSUME Types, CallInv, NEW p \in Calls,
               answer[p].status = 200 \/ answer[p].status = 201
        PROVE  /\ answer[p].status = 201 => p \in applied
               /\ answer[p].status = 200 /\ call[p].route \in {"assign", "update"} =>
                        p \in applied
               /\ answer[p].status = 200 /\ call[p].route = "create" =>
                        status[call[p].order] # NoOrder
    <2>1. OutcomeInv(p) /\ AnswerInv(p) /\ outcome[p] \in Outcomes
      BY <1>2, CallFacts
    <2>2. answer[p] = ToClient(Reply(outcome[p]))
      BY <1>2, <2>1, ServiceAnswered
    <2> QED
      BY <2>1, <2>2, SuccessOrigin
  <1>3. Types /\ CallInv => AnswerTellsEffect
    BY <1>1, <1>2 DEF AnswerTellsEffect
  <1> QED
    BY <1>3, GatewayInvariant, PTL

(* An assignment answered 409 can never succeed later. *)
THEOREM ConflictsAreFinal == Spec => []ConflictIsFinal
  <1>1. ASSUME Types, CallInv, NEW p \in Calls, call[p].route = "assign", answer[p].status = 409
        PROVE  status[call[p].order] \notin {NoOrder, "created"}
    <2>1. OutcomeInv(p) /\ AnswerInv(p) /\ outcome[p] \in Outcomes
      BY <1>1, CallFacts
    <2>2. answer[p] = ToClient(Reply(outcome[p]))
      BY <1>1, <2>1, ServiceAnswered
    <2>3. ToClient(Reply(outcome[p])).status = 409
      BY <1>1, <2>2, Zenon
    <2>4. outcome[p] \in {"already_assigned", "assignment_not_allowed", "transition_not_allowed"}
      BY <2>1, <2>3, ConflictOutcomes
    <2> QED
      BY <1>1, <2>1, <2>4 DEF OutcomeInv
  <1>2. Types /\ CallInv => ConflictIsFinal
    BY <1>1 DEF ConflictIsFinal
  <1> QED
    BY <1>2, GatewayInvariant, PTL

(* Two refusals of the services never reach clients under one code. *)
THEOREM CodesTellRefusalsApart == Spec => []RefusalsKeepTheirCode
  <1>1. ASSUME Types, CallInv, NEW p \in Calls,
               answer[p].status = 404 \/ answer[p].status = 409
        PROVE  /\ outcome[p] \in {"order_not_found", "courier_not_found", "already_assigned",
                                  "assignment_not_allowed", "transition_not_allowed"}
               /\ outcome[p] = "order_not_found" => answer[p].code = "order_not_found"
               /\ outcome[p] = "courier_not_found" => answer[p].code = "courier_not_found"
               /\ outcome[p] = "already_assigned" => answer[p].code = "order_already_assigned"
               /\ outcome[p] = "assignment_not_allowed" =>
                        answer[p].code = "assignment_not_allowed"
               /\ outcome[p] = "transition_not_allowed" =>
                        answer[p].code = "status_transition_not_allowed"
    <2>1. AnswerInv(p) /\ outcome[p] \in Outcomes
      BY <1>1, CallFacts
    <2>2. answer[p] = ToClient(Reply(outcome[p]))
      BY <1>1, <2>1, ServiceAnswered
    <2>3. ToClient(Reply(outcome[p])).status \in {404, 409}
      BY <1>1, <2>2
    <2>4. PICK o \in Outcomes : o = outcome[p]
      BY <2>1, Zenon
    <2>5. /\ o \in {"order_not_found", "courier_not_found", "already_assigned",
                    "assignment_not_allowed", "transition_not_allowed"}
          /\ o = "order_not_found" => ToClient(Reply(o)).code = "order_not_found"
          /\ o = "courier_not_found" => ToClient(Reply(o)).code = "courier_not_found"
          /\ o = "already_assigned" => ToClient(Reply(o)).code = "order_already_assigned"
          /\ o = "assignment_not_allowed" =>
                ToClient(Reply(o)).code = "assignment_not_allowed"
          /\ o = "transition_not_allowed" =>
                ToClient(Reply(o)).code = "status_transition_not_allowed"
      BY <2>3, <2>4, RefusalCodes
    <2> QED
      BY <2>2, <2>4, <2>5, Zenon
  <1>2. Types /\ CallInv => RefusalsKeepTheirCode
    BY <1>1 DEF RefusalsKeepTheirCode
  <1> QED
    BY <1>2, GatewayInvariant, PTL

-----------------------------------------------------------------------------
(* What a service does for a call is a step of the order's lifecycle.      *)
LEMMA EffectRefines ==
    ASSUME Types, NEW p \in Calls, NEW o \in Outcomes, HandleApplied(p, o)
    PROVE  LifecycleNext
  <1> DEFINE c == call[p]
  <1>1. c \in Inputs
    BY DEF Types
  <1>2. c.order \in Orders /\ c.next \in Statuses /\ (c.route = "assign" => c.courier \in Couriers)
    BY <1>1, InputFacts
  <1>3. \/ Create(c.order)
        \/ c.route = "assign" /\ Assign(c.order, c.courier)
        \/ Move(c.order, c.next)
    BY DEF HandleApplied, Effect
  <1> QED
    BY <1>2, <1>3 DEF LifecycleNext

(* The other steps of a call leave the orders alone.                       *)
LEMMA CallRefines ==
    ASSUME Types, NEW p \in Calls,
           \/ Advance(p) \/ HandleRefused(p) \/ \E o \in Outcomes : HandleApplied(p, o)
           \/ HandleRead(p) \/ HandleFails(p) \/ Unavailable(p)
    PROVE  LifecycleNext \/ UNCHANGED <<status, courier>>
  <1>1. CASE \E o \in Outcomes : HandleApplied(p, o)
    BY <1>1, EffectRefines
  <1>2. CASE Advance(p)
    BY <1>2 DEF Advance, Forward, Refuse, Deliver, TimeOut
  <1>3. CASE HandleRefused(p) \/ HandleRead(p) \/ HandleFails(p) \/ Unavailable(p)
    BY <1>3 DEF HandleRefused, HandleRead, HandleFails, Unavailable
  <1> QED
    BY <1>1, <1>2, <1>3

(* The gateway and the services behind it change orders as the lifecycle   *)
(* allows, also for calls that have timed out at the gateway and go on     *)
(* behind its back.                                                        *)
THEOREM GatewayKeepsLifecycle == Spec => LifecycleSpec
  <1>1. Init => LifecycleInit
    BY DEF Init
  <1>2. Types /\ [Next]_vars => [LifecycleNext]_lifecycleVars
    <2> SUFFICES ASSUME Types, [Next]_vars
                 PROVE  LifecycleNext \/ UNCHANGED <<status, courier>>
      BY DEF lifecycleVars
    <2>1. CASE Others \/ UNCHANGED vars
      BY <2>1 DEF Others, vars
    <2>2. CASE \E p \in Calls :
                  \/ Advance(p) \/ HandleRefused(p) \/ \E o \in Outcomes : HandleApplied(p, o)
                  \/ HandleRead(p) \/ HandleFails(p) \/ Unavailable(p)
      BY <2>2, CallRefines
    <2> QED
      BY <2>1, <2>2 DEF Next
  <1> QED
    BY <1>1, <1>2, GatewayInvariant, PTL DEF Spec, LifecycleSpec

(* An order that is not there, or open for assignment, has no courier.     *)
OpenIsUnassigned ==
    \A o \in Orders : status[o] \in {NoOrder, "created"} => courier[o] = NoCourier

(* Every call at a service that no check of the service refuses finds the  *)
(* order as its change needs it.                                           *)
ChecksAreComplete ==
    \A p \in Calls :
        LET c == call[p]
        IN  at[p] = "service" /\ Refusal(c) = "none" /\ Changes(c) =>
              CASE c.route = "create" -> status[c.order] = NoOrder
                [] c.route = "assign" -> status[c.order] = "created" /\ courier[c.order] = NoCourier
                [] OTHER              -> c.next \in AllowedTransitions[status[c.order]]

(* A step of the lifecycle opens no order that has a courier.              *)
LEMMA LifecycleKeepsOpen ==
    ASSUME Types, OpenIsUnassigned, LifecycleNext
    PROVE  OpenIsUnassigned'
  <1> SUFFICES ASSUME NEW q \in Orders, status'[q] \in {NoOrder, "created"}
               PROVE  courier'[q] = NoCourier
    BY DEF OpenIsUnassigned
  <1>1. PICK o \in Orders : \/ Create(o)
                            \/ \E c \in Couriers : Assign(o, c)
                            \/ \E s \in Statuses : Move(o, s)
    BY DEF LifecycleNext
  <1>2. CASE Create(o)
    BY <1>2 DEF Create, Types, OpenIsUnassigned
  <1>3. ASSUME NEW c \in Couriers, Assign(o, c) PROVE courier'[q] = NoCourier
    <2>1. q # o
      BY <1>3, GatewayAssumption DEF Assign, Types, Statuses
    <2> QED
      BY <1>3, <2>1 DEF Assign, Types, OpenIsUnassigned
  <1>4. ASSUME NEW s \in Statuses, Move(o, s) PROVE courier'[q] = NoCourier
    <2>1. s \notin {NoOrder, "created"}
      BY <1>4, GatewayAssumption DEF Move, AllowedTransitions, Statuses
    <2>2. q # o
      BY <1>4, <2>1 DEF Move, Types
    <2> QED
      BY <1>4, <2>2 DEF Move, Types, OpenIsUnassigned
  <1> QED
    BY <1>1, <1>2, <1>3, <1>4

(* The checks of a service, in the order of its code, are all there is to  *)
(* check: a request that passes them takes effect unless Postgres fails,   *)
(* and the insert of an assignment never meets another one.                *)
THEOREM ChecksSuffice == Spec => [](OpenIsUnassigned /\ ChecksAreComplete)
  <1>1. Init => OpenIsUnassigned
    BY DEF Init, LifecycleInit, OpenIsUnassigned
  <1>2. Types /\ OpenIsUnassigned /\ [LifecycleNext]_lifecycleVars => OpenIsUnassigned'
    BY LifecycleKeepsOpen DEF lifecycleVars, OpenIsUnassigned
  <1>3. ASSUME Types, OpenIsUnassigned PROVE ChecksAreComplete
    <2> SUFFICES ASSUME NEW p \in Calls, Refusal(call[p]) = "none", Changes(call[p])
                 PROVE  CASE call[p].route = "create" -> status[call[p].order] = NoOrder
                          [] call[p].route = "assign" ->
                                /\ status[call[p].order] = "created"
                                /\ courier[call[p].order] = NoCourier
                          [] OTHER -> call[p].next \in AllowedTransitions[status[call[p].order]]
      BY DEF ChecksAreComplete
    <2>1. call[p].order \in Orders /\ status[call[p].order] \in Statuses \cup {NoOrder}
      BY <1>3, InputFacts DEF Types
    <2>2. CASE call[p].route = "create"
      BY <2>2 DEF Changes
    <2>3. CASE call[p].route = "assign"
      <3>1. AssignRefusal(call[p]) = "none"
        BY <2>3 DEF Refusal
      <3>2. status[call[p].order] = "created"
        BY <2>1, <3>1, GatewayAssumption DEF AssignRefusal, Statuses
      <3> QED
        BY <1>3, <2>1, <2>3, <3>2 DEF OpenIsUnassigned
    <2>4. CASE call[p].route = "update"
      BY <2>1, <2>4 DEF Refusal, ValidateStatusTransition
    <2> QED
      BY <2>2, <2>3, <2>4 DEF Changes
  <1> QED
    BY <1>1, <1>2, <1>3, GatewayInvariant, GatewayKeepsLifecycle, PTL DEF LifecycleSpec, Spec
=============================================================================
