------------------------------- MODULE Gateway -------------------------------
(***************************************************************************)
(* A client's call through the api-gateway: the gateway checks the request *)
(* and forwards it to the order-service or the tracking-service, which     *)
(* checks it again, acts on the order and answers with a status and a      *)
(* message; the gateway turns message and status into an error code.  The  *)
(* orders are those of OrderLifecycle, which OrderStore implements; other  *)
(* clients of the services change them as well.                            *)
(*                                                                         *)
(* What may be wrong with a request is one flaw of a small set: a check of *)
(* the gateway, of a service or of a table refuses it or not.  For a       *)
(* creation the order stands for the one under its idempotency key.        *)
(***************************************************************************)
EXTENDS OrderLifecycle, Naturals

CONSTANTS
    Calls,           \* calls of clients
    ActiveCouriers   \* couriers with is_active = TRUE

ASSUME GatewayAssumption ==
    /\ ActiveCouriers \subseteq Couriers
    /\ NoCourier \notin Couriers
    /\ NoOrder \notin Statuses

VARIABLES
    call,      \* call[p]: the request
    at,        \* at[p]: where it is: at the client, the gateway or a service
    outcome,   \* outcome[p]: what the service made of it
    answer,    \* answer[p]: what the gateway answered
    applied    \* calls that changed an order (history)

vars == <<status, courier, call, at, outcome, answer, applied>>

-----------------------------------------------------------------------------
Routes == {"list", "create", "get", "assign", "update", "timeline"}

BodyFlaws == {"body_too_large", "not_json", "unknown_field"}
CreateFlaws == BodyFlaws \cup {"no_key", "customer_id", "address", "weight_not_positive",
                               "distance_negative", "service_level"}
LimitFlaws == {"limit_not_positive_integer"}

(* The gateway forgets to look at the source of an update. *)
MutNoSourceCheck ==
    [list     |-> {"method", "limit_too_large"} \cup LimitFlaws,
     create   |-> {"method", "key_too_long"} \cup CreateFlaws,
     get      |-> {"method", "order_id"},
     assign   |-> {"method", "order_id", "courier_id", "blank_text"} \cup BodyFlaws,
     update   |-> {"method", "order_id", "status", "blank_text",
                   "metadata_not_object"} \cup BodyFlaws,
     timeline |-> {"method", "order_id", "limit_too_large"} \cup LimitFlaws]

(* The flaws the gateway refuses, by route (validation.go). *)
GatewayChecks ==
    [list     |-> {"method", "limit_too_large"} \cup LimitFlaws,
     create   |-> {"method", "key_too_long"} \cup CreateFlaws,
     get      |-> {"method", "order_id"},
     assign   |-> {"method", "order_id", "courier_id", "blank_text"} \cup BodyFlaws,
     update   |-> {"method", "order_id", "status", "source", "blank_text",
                   "metadata_not_object"} \cup BodyFlaws,
     timeline |-> {"method", "order_id", "limit_too_large"} \cup LimitFlaws]

(* The flaws a service's handler or normalisation refuses.  A limit that   *)
(* is too large is cut, blank texts are stored as NULL.                    *)
ServiceChecks ==
    [list     |-> {"method"} \cup LimitFlaws,
     create   |-> {"method"} \cup CreateFlaws,
     get      |-> {"method", "order_id"},
     assign   |-> {"method", "order_id", "courier_id"} \cup BodyFlaws,
     update   |-> {"method", "order_id", "status", "source"} \cup BodyFlaws,
     timeline |-> {"method", "order_id"} \cup LimitFlaws]

(* NUMERIC(8,2) rounds a small weight to the zero that the table's check   *)
(* refuses, and has no room for a large number.                            *)
ColumnFlaws == {"weight_rounds_to_zero", "number_out_of_range"}

Flaws(route) ==
    {"none"} \cup GatewayChecks[route] \cup ServiceChecks[route]
             \cup (IF route = "create" THEN ColumnFlaws ELSE {})

Inputs ==
    UNION {[route: {r}, flaw: Flaws(r), order: Orders,
            courier: IF r = "assign" THEN Couriers ELSE {NoCourier},
            next: IF r = "update" THEN Statuses ELSE {"assigned"}] : r \in Routes}

-----------------------------------------------------------------------------
Outcomes == {"none", "ok", "created", "existing", "invalid", "rejected", "order_not_found",
             "courier_not_found", "already_assigned", "assignment_not_allowed",
             "transition_not_allowed", "error"}

(* The services' answers: status and message. *)
Reply(o) ==
    CASE o \in {"ok", "existing"}          -> [status |-> 200, message |-> ""]
      [] o = "created"                     -> [status |-> 201, message |-> ""]
      [] o = "invalid"                     -> [status |-> 400, message |-> "invalid input"]
      [] o = "order_not_found"             -> [status |-> 404, message |-> "order not found"]
      [] o = "courier_not_found"           -> [status |-> 404, message |-> "courier not found"]
      [] o = "already_assigned"            -> [status |-> 409, message |-> "order already assigned"]
      [] o = "assignment_not_allowed"      ->
            [status |-> 409, message |-> "assignment is not allowed for current order status"]
      [] o = "transition_not_allowed"      ->
            [status |-> 409, message |-> "status transition is not allowed"]
      [] OTHER                             -> [status |-> 500, message |-> "failed"]

(* The code of a message of the order-service is not in the table. *)
MutMessageDrift(message) ==
    CASE message = "order not found"   -> "order_not_found"
      [] message = "courier not found" -> "courier_not_found"
      [] message = "assignment not allowed" -> "assignment_not_allowed"
      [] message = "order already assigned" -> "order_already_assigned"
      [] message = "status transition is not allowed" -> "status_transition_not_allowed"
      [] OTHER -> ""

(* businessCodes of inferBusinessErrorCode. *)
BusinessCode(message) ==
    CASE message = "order not found"   -> "order_not_found"
      [] message = "courier not found" -> "courier_not_found"
      [] message = "order already assigned" -> "order_already_assigned"
      [] message = "assignment is not allowed for current order status" -> "assignment_not_allowed"
      [] message = "status transition is not allowed" -> "status_transition_not_allowed"
      [] message = "idempotency-key header is required" -> "idempotency_key_required"
      [] OTHER -> ""

(* statusCodeToErrorCode, for the statuses the services answer with. *)
StatusCode(s) ==
    CASE s = 400 -> "bad_request"
      [] s = 404 -> "not_found"
      [] s = 409 -> "conflict"
      [] s = 500 -> "internal_error"
      [] OTHER   -> "upstream_error"

(* The status is not consulted when the message names no code. *)
MutNoFallbackCode(s, message) ==
    IF BusinessCode(message) # "" THEN BusinessCode(message)
    ELSE IF s = 400 THEN "validation_error"
    ELSE ""

(* The code of an upstream error: the services send a message and no code. *)
ErrorCode(s, message) ==
    IF BusinessCode(message) # "" THEN BusinessCode(message)
    ELSE IF s = 400 THEN "validation_error"
    ELSE StatusCode(s)

NoAnswer == [status |-> 0, code |-> ""]

ToClient(reply) ==
    [status |-> reply.status,
     code   |-> IF reply.status < 400 THEN "none" ELSE ErrorCode(reply.status, reply.message)]

-----------------------------------------------------------------------------
Init ==
    /\ LifecycleInit
    /\ call \in [Calls -> Inputs]
    /\ at = [p \in Calls |-> "client"]
    /\ outcome = [p \in Calls |-> "none"]
    /\ answer = [p \in Calls |-> NoAnswer]
    /\ applied = {}

Goto(p, place) == at' = [at EXCEPT ![p] = place]
Respond(p, s, code) == answer' = [answer EXCEPT ![p] = [status |-> s, code |-> code]]

(* The client's request arrives and a check of the gateway refuses it. *)
Refuse(p) ==
    /\ at[p] = "client"
    /\ call[p].flaw \in GatewayChecks[call[p].route]
    /\ Goto(p, "refused")
    /\ IF call[p].flaw = "method" THEN Respond(p, 405, "method_not_allowed")
                                  ELSE Respond(p, 400, "validation_error")
    /\ UNCHANGED <<status, courier, call, outcome, applied>>

Forward(p) ==
    /\ at[p] = "client"
    /\ call[p].flaw \notin GatewayChecks[call[p].route]
    /\ Goto(p, "service")
    /\ UNCHANGED <<status, courier, call, outcome, answer, applied>>

(* A missing order is taken for an assigned one. *)
MutAssignRefusal(c) ==
    CASE status[c.order] \in {NoOrder, "assigned"} -> "already_assigned"
      [] status[c.order] = "created"  -> IF c.courier \in ActiveCouriers THEN "none"
                                                                         ELSE "courier_not_found"
      [] OTHER                        -> "assignment_not_allowed"

(* The checks of AssignOrder, in the order of the code. *)
AssignRefusal(c) ==
    CASE status[c.order] = NoOrder    -> "order_not_found"
      [] status[c.order] = "assigned" -> "already_assigned"
      [] status[c.order] = "created"  -> IF c.courier \in ActiveCouriers THEN "none"
                                                                         ELSE "courier_not_found"
      [] OTHER                        -> "assignment_not_allowed"

(* Why a service refuses a request, or "none". *)
Refusal(c) ==
    IF c.flaw \in ServiceChecks[c.route] THEN "invalid"
    ELSE CASE c.route = "create" ->
                IF status[c.order] = NoOrder /\ c.flaw \in ColumnFlaws THEN "rejected" ELSE "none"
           [] c.route = "assign" -> AssignRefusal(c)
           [] c.route = "update" ->
                IF status[c.order] = NoOrder THEN "order_not_found"
                ELSE IF ValidateStatusTransition(status[c.order], c.next) THEN "none"
                ELSE "transition_not_allowed"
           [] c.route \in {"get", "timeline"} ->
                IF status[c.order] = NoOrder THEN "order_not_found" ELSE "none"
           [] OTHER -> "none"

Finish(p, o) ==
    /\ Goto(p, "handled")
    /\ outcome' = [outcome EXCEPT ![p] = o]

(* The service's check, or the order's state, refuses the request. *)
HandleRefused(p) ==
    /\ at[p] = "service"
    /\ Refusal(call[p]) # "none"
    /\ Finish(p, Refusal(call[p]))
    /\ UNCHANGED <<status, courier, call, answer, applied>>

Changes(c) == c.route \in {"assign", "update"} \/ (c.route = "create" /\ status[c.order] = NoOrder)

Effect(c) ==
    CASE c.route = "create" -> Create(c.order)
      [] c.route = "assign" -> Assign(c.order, c.courier)
      [] OTHER              -> Move(c.order, c.next)

(* The request takes effect, in one step as OrderStore shows. *)
HandleApplied(p, o) ==
    /\ at[p] = "service"
    /\ Refusal(call[p]) = "none"
    /\ Changes(call[p])
    /\ Effect(call[p])
    /\ applied' = applied \cup {p}
    /\ o \in {IF call[p].route = "create" THEN "created" ELSE "ok", "error"}
    /\ Finish(p, o)
    /\ UNCHANGED <<call, answer>>

(* Reads, and the replay of a creation. *)
HandleRead(p) ==
    /\ at[p] = "service"
    /\ Refusal(call[p]) = "none"
    /\ ~Changes(call[p])
    /\ Finish(p, IF call[p].route = "create" THEN "existing" ELSE "ok")
    /\ UNCHANGED <<status, courier, call, answer, applied>>

(* Postgres fails, or the handler's time is over. *)
HandleFails(p) ==
    /\ at[p] = "service"
    /\ Finish(p, "error")
    /\ UNCHANGED <<status, courier, call, answer, applied>>

Deliver(p) ==
    /\ at[p] = "handled"
    /\ answer[p] = NoAnswer
    /\ answer' = [answer EXCEPT ![p] = ToClient(Reply(outcome[p]))]
    /\ UNCHANGED <<status, courier, call, at, outcome, applied>>

(* The gateway sends the request again when it has waited too long. *)
MutRetryOnTimeout(p) ==
    /\ at[p] = "handled"
    /\ answer[p] = NoAnswer
    /\ Goto(p, "service")
    /\ UNCHANGED <<status, courier, call, outcome, answer, applied>>

(* The gateway's timeout: the service may go on with the request. *)
TimeOut(p) ==
    /\ at[p] \in {"service", "handled"}
    /\ answer[p] = NoAnswer
    /\ Respond(p, 504, "gateway_timeout")
    /\ UNCHANGED <<status, courier, call, at, outcome, applied>>

(* There is no connection, or it broke: the service may have the request. *)
Unavailable(p) ==
    /\ at[p] \in {"service", "handled"}
    /\ answer[p] = NoAnswer
    /\ Respond(p, 502, "upstream_unavailable")
    /\ at[p] = "handled" => UNCHANGED at
    /\ at[p] = "service" => at' \in {at, [at EXCEPT ![p] = "lost"]}
    /\ UNCHANGED <<status, courier, call, outcome, applied>>

(* Anybody else's creation, assignment or update. *)
Others ==
    /\ LifecycleNext
    /\ UNCHANGED <<call, at, outcome, answer, applied>>

(* What the gateway does by itself with a call it has got. *)
Advance(p) == Forward(p) \/ Refuse(p) \/ Deliver(p) \/ TimeOut(p)

Next ==
    \/ Others
    \/ \E p \in Calls :
        \/ Advance(p)
        \/ HandleRefused(p)
        \/ \E o \in Outcomes : HandleApplied(p, o)
        \/ HandleRead(p)
        \/ HandleFails(p)
        \/ Unavailable(p)

Spec == Init /\ [][Next]_vars

-----------------------------------------------------------------------------
Codes == {"", "none", "validation_error", "method_not_allowed", "order_not_found",
          "courier_not_found", "order_already_assigned", "assignment_not_allowed",
          "status_transition_not_allowed", "internal_error", "gateway_timeout",
          "upstream_unavailable"}

TypeOK ==
    /\ status \in [Orders -> Statuses \cup {NoOrder}]
    /\ courier \in [Orders -> Couriers \cup {NoCourier}]
    /\ call \in [Calls -> Inputs]
    /\ at \in [Calls -> {"client", "refused", "service", "handled", "lost"}]
    /\ outcome \in [Calls -> Outcomes]
    /\ answer \in [Calls -> [status: {0, 200, 201, 400, 404, 405, 409, 500, 502, 504}, code: Codes]]
    /\ \A p \in Calls : answer[p] # NoAnswer => answer[p].code # ""
    /\ applied \subseteq Calls

(* What the gateway lets through, no service refuses as invalid: the two   *)
(* layers of validation, written in three code bases, agree that far.      *)
AcceptedIsValid == \A p \in Calls : outcome[p] # "invalid"

(* A client can go by the class of its answer: 4xx means the call changed  *)
(* nothing and never will, a success of a writing route that the order is  *)
(* what was asked for, through this call or an earlier one; only 5xx       *)
(* leaves it open.                                                         *)
AnswerTellsEffect ==
    \A p \in Calls :
        LET a == answer[p]
        IN /\ a.status \in 400..499 => p \notin applied /\ at[p] # "service"
           /\ a.status = 201 \/ (a.status = 200 /\ call[p].route \in {"assign", "update"})
                => p \in applied
           /\ a.status = 200 /\ call[p].route = "create" => status[call[p].order] # NoOrder

(* A refused assignment need not be tried again: an order that was found   *)
(* assigned, or past it, is never open for assignment any more.            *)
ConflictIsFinal ==
    \A p \in Calls : call[p].route = "assign" /\ answer[p].status = 409 =>
        status[call[p].order] \notin {NoOrder, "created"}

(* Every business refusal of a service reaches the client under a code of  *)
(* its own: the gateway finds it in a message another service worded.      *)
RefusalsKeepTheirCode ==
    \A p, q \in Calls :
        /\ answer[p].status \in {404, 409} => answer[p].code \notin {"not_found", "conflict"}
        /\ answer[p].status \in {404, 409} /\ answer[p] = answer[q] => outcome[p] = outcome[q]
=============================================================================
