--------------------------- MODULE StatusMachine ---------------------------
(***************************************************************************)
(* The order statuses, the sources of a status change and the transitions  *)
(* the tracking service allows (state_machine.go).  Strings stand for the  *)
(* normalised values: trimming and lower-casing have been done.            *)
(***************************************************************************)

Statuses == {"created", "assigned", "in_transit", "delivered", "cancelled"}

StatusSources == {"system", "courier", "manager", "carrier_sync"}

AllowedTransitions ==
    [s \in Statuses |->
        CASE s = "created"    -> {"assigned", "cancelled"}
          [] s = "assigned"   -> {"in_transit", "cancelled"}
          [] s = "in_transit" -> {"delivered"}
          [] OTHER            -> {}]

(* A self-loop on every status: what an "idempotent update" would allow. *)
MutSelfLoop(current, next) == next \in AllowedTransitions[current] \cup {current}

ValidateStatusTransition(current, next) == next \in AllowedTransitions[current]
=============================================================================
