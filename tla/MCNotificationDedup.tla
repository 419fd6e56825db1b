------------------------- MODULE MCNotificationDedup -------------------------
(* NotificationDedup on small instances: calls and keys are interchangeable. *)
EXTENDS NotificationDedup, TLC

Symmetry == Permutations(Requests) \cup Permutations(Keys)
=============================================================================
