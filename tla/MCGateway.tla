------------------------------ MODULE MCGateway ------------------------------
(* Gateway on small instances: calls are interchangeable. *)
EXTENDS Gateway, TLC

Symmetry == Permutations(Calls)
=============================================================================
