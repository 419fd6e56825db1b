--------------------------- MODULE MCOrderCreation ---------------------------
(* OrderCreation on small instances.  Its constants are model values; there *)
(* is no symmetry, because the run checks liveness.                         *)
EXTENDS OrderCreation
=============================================================================
