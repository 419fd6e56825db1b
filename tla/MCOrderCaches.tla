---------------------------- MODULE MCOrderCaches ----------------------------
(* OrderCaches on small instances: writers are interchangeable.             *)
EXTENDS OrderCaches, TLC

Symmetry == Permutations(Writers)
=============================================================================
