---------------------------- MODULE MCOrderStore ----------------------------
(* OrderStore on small instances.  Requests and couriers are interchangeable, *)
(* except that one courier may be inactive.                                   *)
EXTENDS OrderStore, TLC

RequestSymmetry == Permutations(Requests)
=============================================================================
