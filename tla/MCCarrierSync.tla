---------------------------- MODULE MCCarrierSync ----------------------------
(* CarrierSync on small instances. *)
EXTENDS CarrierSync

CONSTANTS o1, o2, o3

OneOrder == <<o1>>
ThreeOrders == <<o1, o2, o3>>
=============================================================================
