-------------------------- MODULE MCStatusDispatch --------------------------
(* StatusDispatch with two updates of one order, which ask for the same      *)
(* status or for one and the next.                                           *)
EXTENDS StatusDispatch

CONSTANTS o1, u1, u2

OneOrder == {o1}
TwoUpdates == {u1, u2}

Ask(s, t) == [u \in TwoUpdates |-> [order |-> o1, status |-> IF u = u1 THEN s ELSE t]]

SameOrNext == {Ask("assigned", "assigned"), Ask("assigned", "in_transit")}
=============================================================================
