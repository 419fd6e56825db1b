--------------------------- MODULE OrderLifecycle ---------------------------
(***************************************************************************)
(* What the order store promises to the rest of TrackFlow, with every      *)
(* request taking effect in one step: an order is created once, its status *)
(* only ever follows the transition map, and a courier is attached at most *)
(* once, in the very step that takes the order from created to assigned.   *)
(* OrderStore is the detailed specification that implements this one.      *)
(***************************************************************************)
EXTENDS StatusMachine

CONSTANTS
    Orders,     \* order ids
    Couriers,   \* courier ids
    NoOrder,    \* status of an id that has no row
    NoCourier   \* no assignment row

VARIABLES
    status,     \* status[o]: the order's current status, or NoOrder
    courier     \* courier[o]: the courier assigned to the order, or NoCourier

lifecycleVars == <<status, courier>>

LifecycleInit ==
    /\ status = [o \in Orders |-> NoOrder]
    /\ courier = [o \in Orders |-> NoCourier]

Create(o) ==
    /\ status[o] = NoOrder
    /\ status' = [status EXCEPT ![o] = "created"]
    /\ UNCHANGED courier

Assign(o, c) ==
    /\ status[o] = "created"
    /\ courier[o] = NoCourier
    /\ status' = [status EXCEPT ![o] = "assigned"]
    /\ courier' = [courier EXCEPT ![o] = c]

Move(o, s) ==
    /\ status[o] \in Statuses
    /\ s \in AllowedTransitions[status[o]]
    /\ status' = [status EXCEPT ![o] = s]
    /\ UNCHANGED courier

LifecycleNext ==
    \E o \in Orders :
        \/ Create(o)
        \/ \E c \in Couriers : Assign(o, c)
        \/ \E s \in Statuses : Move(o, s)

LifecycleSpec == LifecycleInit /\ [][LifecycleNext]_lifecycleVars
=============================================================================
