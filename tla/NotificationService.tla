------------------------- MODULE NotificationService -------------------------
(***************************************************************************)
(* What the notification-service does with the calls of Send, without its  *)
(* times: a call is acknowledged as a duplicate if its key is reserved,    *)
(* else it reserves the key, holds it while it is sent, keeps it once the  *)
(* provider took the event and gives it back if the provider failed.       *)
(* StatusDispatch composes these actions with the handlers that call the   *)
(* service; NotificationDedup, which has the clock and the mutex,          *)
(* implements them.                                                        *)
(***************************************************************************)
CONSTANTS
    Requests,   \* calls of Send
    Keys        \* dedup keys

VARIABLES
    call,       \* call[r]: how far call r has come
    key,        \* key[r]: buildDedupKey of its event
    reserved    \* the keys of dedupSentAt

serviceVars == <<call, key, reserved>>

ServiceInit ==
    /\ call = [r \in Requests |-> "none"]
    /\ key \in [Requests -> Keys]
    /\ reserved = {}

(* The keys of the calls that are being sent. *)
Held == {key[r] : r \in {q \in Requests : call[q] = "send"}}

Reaches(r, place) == call' = [call EXCEPT ![r] = place] /\ UNCHANGED key

(* A client calls. *)
Ask(r) ==
    /\ call[r] = "none"
    /\ Reaches(r, "net")
    /\ UNCHANGED reserved

(* reserveDedupKey: reservations that have expired are dropped, which those *)
(* of calls at work never have; then the call's own is looked up.          *)
Enter(r) ==
    /\ call[r] = "net"
    /\ \E kept \in SUBSET reserved :
          /\ Held \subseteq kept
          /\ IF key[r] \in kept THEN Reaches(r, "duplicate") /\ reserved' = kept
                                ELSE Reaches(r, "send") /\ reserved' = kept \cup {key[r]}

(* The provider takes the event. *)
Take(r) ==
    /\ call[r] = "send"
    /\ Reaches(r, "taken")
    /\ UNCHANGED reserved

(* The provider fails and the key is given back. *)
Fail(r) ==
    /\ call[r] = "send"
    /\ Reaches(r, "failed")
    /\ reserved' = reserved \ {key[r]}

(* The process dies: the map is gone, what was at work and some of what    *)
(* was on its way has failed.                                              *)
Restart ==
    /\ \E cut \in SUBSET {r \in Requests : call[r] = "net"} :
          call' = [r \in Requests |->
                      IF call[r] = "send" \/ r \in cut THEN "failed" ELSE call[r]]
    /\ reserved' = {}
    /\ UNCHANGED key

ServiceNext ==
    \/ \E r \in Requests : Ask(r) \/ Enter(r) \/ Take(r) \/ Fail(r)
    \/ Restart

ServiceSpec == ServiceInit /\ [][ServiceNext]_serviceVars
=============================================================================
