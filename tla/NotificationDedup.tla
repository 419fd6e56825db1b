-------------------------- MODULE NotificationDedup --------------------------
(***************************************************************************)
(* Send of the notification-service: calls for the same order, status,     *)
(* channel and recipient within a window are sent once.  A call reads the  *)
(* time, reserves its key under the mutex, hands the event to the sender   *)
(* without it, and gives the key back if the sender fails.  The map of     *)
(* reservations lives in the process: a restart empties it.                *)
(***************************************************************************)
EXTENDS Naturals

CONSTANTS
    Requests,     \* calls of Send with a valid event
    Keys,         \* dedup keys
    Never,        \* no time
    Window,       \* dedupWindow
    HandlingTime, \* the longest a call runs: the handler gives it three seconds
    MaxClock,     \* bound of the clock
    MaxBoots      \* bound of the restarts

ASSUME TimesAssumption ==
    /\ Window \in Nat \ {0}
    /\ HandlingTime \in Nat
    /\ MaxClock \in Nat
    /\ MaxBoots \in Nat
    /\ Never \notin Nat

(* The window is 24 hours unless configured, and the sender obeys the      *)
(* three seconds its context lives.                                        *)
ASSUME WindowAssumption == HandlingTime < Window

VARIABLES
    sentAt,     \* dedupSentAt: the time of the reservation of a key, or Never
    clock,
    boot,       \* restarts so far
    pc,         \* pc[p]: what call p is about to do
    key,        \* key[p]: buildDedupKey of p's event
    now,        \* now[p]: the time p read
    bootOf,     \* bootOf[p]: the run of the process that p belongs to
    took        \* took[p]: when the provider took p's event, or Never (history)

vars == <<sentAt, clock, boot, pc, key, now, bootOf, took>>

Init ==
    /\ sentAt = [k \in Keys |-> Never]
    /\ clock = 0
    /\ boot = 0
    /\ pc = [p \in Requests |-> "idle"]
    /\ key \in [Requests -> Keys]
    /\ now = [p \in Requests |-> 0]
    /\ bootOf = [p \in Requests |-> 0]
    /\ took = [p \in Requests |-> Never]

Goto(p, label) == pc' = [pc EXCEPT ![p] = label]

Running(p) == pc[p] \in {"reserve", "send", "release"}

(* Time passes, but no call runs for longer than HandlingTime. *)
Tick ==
    /\ clock < MaxClock
    /\ \A p \in Requests : Running(p) => clock < now[p] + HandlingTime
    /\ clock' = clock + 1
    /\ UNCHANGED <<sentAt, boot, pc, key, now, bootOf, took>>

(* The call is valid; now is read before the mutex is taken. *)
Begin(p) ==
    /\ pc[p] = "idle"
    /\ Goto(p, "reserve")
    /\ now' = [now EXCEPT ![p] = clock]
    /\ bootOf' = [bootOf EXCEPT ![p] = boot]
    /\ UNCHANGED <<sentAt, clock, boot, key, took>>

(* Expiry is off by a whole window: every reservation made before is gone. *)
MutExpiresAtOnce(t, s) == s # Never /\ t > s

(* now.Sub(sentAt) >= window *)
Expired(t, s) == s # Never /\ t \geq s + Window

Cleaned(t) == [k \in Keys |-> IF Expired(t, sentAt[k]) THEN Never ELSE sentAt[k]]

(* Every call is a new one: the reservation is not looked up. *)
MutReserveAlways(p) ==
    /\ pc[p] = "reserve"
    /\ sentAt' = [Cleaned(now[p]) EXCEPT ![key[p]] = now[p]]
    /\ Goto(p, "send")
    /\ UNCHANGED <<clock, boot, key, now, bootOf, took>>

(* The map holds the end of the window instead of its start. *)
MutStoresExpiry(p) ==
    LET left == Cleaned(now[p])
    IN /\ pc[p] = "reserve"
       /\ IF left[key[p]] # Never
          THEN Goto(p, "duplicate") /\ sentAt' = left
          ELSE Goto(p, "send") /\ sentAt' = [left EXCEPT ![key[p]] = now[p] + Window]
       /\ UNCHANGED <<clock, boot, key, now, bootOf, took>>

(* reserveDedupKey, under the mutex: expired reservations of every key are *)
(* dropped, then the call's own is looked up.  A duplicate is acknowledged.*)
Reserve(p) ==
    LET left == Cleaned(now[p])
    IN /\ pc[p] = "reserve"
       /\ IF left[key[p]] # Never
          THEN Goto(p, "duplicate") /\ sentAt' = left
          ELSE Goto(p, "send") /\ sentAt' = [left EXCEPT ![key[p]] = now[p]]
       /\ UNCHANGED <<clock, boot, key, now, bootOf, took>>

(* The sender gives the event to the provider. *)
SendOk(p) ==
    /\ pc[p] = "send"
    /\ Goto(p, "sent")
    /\ took' = [took EXCEPT ![p] = clock]
    /\ UNCHANGED <<sentAt, clock, boot, key, now, bootOf>>

(* The error is returned before the key is given back. *)
MutFailNoRelease(p) ==
    /\ pc[p] = "send"
    /\ Goto(p, "failed")
    /\ UNCHANGED <<sentAt, clock, boot, key, now, bootOf, took>>

SendFails(p) ==
    /\ pc[p] = "send"
    /\ Goto(p, "release")
    /\ UNCHANGED <<sentAt, clock, boot, key, now, bootOf, took>>

(* releaseDedupKey deletes the key whoever reserved it. *)
Release(p) ==
    /\ pc[p] = "release"
    /\ sentAt' = [sentAt EXCEPT ![key[p]] = Never]
    /\ Goto(p, "failed")
    /\ UNCHANGED <<clock, boot, key, now, bootOf, took>>

(* The process dies and starts again: the map is empty, the calls are cut. *)
Restart ==
    /\ boot < MaxBoots
    /\ boot' = boot + 1
    /\ sentAt' = [k \in Keys |-> Never]
    /\ pc' = [p \in Requests |-> IF Running(p) THEN "cut" ELSE pc[p]]
    /\ UNCHANGED <<clock, key, now, bootOf, took>>

Next ==
    \/ Tick
    \/ Restart
    \/ \E p \in Requests : Begin(p) \/ Reserve(p) \/ SendOk(p) \/ SendFails(p) \/ Release(p)

Spec == Init /\ [][Next]_vars

-----------------------------------------------------------------------------
TypeOK ==
    /\ clock \in Nat
    /\ boot \in Nat
    /\ sentAt \in [Keys -> 0..clock \cup {Never}]
    /\ pc \in [Requests -> {"idle", "reserve", "send", "release", "duplicate", "sent",
                           "failed", "cut"}]
    /\ key \in [Requests -> Keys]
    /\ now \in [Requests -> 0..clock]
    /\ bootOf \in [Requests -> 0..boot]
    /\ took \in [Requests -> 0..clock \cup {Never}]

Taken(p) == took[p] # Never

(* However calls for a key overlap, fail and are repeated: within one run  *)
(* of the process the provider takes two of them at least a window, less   *)
(* the time one call may run, apart.                                       *)
AtMostOncePerWindow ==
    \A p, q \in Requests :
        (p # q /\ key[p] = key[q] /\ bootOf[p] = bootOf[q] /\ Taken(p) /\ Taken(q)
            /\ took[p] \leq took[q])
        => took[q] + HandlingTime \geq took[p] + Window

(* A key is only ever reserved for a call that is being sent or was: after *)
(* a failure nothing swallows the retry.                                   *)
NoStuckReservation ==
    \A k \in Keys : sentAt[k] # Never =>
        \E p \in Requests :
            /\ key[p] = k /\ bootOf[p] = boot /\ now[p] = sentAt[k]
            /\ pc[p] \in {"send", "release"} \/ Taken(p)

(* releaseDedupKey does not look whose reservation it deletes, and does    *)
(* not have to: a call that is still at work holds its key alone.          *)
ReleasesOwnReservation ==
    \A p \in Requests : pc[p] \in {"send", "release"} =>
        /\ sentAt[key[p]] = now[p]
        /\ \A q \in Requests : pc[q] \in {"send", "release"} /\ key[q] = key[p] => q = p

-----------------------------------------------------------------------------
(* A call at the mutex is as good as on its way, one whose sender failed   *)
(* holds its key until it is given back, and one that was cut has failed.  *)
places == [p \in Requests |->
    CASE pc[p] = "idle" -> "none"
      [] pc[p] = "reserve" -> "net"
      [] pc[p] \in {"send", "release"} -> "send"
      [] pc[p] = "sent" -> "taken"
      [] pc[p] = "duplicate" -> "duplicate"
      [] OTHER -> "failed"]

reservedKeys == {k \in Keys : sentAt[k] # Never}

Service == INSTANCE NotificationService WITH call <- places, reserved <- reservedKeys

(* Send with its clock, its mutex and its late release does what           *)
(* NotificationService says.                                               *)
ImplementsNotificationService == Service!ServiceSpec
=============================================================================
