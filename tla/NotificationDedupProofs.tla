----------------------- MODULE NotificationDedupProofs -----------------------
(***************************************************************************)
(* The three safety properties of NotificationDedup, for every number of   *)
(* calls, keys and restarts and every window longer than a call may run.   *)
(* DedupInv is the inductive invariant.  What it adds: how old a call that *)
(* runs can be, that the reservation of a call that was sent stays until a *)
(* window has passed, and that two calls of one key are a window apart.    *)
(***************************************************************************)
EXTENDS NotificationDedup, TLAPS

AtWork(p) == pc[p] \in {"send", "release"}

Rivals(p, q) == p # q /\ key[p] = key[q] /\ bootOf[p] = bootOf[q]

(* A call that runs belongs to this run of the process and is young. *)
RunningIsYoung ==
    \A p \in Requests : Running(p) =>
        bootOf[p] = boot /\ now[p] \leq clock /\ clock \leq now[p] + HandlingTime

(* The provider took what ended as sent, within the time a call may run. *)
TakenInTime ==
    \A p \in Requests :
        /\ Taken(p) <=> pc[p] = "sent"
        /\ Taken(p) => now[p] \leq took[p] /\ took[p] \leq now[p] + HandlingTime

(* The reservation of a call that was sent is there for a whole window. *)
SentStaysReserved ==
    \A p \in Requests : (Taken(p) /\ bootOf[p] = boot) =>
        sentAt[key[p]] = now[p] \/ clock \geq now[p] + Window

(* A call only comes to work a window after the one that was sent began. *)
WorkAfterWindow ==
    \A p, q \in Requests : (Rivals(p, q) /\ AtWork(p) /\ Taken(q)) =>
        clock \geq now[q] + Window

(* Of two calls that were sent, one was a window after the other began. *)
SentApart ==
    \A p, q \in Requests : (Rivals(p, q) /\ Taken(p) /\ Taken(q)) =>
        took[p] \geq now[q] + Window \/ took[q] \geq now[p] + Window

DedupInv ==
    /\ TypeOK
    /\ RunningIsYoung
    /\ TakenInTime
    /\ ReleasesOwnReservation
    /\ SentStaysReserved
    /\ WorkAfterWindow
    /\ SentApart
    /\ NoStuckReservation

-----------------------------------------------------------------------------
USE TimesAssumption, WindowAssumption

(* Before any call there is nothing to keep apart. *)
LEMMA InitDedup == Init => DedupInv
BY DEF Init, DedupInv, TypeOK, RunningIsYoung, Running, TakenInTime, Taken,
       ReleasesOwnReservation, SentStaysReserved, WorkAfterWindow, AtWork, Rivals,
       SentApart, NoStuckReservation

(* Time that passes leaves every running call young. *)
LEMMA TickDedup ==
    ASSUME DedupInv, Tick
    PROVE  DedupInv'
<1> USE DEF DedupInv
<1>1. TypeOK'
  BY DEF TypeOK, Tick
<1>2. RunningIsYoung'
  BY DEF TypeOK, RunningIsYoung, Running, Tick
<1>3. TakenInTime'
  BY DEF TypeOK, TakenInTime, Taken, Tick
<1>4. ReleasesOwnReservation'
  BY DEF TypeOK, ReleasesOwnReservation, Tick
<1>5. SentStaysReserved'
  BY DEF TypeOK, SentStaysReserved, Taken, Tick
<1>6. WorkAfterWindow'
  BY DEF TypeOK, WorkAfterWindow, AtWork, Rivals, Taken, Tick
<1>7. SentApart'
  BY DEF TypeOK, SentApart, Rivals, Taken, Tick
<1>8. NoStuckReservation'
  BY DEF TypeOK, NoStuckReservation, Taken, Tick
<1> QED
  BY <1>1, <1>2, <1>3, <1>4, <1>5, <1>6, <1>7, <1>8

(* A restart leaves nothing reserved and nothing at work. *)
LEMMA RestartDedup ==
    ASSUME DedupInv, Restart
    PROVE  DedupInv'
<1> USE DEF DedupInv
<1>1. TypeOK'
  BY DEF TypeOK, Restart, Running
<1>2. RunningIsYoung'
  BY DEF TypeOK, RunningIsYoung, Running, Restart
<1>3. TakenInTime'
  BY DEF TypeOK, TakenInTime, Taken, Restart, Running
<1>4. ReleasesOwnReservation'
  BY DEF TypeOK, ReleasesOwnReservation, Restart, Running
<1>5. SentStaysReserved'
  BY DEF TypeOK, SentStaysReserved, Taken, Restart, Running
<1>6. WorkAfterWindow'
  BY DEF TypeOK, WorkAfterWindow, AtWork, Rivals, Taken, Restart, Running
<1>7. SentApart'
  BY DEF TypeOK, SentApart, Rivals, Taken, Restart, Running
<1>8. NoStuckReservation'
  BY DEF TypeOK, NoStuckReservation, Taken, Restart, Running
<1> QED
  BY <1>1, <1>2, <1>3, <1>4, <1>5, <1>6, <1>7, <1>8

(* A call that begins is as young as can be. *)
LEMMA BeginDedup ==
    ASSUME NEW p \in Requests, DedupInv, Begin(p)
    PROVE  DedupInv'
<1> USE DEF DedupInv
<1>1. TypeOK'
  BY DEF TypeOK, Begin, Goto, TakenInTime
<1>2. RunningIsYoung'
  BY DEF TypeOK, RunningIsYoung, Running, Begin, Goto, TakenInTime
<1>3. TakenInTime'
  BY DEF TypeOK, TakenInTime, Taken, Begin, Goto
<1>4. ReleasesOwnReservation'
  BY DEF TypeOK, ReleasesOwnReservation, Begin, Goto, TakenInTime
<1>5. SentStaysReserved'
  BY DEF TypeOK, SentStaysReserved, Taken, Begin, Goto, TakenInTime
<1>6. WorkAfterWindow'
  BY DEF TypeOK, WorkAfterWindow, AtWork, Rivals, Taken, Begin, Goto, TakenInTime
<1>7. SentApart'
  BY DEF TypeOK, SentApart, Rivals, Taken, Begin, Goto, TakenInTime
<1>8. NoStuckReservation'
  BY DEF TypeOK, NoStuckReservation, Taken, Begin, Goto, TakenInTime
<1> QED
  BY <1>1, <1>2, <1>3, <1>4, <1>5, <1>6, <1>7, <1>8

(* A reservation is granted alone, or a window after the last one. *)
LEMMA ReserveDedup ==
    ASSUME NEW p \in Requests, DedupInv, Reserve(p)
    PROVE  DedupInv'
<1> USE DEF DedupInv
<1>1. TypeOK'
  BY DEF TypeOK, Reserve, Goto, Cleaned, Expired, RunningIsYoung, Running, TakenInTime, ReleasesOwnReservation, SentStaysReserved
<1>2. RunningIsYoung'
  BY DEF TypeOK, RunningIsYoung, Running, Reserve, Goto, Cleaned, Expired, TakenInTime, ReleasesOwnReservation, SentStaysReserved
<1>3. TakenInTime'
  BY DEF TypeOK, TakenInTime, Taken, Reserve, Goto, Cleaned, Expired, RunningIsYoung, Running, ReleasesOwnReservation, SentStaysReserved
<1>4. ReleasesOwnReservation'
  BY DEF TypeOK, ReleasesOwnReservation, Reserve, Goto, Cleaned, Expired, RunningIsYoung, Running, TakenInTime, SentStaysReserved
<1>5. SentStaysReserved'
  BY DEF TypeOK, SentStaysReserved, Taken, Reserve, Goto, Cleaned, Expired, RunningIsYoung, Running, TakenInTime, ReleasesOwnReservation
<1>6. WorkAfterWindow'
  BY DEF TypeOK, WorkAfterWindow, AtWork, Rivals, Taken, Reserve, Goto, Cleaned, Expired, RunningIsYoung, Running, TakenInTime, ReleasesOwnReservation, SentStaysReserved
<1>7. SentApart'
  BY DEF TypeOK, SentApart, Rivals, Taken, Reserve, Goto, Cleaned, Expired, RunningIsYoung, Running, TakenInTime, ReleasesOwnReservation, SentStaysReserved
<1>8. NoStuckReservation'
  BY DEF TypeOK, NoStuckReservation, Taken, Reserve, Goto, Cleaned, Expired, RunningIsYoung, Running, TakenInTime, ReleasesOwnReservation, SentStaysReserved
<1> QED
  BY <1>1, <1>2, <1>3, <1>4, <1>5, <1>6, <1>7, <1>8

(* A call that is sent had its key alone. *)
LEMMA SendOkDedup ==
    ASSUME NEW p \in Requests, DedupInv, SendOk(p)
    PROVE  DedupInv'
<1> USE DEF DedupInv
<1>1. TypeOK'
  BY DEF TypeOK, SendOk, Goto, RunningIsYoung, Running, TakenInTime, ReleasesOwnReservation, WorkAfterWindow, AtWork, Rivals
<1>2. RunningIsYoung'
  BY DEF TypeOK, RunningIsYoung, Running, SendOk, Goto, TakenInTime, ReleasesOwnReservation, WorkAfterWindow, AtWork, Rivals
<1>3. TakenInTime'
  BY DEF TypeOK, TakenInTime, Taken, SendOk, Goto, RunningIsYoung, Running, ReleasesOwnReservation, WorkAfterWindow, AtWork, Rivals
<1>4. ReleasesOwnReservation'
  BY DEF TypeOK, ReleasesOwnReservation, SendOk, Goto, RunningIsYoung, Running, TakenInTime, WorkAfterWindow, AtWork, Rivals
<1>5. SentStaysReserved'
  BY DEF TypeOK, SentStaysReserved, Taken, SendOk, Goto, RunningIsYoung, Running, TakenInTime, ReleasesOwnReservation, WorkAfterWindow, AtWork, Rivals
<1>6. WorkAfterWindow'
  BY DEF TypeOK, WorkAfterWindow, AtWork, Rivals, Taken, SendOk, Goto, RunningIsYoung, Running, TakenInTime, ReleasesOwnReservation
<1>7. SentApart'
  BY DEF TypeOK, SentApart, Rivals, Taken, SendOk, Goto, RunningIsYoung, Running, TakenInTime, ReleasesOwnReservation, WorkAfterWindow, AtWork
<1>8. NoStuckReservation'
  BY DEF TypeOK, NoStuckReservation, Taken, SendOk, Goto, RunningIsYoung, Running, TakenInTime, ReleasesOwnReservation, WorkAfterWindow, AtWork, Rivals
<1> QED
  BY <1>1, <1>2, <1>3, <1>4, <1>5, <1>6, <1>7, <1>8

(* A call whose sender failed holds its key until it gives it back. *)
LEMMA SendFailsDedup ==
    ASSUME NEW p \in Requests, DedupInv, SendFails(p)
    PROVE  DedupInv'
<1> USE DEF DedupInv
<1>1. TypeOK'
  BY DEF TypeOK, SendFails, Goto, TakenInTime
<1>2. RunningIsYoung'
  BY DEF TypeOK, RunningIsYoung, Running, SendFails, Goto, TakenInTime
<1>3. TakenInTime'
  BY DEF TypeOK, TakenInTime, Taken, SendFails, Goto
<1>4. ReleasesOwnReservation'
  BY DEF TypeOK, ReleasesOwnReservation, SendFails, Goto, TakenInTime
<1>5. SentStaysReserved'
  BY DEF TypeOK, SentStaysReserved, Taken, SendFails, Goto, TakenInTime
<1>6. WorkAfterWindow'
  BY DEF TypeOK, WorkAfterWindow, AtWork, Rivals, Taken, SendFails, Goto, TakenInTime
<1>7. SentApart'
  BY DEF TypeOK, SentApart, Rivals, Taken, SendFails, Goto, TakenInTime
<1>8. NoStuckReservation'
  BY DEF TypeOK, NoStuckReservation, Taken, SendFails, Goto, TakenInTime
<1> QED
  BY <1>1, <1>2, <1>3, <1>4, <1>5, <1>6, <1>7, <1>8

(* A call gives back its own key only, or one whose window has passed. *)
LEMMA ReleaseDedup ==
    ASSUME NEW p \in Requests, DedupInv, Release(p)
    PROVE  DedupInv'
<1> USE DEF DedupInv
<1>1. TypeOK'
  BY DEF TypeOK, Release, Goto, RunningIsYoung, Running, TakenInTime, ReleasesOwnReservation, WorkAfterWindow, AtWork, Rivals
<1>2. RunningIsYoung'
  BY DEF TypeOK, RunningIsYoung, Running, Release, Goto, TakenInTime, ReleasesOwnReservation, WorkAfterWindow, AtWork, Rivals
<1>3. TakenInTime'
  BY DEF TypeOK, TakenInTime, Taken, Release, Goto, RunningIsYoung, Running, ReleasesOwnReservation, WorkAfterWindow, AtWork, Rivals
<1>4. ReleasesOwnReservation'
  BY DEF TypeOK, ReleasesOwnReservation, Release, Goto, RunningIsYoung, Running, TakenInTime, WorkAfterWindow, AtWork, Rivals
<1>5. SentStaysReserved'
  BY DEF TypeOK, SentStaysReserved, Taken, Release, Goto, RunningIsYoung, Running, TakenInTime, ReleasesOwnReservation, WorkAfterWindow, AtWork, Rivals
<1>6. WorkAfterWindow'
  BY DEF TypeOK, WorkAfterWindow, AtWork, Rivals, Taken, Release, Goto, RunningIsYoung, Running, TakenInTime, ReleasesOwnReservation
<1>7. SentApart'
  BY DEF TypeOK, SentApart, Rivals, Taken, Release, Goto, RunningIsYoung, Running, TakenInTime, ReleasesOwnReservation, WorkAfterWindow, AtWork
<1>8. NoStuckReservation'
  BY DEF TypeOK, NoStuckReservation, Taken, Release, Goto, RunningIsYoung, Running, TakenInTime, ReleasesOwnReservation, WorkAfterWindow, AtWork, Rivals
<1> QED
  BY <1>1, <1>2, <1>3, <1>4, <1>5, <1>6, <1>7, <1>8

(* DedupInv is inductive. *)
LEMMA StepDedup == DedupInv /\ [Next]_vars => DedupInv'
<1> SUFFICES ASSUME DedupInv, [Next]_vars PROVE DedupInv'
  OBVIOUS
<1>1. CASE Tick
  BY <1>1, TickDedup
<1>2. CASE Restart
  BY <1>2, RestartDedup
<1>3. ASSUME NEW p \in Requests,
             Begin(p) \/ Reserve(p) \/ SendOk(p) \/ SendFails(p) \/ Release(p)
      PROVE  DedupInv'
  BY <1>3, BeginDedup, ReserveDedup, SendOkDedup, SendFailsDedup, ReleaseDedup
<1>4. CASE UNCHANGED vars
  BY <1>4 DEF vars, DedupInv, TypeOK, RunningIsYoung, Running, TakenInTime, Taken,
       ReleasesOwnReservation, SentStaysReserved, WorkAfterWindow, AtWork, Rivals,
       SentApart, NoStuckReservation
<1> QED
  BY <1>1, <1>2, <1>3, <1>4 DEF Next

(* Every state Send can reach satisfies the inductive invariant. *)
THEOREM DedupInvariant == Spec => []DedupInv
BY InitDedup, StepDedup, PTL DEF Spec

(* Calls, times and reservations are well typed.                           *)
THEOREM DedupTyped == Spec => []TypeOK
<1>1. DedupInv => TypeOK
  BY DEF DedupInv
<1> QED
  BY <1>1, DedupInvariant, PTL

(* A call that is at work holds its own reservation and is alone with its  *)
(* key, so releaseDedupKey never deletes what another call relies on.      *)
THEOREM ReservationCorrect == Spec => []ReleasesOwnReservation
<1>1. DedupInv => ReleasesOwnReservation
  BY DEF DedupInv
<1> QED
  BY <1>1, DedupInvariant, PTL

(* No failed call leaves a reservation behind that would swallow its retry.*)
THEOREM RetryCorrect == Spec => []NoStuckReservation
<1>1. DedupInv => NoStuckReservation
  BY DEF DedupInv
<1> QED
  BY <1>1, DedupInvariant, PTL

(* The provider takes two calls of one key and one run of the process at   *)
(* least a window, less the time a call may run, apart.                    *)
THEOREM DedupCorrect == Spec => []AtMostOncePerWindow
<1>1. ASSUME DedupInv PROVE AtMostOncePerWindow
  <2> SUFFICES ASSUME NEW p \in Requests, NEW q \in Requests, Rivals(p, q),
                      Taken(p), Taken(q), took[p] \leq took[q]
               PROVE  took[q] + HandlingTime \geq took[p] + Window
    BY DEF AtMostOncePerWindow, Rivals
  <2>1. took[p] \in Nat /\ took[q] \in Nat /\ now[p] \in Nat /\ now[q] \in Nat
    BY <1>1 DEF DedupInv, TypeOK, Taken
  <2>2. took[p] \geq now[q] + Window \/ took[q] \geq now[p] + Window
    BY <1>1 DEF DedupInv, SentApart
  <2>3. took[p] \leq now[p] + HandlingTime /\ took[q] \leq now[q] + HandlingTime
    BY <1>1 DEF DedupInv, TakenInTime
  <2> QED
    BY <2>1, <2>2, <2>3
<1> QED
  BY <1>1, DedupInvariant, PTL

-----------------------------------------------------------------------------
(* The keys held in the abstract service are those of calls at work, and   *)
(* these are reserved.                                                     *)
LEMMA HeldAtWork ==
    ASSUME DedupInv
    PROVE  \A k \in Service!Held : \E q \in Requests :
               AtWork(q) /\ k = key[q] /\ sentAt[k] = now[q] /\ k \in Keys
<1> SUFFICES ASSUME NEW k \in Service!Held
             PROVE  \E q \in Requests :
                        AtWork(q) /\ k = key[q] /\ sentAt[k] = now[q] /\ k \in Keys
  OBVIOUS
<1>1. PICK q \in Requests : places[q] = "send" /\ k = key[q]
  BY DEF Service!Held
<1>2. pc[q] \in {"idle", "reserve", "send", "release", "duplicate", "sent", "failed", "cut"}
  BY DEF DedupInv, TypeOK
<1>3. AtWork(q)
  BY <1>1, <1>2 DEF places, AtWork
<1>4. sentAt[key[q]] = now[q] /\ key[q] \in Keys
  BY <1>3 DEF AtWork, DedupInv, TypeOK, ReleasesOwnReservation
<1> QED
  BY <1>1, <1>3, <1>4

(* A call that goes from one place to another moves alone.                 *)
LEMMA MovesAlone ==
    ASSUME TypeOK, NEW p \in Requests,
           NEW to \in {"reserve", "send", "release", "sent", "duplicate", "failed"},
           NEW there, Goto(p, to), UNCHANGED key,
           there = CASE to = "reserve" -> "net"
                     [] to \in {"send", "release"} -> "send"
                     [] to = "sent" -> "taken"
                     [] to = "duplicate" -> "duplicate"
                     [] OTHER -> "failed"
    PROVE  Service!Reaches(p, there)
<1>1. pc' = [pc EXCEPT ![p] = to]
  BY DEF Goto
<1>2. pc'[p] = to /\ \A q \in Requests : q # p => pc'[q] = pc[q]
  BY <1>1 DEF TypeOK
<1>3. places'[p] = there
  BY <1>2 DEF places
<1>4. \A q \in Requests : q # p => places'[q] = places[q]
  BY <1>2 DEF places
<1>5. places' = [places EXCEPT ![p] = there]
  BY <1>3, <1>4 DEF places
<1> QED
  BY <1>5 DEF Service!Reaches

(* Reserve, with the expired reservations dropped, enters the service: the *)
(* reservation of a call at work is too young to be among them.            *)
LEMMA ReserveRefines ==
    ASSUME DedupInv, NEW p \in Requests, Reserve(p)
    PROVE  Service!Enter(p)
<1> DEFINE left == Cleaned(now[p])
           kept == {k \in Keys : left[k] # Never}
<1>1. TypeOK
  BY DEF DedupInv
<1>2. places[p] = "net"
  BY DEF Reserve, places
<1>3. \A k \in Keys : left[k] # Never => left[k] = sentAt[k]
  BY DEF Cleaned
<1>4. kept \in SUBSET reservedKeys
  BY <1>3 DEF reservedKeys
<1>5. Service!Held \subseteq kept
  <2> SUFFICES ASSUME NEW k \in Service!Held PROVE k \in kept
    OBVIOUS
  <2>1. PICK q \in Requests : AtWork(q) /\ k = key[q] /\ sentAt[k] = now[q] /\ k \in Keys
    BY HeldAtWork
  <2>2. clock \leq now[q] + HandlingTime /\ now[p] \leq clock
    BY <2>1 DEF DedupInv, RunningIsYoung, Running, AtWork, TypeOK
  <2>3. now[p] \in Nat /\ now[q] \in Nat /\ clock \in Nat
    BY <1>1 DEF TypeOK
  <2>4. ~(now[p] \geq now[q] + Window)
    BY <2>2, <2>3
  <2>5. ~Expired(now[p], sentAt[k])
    BY <2>1, <2>4 DEF Expired
  <2>6. left[k] = now[q]
    BY <2>1, <2>5 DEF Cleaned
  <2> QED
    BY <2>1, <2>3, <2>6
<1>6. key[p] \in Keys /\ now[p] # Never
  BY <1>1 DEF TypeOK
<1>7. CASE key[p] \in kept
  <2>1. Goto(p, "duplicate") /\ sentAt' = left /\ UNCHANGED key
    BY <1>7 DEF Reserve
  <2>2. Service!Reaches(p, "duplicate")
    BY <1>1, <2>1, MovesAlone
  <2>3. reservedKeys' = kept
    BY <2>1 DEF reservedKeys
  <2> QED
    BY <1>2, <1>4, <1>5, <1>7, <2>2, <2>3 DEF Service!Enter
<1>8. CASE key[p] \notin kept
  <2>1. Goto(p, "send") /\ sentAt' = [left EXCEPT ![key[p]] = now[p]] /\ UNCHANGED key
    BY <1>6, <1>8 DEF Reserve
  <2>2. Service!Reaches(p, "send")
    BY <1>1, <2>1, MovesAlone
  <2>3. \A k \in Keys : sentAt'[k] = IF k = key[p] THEN now[p] ELSE left[k]
    BY <2>1 DEF Cleaned
  <2>4. reservedKeys' = kept \cup {key[p]}
    BY <1>6, <2>3 DEF reservedKeys
  <2> QED
    BY <1>2, <1>4, <1>5, <1>8, <2>2, <2>4 DEF Service!Enter
<1> QED
  BY <1>7, <1>8

(* The provider's answer takes a call to its end, and a sender that failed *)
(* keeps its key until Release, which is when the service sees it fail.    *)
LEMMA SendRefines ==
    ASSUME DedupInv, NEW p \in Requests
    PROVE  /\ SendOk(p) => Service!Take(p)
           /\ SendFails(p) => UNCHANGED <<places, key, reservedKeys>>
           /\ Release(p) => Service!Fail(p)
<1>1. TypeOK
  BY DEF DedupInv
<1>2. ASSUME SendOk(p) PROVE Service!Take(p)
  <2>1. places[p] = "send"
    BY <1>2 DEF SendOk, places
  <2>2. Service!Reaches(p, "taken")
    BY <1>1, <1>2, MovesAlone DEF SendOk
  <2>3. UNCHANGED reservedKeys
    BY <1>2 DEF SendOk, reservedKeys
  <2> QED
    BY <2>1, <2>2, <2>3 DEF Service!Take
<1>3. ASSUME SendFails(p) PROVE UNCHANGED <<places, key, reservedKeys>>
  <2>1. \A q \in Requests : pc'[q] = IF q = p THEN "release" ELSE pc[q]
    BY <1>1, <1>3 DEF SendFails, Goto, TypeOK
  <2>2. \A q \in Requests : places'[q] = places[q]
    BY <1>3, <2>1 DEF SendFails, places
  <2>3. UNCHANGED places
    BY <2>2 DEF places
  <2> QED
    BY <1>3, <2>3 DEF SendFails, reservedKeys
<1>4. ASSUME Release(p) PROVE Service!Fail(p)
  <2>1. places[p] = "send"
    BY <1>4 DEF Release, places
  <2>2. Service!Reaches(p, "failed")
    BY <1>1, <1>4, MovesAlone DEF Release
  <2>3. reservedKeys' = reservedKeys \ {key[p]}
    BY <1>1, <1>4 DEF Release, reservedKeys, TypeOK
  <2> QED
    BY <2>1, <2>2, <2>3 DEF Service!Fail
<1> QED
  BY <1>2, <1>3, <1>4

(* A restart of the process is one of the service, cutting the calls that  *)
(* had begun.                                                              *)
LEMMA RestartRefines ==
    ASSUME DedupInv, Restart
    PROVE  Service!Restart
<1> DEFINE cut == {p \in Requests : pc[p] = "reserve"}
<1>1. pc' = [p \in Requests |-> IF Running(p) THEN "cut" ELSE pc[p]]
  BY DEF Restart
<1>2. reservedKeys' = {} /\ UNCHANGED key
  BY DEF Restart, reservedKeys
<1>3. cut \in SUBSET {p \in Requests : places[p] = "net"}
  BY DEF places
<1>4. ASSUME NEW p \in Requests
      PROVE  places'[p] = IF places[p] = "send" \/ p \in cut THEN "failed" ELSE places[p]
  <2>1. pc[p] \in {"idle", "reserve", "send", "release", "duplicate", "sent", "failed", "cut"}
    BY DEF DedupInv, TypeOK
  <2>2. pc'[p] = IF Running(p) THEN "cut" ELSE pc[p]
    BY <1>1
  <2> QED
    BY <2>1, <2>2 DEF Running, places
<1>5. places' = [p \in Requests |->
                    IF places[p] = "send" \/ p \in cut THEN "failed" ELSE places[p]]
  BY <1>4 DEF places
<1> QED
  BY <1>2, <1>3, <1>5 DEF Service!Restart

(* A call that begins has reached the service.                             *)
LEMMA BeginRefines ==
    ASSUME DedupInv, NEW p \in Requests, Begin(p)
    PROVE  Service!Ask(p)
<1>1. places[p] = "none"
  BY DEF Begin, places
<1>2. Service!Reaches(p, "net")
  BY MovesAlone DEF Begin, DedupInv
<1>3. UNCHANGED reservedKeys
  BY DEF Begin, reservedKeys
<1> QED
  BY <1>1, <1>2, <1>3 DEF Service!Ask

(* Every step is one of the service, or none.                              *)
LEMMA StepRefines ==
    DedupInv /\ [Next]_vars => [Service!ServiceNext]_(Service!serviceVars)
<1> SUFFICES ASSUME DedupInv, [Next]_vars
             PROVE  Service!ServiceNext \/ UNCHANGED <<places, key, reservedKeys>>
  BY DEF Service!serviceVars
<1>1. CASE Restart
  BY <1>1, RestartRefines DEF Service!ServiceNext
<1>2. ASSUME NEW p \in Requests,
             Begin(p) \/ Reserve(p) \/ SendOk(p) \/ SendFails(p) \/ Release(p)
      PROVE  Service!ServiceNext \/ UNCHANGED <<places, key, reservedKeys>>
  BY <1>2, BeginRefines, ReserveRefines, SendRefines DEF Service!ServiceNext
<1>3. CASE Tick \/ UNCHANGED vars
  BY <1>3 DEF Tick, vars, places, reservedKeys
<1> QED
  BY <1>1, <1>2, <1>3 DEF Next

(* Send implements the service that its callers rely on: what expiry drops *)
(* early or late, and what a failing call deletes, never takes the key of  *)
(* another call at work, whatever the window, if it is longer than a call. *)
THEOREM DedupImplementsService == Spec => ImplementsNotificationService
<1>1. Init => Service!ServiceInit
  <2> SUFFICES ASSUME Init PROVE Service!ServiceInit
    OBVIOUS
  <2>1. places = [p \in Requests |-> "none"] /\ key \in [Requests -> Keys]
    BY DEF Init, places
  <2>2. reservedKeys = {}
    BY DEF Init, reservedKeys
  <2> QED
    BY <2>1, <2>2 DEF Service!ServiceInit
<1> QED
  BY <1>1, StepRefines, DedupInvariant, PTL
     DEF Spec, ImplementsNotificationService, Service!ServiceSpec
=============================================================================
