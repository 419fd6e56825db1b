-------------------------- MODULE CarrierSyncProofs --------------------------
(***************************************************************************)
(* The safety properties of CarrierSync, for every number of orders, every *)
(* batch, every number of attempts and of restarts.  The invariant has     *)
(* three parts: what the tracking-service has applied (OrderInv), where    *)
(* the updates handed out are (WorkInv), and what ties the requests to     *)
(* the worker's counts (RequestInv).                                       *)
(***************************************************************************)
EXTENDS CarrierSync, TLAPS

OrderOf(r) == Update(r.place).order
StatusOf(r) == MapExternalStatus(Update(r.place).external)

(* How far a status is along the lifecycle. *)
Rank == [s \in Statuses |->
            IF s = "created" THEN 0 ELSE IF s = "assigned" THEN 1
            ELSE IF s = "in_transit" THEN 2 ELSE 3]

Distinct(s) == \A i, j \in 1..Len(s) : s[i] = s[j] => i = j

(* What was applied to an order is behind it now, and it was no repetition. *)
OrderInv ==
    /\ status \in [Orders -> Statuses]
    /\ applied \subseteq Requests
    /\ \A r \in applied :
        StatusOf(r) \in Statuses /\ Rank[StatusOf(r)] \leq Rank[status[OrderOf(r)]]
    /\ AppliedAtMostOnce

WorkTypes ==
    /\ cursor \in 0..MaxCursor
    /\ unsure \subseteq 0..MaxCursor
    /\ boot \in 0..MaxBoots
    /\ pc \in {"idle", "fetch", "store", "push", "wait"}
    /\ attempt \in 0..RetryMaxAttempts
    /\ batch \in Seq(0..MaxCursor)
    /\ Distinct(batch)
    /\ pc \in {"idle", "fetch"} => batch = <<>>
    /\ pc \in {"store", "push", "wait"} => batch # <<>>
    /\ pc # "idle" => attempt # 0

(* The parts of the stream that UpdatesAccountedFor names. *)
PartsInv ==
    /\ shown \cup synced \cup failed \cup Elements(batch) = 0..(cursor - 1)
    /\ shown \cap synced = {}
    /\ shown \cap failed = {}
    /\ shown \cap Elements(batch) = {}
    /\ synced \cap failed = {}
    /\ synced \cap Elements(batch) = {}
    /\ failed \cap Elements(batch) = {}

ShownInv ==
    /\ manual \in Seq(0..MaxCursor)
    /\ Elements(manual) \subseteq 0..(cursor - 1)
    /\ lastKnown \in Seq(0..MaxCursor)
    /\ Elements(lastKnown) \subseteq 0..(cursor - 1)

WorkInv == WorkTypes /\ PartsInv /\ ShownInv

(* Where a request of this boot stands.  Those of the update at work are   *)
(* of its attempts so far.  If its update has not been counted as synced,  *)
(* then the worker still waits for this very request, or is unsure of it.  *)
Traced(r) ==
    /\ r.place \in Elements(batch) =>
        /\ pc \in {"push", "wait"}
        /\ r.place = Head(batch)
        /\ r.attempt < attempt \/ (pc = "wait" /\ r.attempt = attempt)
    /\ r.place \in failed \cup Elements(batch) =>
        r.place \in unsure \/ (pc = "wait" /\ r = CurrentRequest)

(* A request names an update handed out since its process began.           *)
RequestInv ==
    /\ net \subseteq Requests
    /\ net \cap applied = {}
    /\ \A r \in net \cup applied :
        r.boot \leq boot /\ (r.boot = boot => r.place < cursor /\ Traced(r))
    /\ synced \subseteq AppliedNow

-----------------------------------------------------------------------------
(* The constants are positive numbers. *)
LEMMA CarrierConstants ==
    /\ BatchSize \in Nat /\ BatchSize \geq 1
    /\ ManualBatchSizes \subseteq Nat \ {0}
    /\ RetryMaxAttempts \in Nat /\ RetryMaxAttempts \geq 1
    /\ MaxCursor \in Nat /\ MaxBoots \in Nat
    /\ Len(MockOrderIDs) \in Nat /\ Len(MockOrderIDs) \geq 1
  BY CountsAssumption

(* Every transition the tracking-service allows leads onward. *)
LEMMA TransitionOnward ==
    ASSUME NEW s \in Statuses, NEW t, ValidateStatusTransition(s, t)
    PROVE  t \in Statuses /\ Rank[s] < Rank[t]
  BY DEF ValidateStatusTransition, AllowedTransitions, Statuses, Rank

(* Ranks are numbers. *)
LEMMA RankNat == \A s \in Statuses : Rank[s] \in Nat
  BY DEF Rank, Statuses

(* Every update of the stream is about an order the carrier knows. *)
LEMMA OrderKnown ==
    ASSUME NEW r \in Requests
    PROVE  OrderOf(r) \in Orders
  <1>1. r.place \in Nat
    BY CarrierConstants DEF Requests
  <1>2. (r.place % Len(MockOrderIDs)) + 1 \in 1..Len(MockOrderIDs)
    BY <1>1, CarrierConstants
  <1>3. OrderOf(r) = MockOrderIDs[(r.place % Len(MockOrderIDs)) + 1]
    BY DEF OrderOf, Update
  <1> QED
    BY <1>2, <1>3 DEF Orders

(* A batch is a run of the stream. *)
LEMMA PlacesFacts ==
    ASSUME NEW from \in Nat, NEW n \in Nat, n \geq 1
    PROVE  /\ Places(from, n) \in Seq(from..(from + n - 1))
           /\ Places(from, n) # <<>>
           /\ Distinct(Places(from, n))
           /\ Elements(Places(from, n)) = from..(from + n - 1)
  <1> DEFINE s == Places(from, n)
  <1>1. s \in Seq(from..(from + n - 1)) /\ Len(s) = n
    BY DEF Places
  <1>2. \A i \in 1..n : s[i] = from + i - 1
    BY DEF Places
  <1>3. s # <<>>
    BY <1>1
  <1>4. Distinct(s)
    BY <1>1, <1>2 DEF Distinct
  <1>5. ASSUME NEW x \in from..(from + n - 1) PROVE x \in Elements(s)
    <2>1. x - from + 1 \in 1..n /\ s[x - from + 1] = x
      BY <1>2
    <2> QED
      BY <1>1, <2>1 DEF Elements
  <1>6. ASSUME NEW x \in Elements(s) PROVE x \in from..(from + n - 1)
    BY <1>1, <1>2 DEF Elements
  <1> QED
    BY <1>1, <1>3, <1>4, <1>5, <1>6

(* The worker goes through its batch from the head. *)
LEMMA HeadTailFacts ==
    ASSUME NEW S, NEW s \in Seq(S), s # <<>>, Distinct(s)
    PROVE  /\ Head(s) \in Elements(s) /\ Head(s) \in S
           /\ Tail(s) \in Seq(S)
           /\ Distinct(Tail(s))
           /\ Elements(Tail(s)) = Elements(s) \ {Head(s)}
  <1>1. Len(s) \in Nat /\ Len(s) \geq 1 /\ Head(s) = s[1]
    OBVIOUS
  <1>2. Tail(s) \in Seq(S) /\ Len(Tail(s)) = Len(s) - 1
    OBVIOUS
  <1>3. \A i \in 1..(Len(s) - 1) : Tail(s)[i] = s[i + 1]
    OBVIOUS
  <1>4. Distinct(Tail(s))
    BY <1>1, <1>2, <1>3 DEF Distinct
  <1>5. ASSUME NEW x \in Elements(Tail(s)) PROVE x \in Elements(s) \ {Head(s)}
    <2>1. PICK i \in 1..(Len(s) - 1) : x = s[i + 1]
      BY <1>2, <1>3 DEF Elements
    <2> QED
      BY <1>1, <2>1 DEF Elements, Distinct
  <1>6. ASSUME NEW x \in Elements(s) \ {Head(s)} PROVE x \in Elements(Tail(s))
    <2>1. PICK i \in 1..Len(s) : x = s[i]
      BY DEF Elements
    <2>2. i - 1 \in 1..(Len(s) - 1) /\ Tail(s)[i - 1] = x
      BY <1>1, <1>3, <2>1
    <2> QED
      BY <1>2, <2>2 DEF Elements
  <1> QED
    BY <1>1, <1>2, <1>4, <1>5, <1>6 DEF Elements

-----------------------------------------------------------------------------
(* An order that goes onward keeps what was applied to it behind it.       *)
LEMMA OnwardKeeps ==
    ASSUME OrderInv, NEW o \in Orders, NEW t,
           ValidateStatusTransition(status[o], t),
           status' = [status EXCEPT ![o] = t]
    PROVE  /\ status' \in [Orders -> Statuses]
           /\ \A r \in applied :
                StatusOf(r) \in Statuses /\ Rank[StatusOf(r)] \leq Rank[status'[OrderOf(r)]]
  <1>1. status[o] \in Statuses
    BY DEF OrderInv
  <1>2. t \in Statuses /\ Rank[status[o]] < Rank[t]
    BY <1>1, TransitionOnward
  <1>3. status' \in [Orders -> Statuses]
    BY <1>2 DEF OrderInv
  <1>4. ASSUME NEW r \in applied
        PROVE  StatusOf(r) \in Statuses /\ Rank[StatusOf(r)] \leq Rank[status'[OrderOf(r)]]
    <2>1. StatusOf(r) \in Statuses /\ Rank[StatusOf(r)] \leq Rank[status[OrderOf(r)]]
      BY DEF OrderInv
    <2>2. OrderOf(r) \in Orders
      BY OrderKnown DEF OrderInv
    <2>3. CASE OrderOf(r) # o
      BY <2>1, <2>2, <2>3 DEF OrderInv
    <2>4. CASE OrderOf(r) = o
      <3>1. status'[OrderOf(r)] = t
        BY <2>4 DEF OrderInv
      <3>2. Rank[StatusOf(r)] \in Nat /\ Rank[status[o]] \in Nat /\ Rank[t] \in Nat
        BY <1>1, <1>2, <2>1, RankNat
      <3> QED
        BY <1>2, <2>1, <2>4, <3>1, <3>2
    <2> QED
      BY <2>3, <2>4
  <1> QED
    BY <1>3, <1>4

(* What the tracking-service does with a request keeps OrderInv.           *)
LEMMA HandleOrder ==
    ASSUME OrderInv, net \subseteq Requests, NEW r, NEW commits \in BOOLEAN, Handle(r, commits)
    PROVE  OrderInv'
  <1>1. r \in Requests
    BY DEF Handle
  <1>2. CASE ~commits
    <2>1. UNCHANGED <<status, applied>>
      BY <1>2 DEF Handle, tracking
    <2> QED
      BY <2>1 DEF OrderInv, AppliedAtMostOnce, SameChange
  <1>3. CASE commits
    <2>1. /\ ValidateStatusTransition(status[OrderOf(r)], StatusOf(r))
          /\ status' = [status EXCEPT ![OrderOf(r)] = StatusOf(r)]
          /\ applied' = applied \cup {r}
      BY <1>3 DEF Handle, Allowed, OrderOf, StatusOf
    <2>2. OrderOf(r) \in Orders
      BY <1>1, OrderKnown
    <2>3. status[OrderOf(r)] \in Statuses
      BY <2>2 DEF OrderInv
    <2>4. StatusOf(r) \in Statuses /\ Rank[status[OrderOf(r)]] < Rank[StatusOf(r)]
      BY <2>1, <2>3, TransitionOnward
    <2>5. /\ status' \in [Orders -> Statuses]
          /\ \A q \in applied :
                StatusOf(q) \in Statuses /\ Rank[StatusOf(q)] \leq Rank[status'[OrderOf(q)]]
      BY <2>1, <2>2, OnwardKeeps
    <2>6. status'[OrderOf(r)] = StatusOf(r)
      BY <2>1, <2>2 DEF OrderInv
    <2>7. Rank[StatusOf(r)] \leq Rank[status'[OrderOf(r)]]
      BY <2>4, <2>6, RankNat
    <2>8. ASSUME NEW q \in applied, SameChange(q, r) \/ SameChange(r, q) PROVE FALSE
      <3>1. OrderOf(q) = OrderOf(r) /\ StatusOf(q) = StatusOf(r)
        BY <2>8 DEF SameChange, OrderOf, StatusOf
      <3>2. Rank[StatusOf(q)] \leq Rank[status[OrderOf(q)]]
        BY DEF OrderInv
      <3> QED
        BY <2>3, <2>4, <3>1, <3>2, RankNat
    <2>9. AppliedAtMostOnce'
      BY <2>1, <2>8 DEF AppliedAtMostOnce, OrderInv, SameChange
    <2>10. applied' \subseteq Requests
      BY <1>1, <2>1 DEF OrderInv
    <2> QED
      BY <2>1, <2>4, <2>5, <2>7, <2>9, <2>10 DEF OrderInv
  <1> QED
    BY <1>2, <1>3

(* So does an update by another client.                                    *)
LEMMA ClientOrder ==
    ASSUME OrderInv, NEW o \in Orders, NEW s \in Statuses, ClientUpdate(o, s)
    PROVE  OrderInv'
  <1>1. /\ ValidateStatusTransition(status[o], s)
        /\ status' = [status EXCEPT ![o] = s]
        /\ applied' = applied
    BY DEF ClientUpdate
  <1>2. /\ status' \in [Orders -> Statuses]
        /\ \A q \in applied :
             StatusOf(q) \in Statuses /\ Rank[StatusOf(q)] \leq Rank[status'[OrderOf(q)]]
    BY <1>1, OnwardKeeps
  <1> QED
    BY <1>1, <1>2 DEF OrderInv, AppliedAtMostOnce, SameChange

(* And a step that leaves the orders alone.                                *)
LEMMA OrderFrame ==
    ASSUME OrderInv, UNCHANGED tracking
    PROVE  OrderInv'
  BY DEF OrderInv, AppliedAtMostOnce, SameChange, tracking

-----------------------------------------------------------------------------
(* The worker is done with the update at the head of its batch, which is   *)
(* counted as synced or as failed.                                         *)
LEMMA NextUpdateWork ==
    ASSUME WorkInv, pc = "wait", NextUpdate,
           UNCHANGED <<cursor, boot, lastKnown, manual, shown>>,
           unsure' \subseteq 0..MaxCursor,
           \/ failed' = failed \cup {Head(batch)} /\ synced' = synced
           \/ synced' = synced \cup {Head(batch)} /\ failed' = failed
    PROVE  WorkInv'
  <1>1. batch \in Seq(0..MaxCursor) /\ batch # <<>> /\ Distinct(batch)
    BY DEF WorkInv, WorkTypes
  <1>2. /\ Head(batch) \in Elements(batch)
        /\ Tail(batch) \in Seq(0..MaxCursor)
        /\ Distinct(Tail(batch))
        /\ Elements(Tail(batch)) = Elements(batch) \ {Head(batch)}
    BY <1>1, HeadTailFacts
  <1>3. batch' = Tail(batch)
    BY DEF NextUpdate
  <1>4. Elements(batch)' = Elements(batch) \ {Head(batch)}
    BY <1>2, <1>3 DEF Elements
  <1>5. WorkTypes'
    <2>1. batch' \in Seq(0..MaxCursor) /\ Distinct(batch)'
      BY <1>2, <1>3 DEF Distinct
    <2>2. \/ batch' = <<>> /\ pc' = "idle" /\ attempt' = 0
          \/ batch' # <<>> /\ pc' = "push" /\ attempt' = 1
      BY <1>3, Zenon DEF NextUpdate
    <2>3. cursor' \in 0..MaxCursor /\ boot' \in 0..MaxBoots /\ unsure' \subseteq 0..MaxCursor
      BY DEF WorkInv, WorkTypes
    <2>4. attempt' \in 0..RetryMaxAttempts
      BY <2>2, CarrierConstants
    <2>5. /\ pc' \in {"idle", "fetch", "store", "push", "wait"}
          /\ pc' \in {"idle", "fetch"} => batch' = <<>>
          /\ pc' \in {"store", "push", "wait"} => batch' # <<>>
          /\ pc' # "idle" => attempt' # 0
      BY <2>2
    <2> QED
      BY <2>1, <2>3, <2>4, <2>5 DEF WorkTypes
  <1>6. PartsInv'
    BY <1>2, <1>4 DEF WorkInv, PartsInv
  <1>7. ShownInv'
    BY DEF WorkInv, ShownInv, Elements
  <1> QED
    BY <1>5, <1>6, <1>7 DEF WorkInv

(* An attempt that failed loses no update.                                 *)
LEMMA AttemptFailsWork ==
    ASSUME WorkInv, pc = "wait", AttemptFails,
           UNCHANGED <<cursor, boot, lastKnown, manual, shown, synced>>,
           unsure' \in {unsure, unsure \cup {Head(batch)}}
    PROVE  WorkInv'
  <1>0. unsure' \subseteq 0..MaxCursor
    <2>1. /\ batch \in Seq(0..MaxCursor) /\ batch # <<>> /\ Distinct(batch)
          /\ unsure \subseteq 0..MaxCursor
      BY DEF WorkInv, WorkTypes
    <2>2. Head(batch) \in 0..MaxCursor
      BY <2>1, HeadTailFacts
    <2> QED
      BY <2>1, <2>2
  <1>1. CASE attempt < RetryMaxAttempts
    <2>1. attempt' = attempt + 1 /\ pc' = "push" /\ batch' = batch /\ failed' = failed
      BY <1>1 DEF AttemptFails
    <2>2. WorkTypes'
      BY <1>0, <1>1, <2>1, CarrierConstants DEF WorkInv, WorkTypes, Distinct
    <2>3. PartsInv' /\ ShownInv'
      BY <2>1 DEF WorkInv, PartsInv, ShownInv, Elements
    <2> QED
      BY <2>2, <2>3 DEF WorkInv
  <1>2. CASE ~(attempt < RetryMaxAttempts)
    <2>1. failed' = failed \cup {Head(batch)} /\ NextUpdate
      BY <1>2 DEF AttemptFails
    <2> QED
      BY <1>0, <2>1, NextUpdateWork
  <1> QED
    BY <1>1, <1>2

(* A step that leaves the worker and what it handed out alone.             *)
LEMMA WorkFrame ==
    ASSUME WorkInv, UNCHANGED <<worker, cursor, lastKnown, boot, manual, shown>>
    PROVE  WorkInv'
  BY DEF worker, WorkInv, WorkTypes, PartsInv, ShownInv, Distinct, Elements

(* A sequence over a set is one over any larger set.                       *)
LEMMA SeqGrow ==
    ASSUME NEW S, NEW T, S \subseteq T, NEW s \in Seq(S)
    PROVE  s \in Seq(T)
  <1>1. \A i \in 1..Len(s) : s[i] \in T
    OBVIOUS
  <1>2. Len(s) \in Nat /\ s = [i \in 1..Len(s) |-> s[i]]
    OBVIOUS
  <1> QED
    BY <1>1, <1>2

(* New updates in one of four disjoint parts leave them disjoint.          *)
LEMMA PartsGrow ==
    ASSUME NEW A, NEW B, NEW C, NEW D, NEW X, NEW U,
           A \cup B \cup C \cup D = U, U \cap X = {},
           A \cap B = {}, A \cap C = {}, A \cap D = {},
           B \cap C = {}, B \cap D = {}, C \cap D = {}
    PROVE  /\ (A \cup X) \cup B \cup C \cup D = U \cup X
           /\ (A \cup X) \cap B = {} /\ (A \cup X) \cap C = {} /\ (A \cup X) \cap D = {}
  <1>1. A \subseteq U /\ B \subseteq U /\ C \subseteq U /\ D \subseteq U
    OBVIOUS
  <1>2. X \cap B = {} /\ X \cap C = {} /\ X \cap D = {}
    BY <1>1
  <1> QED
    BY <1>2

(* Nothing is at work before a cycle, and a fetched batch is new.          *)
LEMMA FetchWork ==
    ASSUME WorkInv, Fetch
    PROVE  WorkInv'
  <1>1. cursor \in Nat /\ cursor' = cursor + BatchSize /\ cursor' \leq MaxCursor
    BY CarrierConstants DEF Fetch, WorkInv, WorkTypes
  <1>2. /\ batch' = Places(cursor, BatchSize)
        /\ batch' \in Seq(cursor..(cursor + BatchSize - 1))
        /\ batch' # <<>>
        /\ Distinct(batch)'
        /\ Elements(batch)' = cursor..(cursor + BatchSize - 1)
    <2>1. batch' = Places(cursor, BatchSize)
      BY DEF Fetch
    <2>2. /\ Places(cursor, BatchSize) \in Seq(cursor..(cursor + BatchSize - 1))
          /\ Places(cursor, BatchSize) # <<>>
          /\ Distinct(Places(cursor, BatchSize))
          /\ Elements(Places(cursor, BatchSize)) = cursor..(cursor + BatchSize - 1)
      BY <1>1, CarrierConstants, PlacesFacts
    <2> QED
      BY <2>1, <2>2 DEF Distinct, Elements
  <1>3. batch' \in Seq(0..MaxCursor)
    <2>1. cursor..(cursor + BatchSize - 1) \subseteq 0..MaxCursor
      BY <1>1, CarrierConstants
    <2> QED
      BY <1>2, <2>1, SeqGrow
  <1>4. WorkTypes'
    <2>1. /\ pc' = "store" /\ attempt' = attempt /\ boot' = boot /\ pc = "fetch"
          /\ unsure' = unsure
      BY DEF Fetch
    <2>2. /\ attempt \in 0..RetryMaxAttempts /\ attempt # 0 /\ boot \in 0..MaxBoots
          /\ unsure \subseteq 0..MaxCursor
      BY <2>1 DEF WorkInv, WorkTypes
    <2>3. cursor' \in 0..MaxCursor
      BY <1>1, CarrierConstants
    <2> QED
      BY <1>2, <1>3, <2>1, <2>2, <2>3 DEF WorkTypes
  <1>5. PartsInv'
    <2>1. batch = <<>> /\ Elements(batch) = {}
      BY DEF Fetch, WorkInv, WorkTypes, Elements
    <2>2. UNCHANGED <<shown, synced, failed>>
      BY DEF Fetch
    <2>3. shown \cup synced \cup failed = 0..(cursor - 1)
      BY <2>1 DEF WorkInv, PartsInv
    <2>4. 0..(cursor' - 1) = (0..(cursor - 1)) \cup (cursor..(cursor + BatchSize - 1))
      BY <1>1, CarrierConstants
    <2>5. (0..(cursor - 1)) \cap (cursor..(cursor + BatchSize - 1)) = {}
      BY <1>1
    <2>6. shown \cap synced = {} /\ shown \cap failed = {} /\ synced \cap failed = {}
      BY DEF WorkInv, PartsInv
    <2> DEFINE X == cursor..(cursor + BatchSize - 1)
               U == 0..(cursor - 1)
    <2> HIDE DEF X, U
    <2>7. /\ ({} \cup X) \cup shown \cup synced \cup failed = U \cup X
          /\ ({} \cup X) \cap shown = {} /\ ({} \cup X) \cap synced = {}
          /\ ({} \cup X) \cap failed = {}
      <3>1. {} \cup shown \cup synced \cup failed = U /\ U \cap X = {}
        BY <2>3, <2>5 DEF U, X
      <3>2. {} \cap shown = {} /\ {} \cap synced = {} /\ {} \cap failed = {}
        OBVIOUS
      <3> QED
        BY <2>6, <3>1, <3>2, PartsGrow
    <2>8. Elements(batch)' = X /\ 0..(cursor' - 1) = U \cup X
      BY <1>2, <2>4 DEF U, X
    <2> QED
      BY <2>2, <2>6, <2>7, <2>8 DEF PartsInv
  <1>6. ShownInv'
    <2>1. UNCHANGED <<manual, lastKnown>>
      BY DEF Fetch
    <2>2. 0..(cursor - 1) \subseteq 0..(cursor' - 1)
      BY <1>1, CarrierConstants
    <2> QED
      BY <2>1, <2>2 DEF WorkInv, ShownInv, Elements
  <1> QED
    BY <1>4, <1>5, <1>6 DEF WorkInv

(* A manual run takes the next updates of the stream for itself.           *)
LEMMA ManualFetchWork ==
    ASSUME WorkInv, ManualFetch
    PROVE  WorkInv'
  <1>0. PICK n \in ManualBatchSizes :
            /\ cursor + n \leq MaxCursor /\ cursor' = cursor + n
            /\ manual' = Places(cursor, n) /\ shown' = shown \cup Elements(Places(cursor, n))
    BY DEF ManualFetch
  <1>1. cursor \in Nat /\ n \in Nat /\ n \geq 1 /\ cursor' = cursor + n /\ cursor' \leq MaxCursor
    BY <1>0, CarrierConstants DEF WorkInv, WorkTypes
  <1>2. /\ manual' \in Seq(cursor..(cursor + n - 1))
        /\ Elements(manual)' = cursor..(cursor + n - 1)
    <2>1. manual' = Places(cursor, n)
      BY <1>0
    <2>2. /\ Places(cursor, n) \in Seq(cursor..(cursor + n - 1))
          /\ Elements(Places(cursor, n)) = cursor..(cursor + n - 1)
      BY <1>1, CarrierConstants, PlacesFacts
    <2> QED
      BY <2>1, <2>2 DEF Elements
  <1>3. /\ cursor..(cursor + n - 1) \subseteq 0..MaxCursor
        /\ cursor..(cursor + n - 1) \subseteq 0..(cursor' - 1)
        /\ 0..(cursor - 1) \subseteq 0..(cursor' - 1)
    BY <1>1, CarrierConstants
  <1>4. UNCHANGED <<pc, attempt, batch, synced, failed, unsure, boot, lastKnown>>
    BY DEF ManualFetch, worker
  <1>5. WorkTypes'
    <2>1. cursor' \in 0..MaxCursor
      BY <1>1, CarrierConstants
    <2> QED
      BY <1>4, <2>1 DEF WorkInv, WorkTypes, Distinct
  <1>6. PartsInv'
    <2>1. shown' = shown \cup (cursor..(cursor + n - 1))
      <3>1. Elements(Places(cursor, n)) = cursor..(cursor + n - 1)
        BY <1>1, PlacesFacts
      <3> QED
        BY <1>0, <3>1
    <2>2. Elements(batch)' = Elements(batch)
      BY <1>4 DEF Elements
    <2>3. 0..(cursor' - 1) = (0..(cursor - 1)) \cup (cursor..(cursor + n - 1))
      BY <1>1, CarrierConstants
    <2>4. (0..(cursor - 1)) \cap (cursor..(cursor + n - 1)) = {}
      BY <1>1
    <2> DEFINE X == cursor..(cursor + n - 1)
               U == 0..(cursor - 1)
               E == Elements(batch)
    <2>5. /\ shown \cup synced \cup failed \cup E = U
          /\ shown \cap synced = {} /\ shown \cap failed = {} /\ shown \cap E = {}
          /\ synced \cap failed = {} /\ synced \cap E = {} /\ failed \cap E = {}
      BY DEF WorkInv, PartsInv
    <2>6. shown' = shown \cup X /\ Elements(batch)' = E /\ 0..(cursor' - 1) = U \cup X
      BY <2>1, <2>2, <2>3
    <2>7. U \cap X = {}
      BY <2>4
    <2> HIDE DEF X, U, E
    <2>8. /\ (shown \cup X) \cup synced \cup failed \cup E = U \cup X
          /\ (shown \cup X) \cap synced = {} /\ (shown \cup X) \cap failed = {}
          /\ (shown \cup X) \cap E = {}
      BY <2>5, <2>7, PartsGrow
    <2> QED
      BY <1>4, <2>5, <2>6, <2>8 DEF PartsInv
  <1>7. ShownInv'
    <2>1. manual' \in Seq(0..MaxCursor)
      BY <1>2, <1>3, SeqGrow
    <2>2. Elements(manual)' \subseteq 0..(cursor' - 1)
      BY <1>2, <1>3
    <2>3. lastKnown' \in Seq(0..MaxCursor) /\ Elements(lastKnown)' \subseteq 0..(cursor' - 1)
      BY <1>3, <1>4 DEF WorkInv, ShownInv, Elements
    <2> QED
      BY <2>1, <2>2, <2>3 DEF ShownInv
  <1> QED
    BY <1>5, <1>6, <1>7 DEF WorkInv

(* The steps that hand out no update and finish none.                      *)
LEMMA OtherWork ==
    ASSUME WorkInv, StartCycle \/ FetchFails \/ Store \/ Push \/ ManualStore
    PROVE  WorkInv'
  <1>1. UNCHANGED <<batch, shown, synced, failed, unsure, cursor, boot>>
    BY DEF StartCycle, FetchFails, Store, Push, ManualStore, worker
  <1>2. PartsInv'
    BY <1>1 DEF WorkInv, PartsInv, Elements
  <1>3. ShownInv'
    <2>1. batch \in Seq(0..MaxCursor) /\ Elements(batch) \subseteq 0..(cursor - 1)
      BY DEF WorkInv, WorkTypes, PartsInv
    <2>2. /\ manual' \in {manual, <<>>}
          /\ lastKnown' \in {lastKnown, batch, manual}
      BY DEF StartCycle, FetchFails, Store, Push, ManualStore
    <2>3. Elements(<<>>) = {} /\ <<>> \in Seq(0..MaxCursor)
      BY DEF Elements
    <2>4. manual' \in Seq(0..MaxCursor) /\ Elements(manual') \subseteq 0..(cursor - 1)
      BY <2>2, <2>3 DEF WorkInv, ShownInv
    <2>5. lastKnown' \in Seq(0..MaxCursor) /\ Elements(lastKnown') \subseteq 0..(cursor - 1)
      BY <2>1, <2>2 DEF WorkInv, ShownInv
    <2> QED
      BY <1>1, <2>4, <2>5 DEF ShownInv, Elements
  <1>4. WorkTypes'
    <2>1. /\ pc' \in {"idle", "fetch", "store", "push", "wait"}
          /\ pc' \in {"idle", "fetch"} => batch = <<>>
          /\ pc' \in {"store", "push", "wait"} => batch # <<>>
      BY DEF WorkInv, WorkTypes, StartCycle, FetchFails, Store, Push, ManualStore, worker
    <2>2. attempt' \in 0..RetryMaxAttempts /\ (pc' # "idle" => attempt' # 0)
      BY CarrierConstants
         DEF WorkInv, WorkTypes, StartCycle, FetchFails, Store, Push, ManualStore, worker
    <2> QED
      BY <1>1, <2>1, <2>2 DEF WorkInv, WorkTypes, Distinct
  <1> QED
    BY <1>2, <1>3, <1>4 DEF WorkInv

(* A new process has handed out nothing.                                   *)
LEMMA RestartWork ==
    ASSUME WorkInv, Restart
    PROVE  WorkInv'
  <1>1. /\ cursor' = 0 /\ pc' = "idle" /\ attempt' = 0 /\ boot' = boot + 1 /\ boot < MaxBoots
        /\ batch' = <<>> /\ manual' = <<>> /\ lastKnown' = <<>>
        /\ shown' = {} /\ synced' = {} /\ failed' = {} /\ unsure' = {}
    BY DEF Restart
  <1>2. Elements(<<>>) = {} /\ Distinct(<<>>) /\ <<>> \in Seq(0..MaxCursor)
    BY DEF Elements, Distinct
  <1>3. boot' \in 0..MaxBoots
    BY <1>1, CarrierConstants DEF WorkInv, WorkTypes
  <1>4. Elements(batch)' = {} /\ Elements(manual)' = {} /\ Elements(lastKnown)' = {}
    BY <1>1, <1>2 DEF Elements
  <1>5. WorkTypes'
    BY <1>1, <1>2, <1>3, CarrierConstants DEF WorkTypes, Distinct
  <1>6. PartsInv'
    BY <1>1, <1>4 DEF PartsInv
  <1>7. ShownInv'
    BY <1>1, <1>2, <1>4 DEF ShownInv
  <1> QED
    BY <1>5, <1>6, <1>7 DEF WorkInv

-----------------------------------------------------------------------------
(* The numbers of a request.                                               *)
LEMMA RequestFacts ==
    ASSUME NEW r \in Requests
    PROVE  r.place \in Nat /\ r.boot \in Nat /\ r.attempt \in Nat
  BY CarrierConstants DEF Requests

(* The request of an attempt names the update at the head of the batch.    *)
LEMMA CurrentFacts ==
    ASSUME WorkInv, pc \in {"push", "wait"}
    PROVE  /\ CurrentRequest \in Requests
           /\ CurrentRequest.boot = boot
           /\ CurrentRequest.place = Head(batch)
           /\ Head(batch) \in Elements(batch)
           /\ Head(batch) \in 0..(cursor - 1)
           /\ Head(batch) \notin failed
           /\ Elements(Tail(batch)) = Elements(batch) \ {Head(batch)}
  <1>1. batch \in Seq(0..MaxCursor) /\ batch # <<>> /\ Distinct(batch)
    BY DEF WorkInv, WorkTypes
  <1>2. /\ Head(batch) \in Elements(batch) /\ Head(batch) \in 0..MaxCursor
        /\ Elements(Tail(batch)) = Elements(batch) \ {Head(batch)}
    BY <1>1, HeadTailFacts
  <1>3. Head(batch) \in 0..(cursor - 1) /\ Head(batch) \notin failed
    BY <1>2 DEF WorkInv, PartsInv
  <1>4. boot \in 0..MaxBoots /\ attempt \in 1..RetryMaxAttempts
    BY CarrierConstants DEF WorkInv, WorkTypes
  <1>5. CurrentRequest = [place |-> Head(batch), boot |-> boot, attempt |-> attempt]
    BY DEF CurrentRequest
  <1>6. CurrentRequest \in Requests
    BY <1>2, <1>4, <1>5 DEF Requests
  <1>7. CurrentRequest.boot = boot /\ CurrentRequest.place = Head(batch)
    BY <1>5
  <1> QED
    BY <1>2, <1>3, <1>6, <1>7

(* RequestInv goes on to hold if nothing new was sent, what was applied is *)
(* what had been sent, and every request is still traced.                  *)
LEMMA RequestKeeps ==
    ASSUME RequestInv, applied \subseteq Requests,
           cursor \in Nat, cursor' \in Nat, cursor \leq cursor', boot' = boot,
           net' \subseteq net, applied' \subseteq net \cup applied, net' \cap applied' = {},
           synced' \subseteq AppliedNow',
           \A r \in net' \cup applied' : r.boot = boot /\ r.place < cursor /\ Traced(r) => Traced(r)'
    PROVE  RequestInv'
  <1>1. net' \subseteq Requests
    BY DEF RequestInv
  <1>2. ASSUME NEW r \in net' \cup applied'
        PROVE  r.boot \leq boot' /\ (r.boot = boot' => r.place < cursor' /\ Traced(r)')
    <2>1. r \in net \cup applied /\ r \in Requests
      BY DEF RequestInv
    <2>2. r.boot \leq boot /\ (r.boot = boot => r.place < cursor /\ Traced(r))
      BY <2>1 DEF RequestInv
    <2>3. r.place \in Nat
      BY <2>1, RequestFacts
    <2> QED
      BY <2>2, <2>3
  <1> QED
    BY <1>1, <1>2 DEF RequestInv

(* So it does if only the orders, the carrier and manual runs are touched. *)
LEMMA StillRequests ==
    ASSUME RequestInv, OrderInv, WorkInv,
           UNCHANGED <<net, applied, boot, pc, attempt, batch, synced, failed, unsure>>,
           cursor' \in Nat, cursor \leq cursor'
    PROVE  RequestInv'
  <1>1. applied \subseteq Requests /\ cursor \in Nat
    BY CarrierConstants DEF OrderInv, WorkInv, WorkTypes
  <1>2. \A r : Traced(r)' <=> Traced(r)
    BY DEF Traced, CurrentRequest, Elements
  <1>3. net' \cap applied' = {} /\ synced' \subseteq AppliedNow'
    BY DEF RequestInv, AppliedNow
  <1> QED
    BY <1>1, <1>2, <1>3, RequestKeeps

(* An attempt that failed leaves the requests traced, if the worker is     *)
(* unsure of its own, or that one was refused and is gone.                 *)
LEMMA AttemptFailsTraced ==
    ASSUME WorkInv, pc = "wait", AttemptFails, boot' = boot, unsure \subseteq unsure',
           NEW r \in Requests, Traced(r),
           r # CurrentRequest \/ Head(batch) \in unsure'
    PROVE  Traced(r)'
  <1>1. attempt \in 1..RetryMaxAttempts /\ RetryMaxAttempts \in Nat /\ r.attempt \in Nat
    BY CarrierConstants, RequestFacts DEF WorkInv, WorkTypes
  <1>2. CurrentRequest.place = Head(batch) /\ Head(batch) \in Elements(batch)
        /\ Elements(Tail(batch)) = Elements(batch) \ {Head(batch)}
    BY CurrentFacts
  <1>3. r.place \in failed \cup Elements(batch) => r.place \in unsure'
    BY <1>2 DEF Traced
  <1>4. r.place \in Elements(batch) => r.place = Head(batch) /\ r.attempt < attempt + 1
    BY <1>1 DEF Traced
  <1>5. CASE attempt < RetryMaxAttempts
    <2>1. attempt' = attempt + 1 /\ pc' = "push" /\ batch' = batch /\ failed' = failed
      BY <1>5 DEF AttemptFails
    <2> QED
      BY <1>3, <1>4, <2>1 DEF Traced, Elements
  <1>6. CASE ~(attempt < RetryMaxAttempts)
    <2>1. failed' = failed \cup {Head(batch)} /\ batch' = Tail(batch)
      BY <1>6 DEF AttemptFails, NextUpdate
    <2>2. r.place \notin Elements(batch')
      BY <1>2, <1>4, <2>1
    <2>3. r.place \in failed' => r.place \in unsure'
      BY <1>2, <1>3, <2>1
    <2> QED
      BY <2>2, <2>3 DEF Traced, Elements
  <1> QED
    BY <1>5, <1>6

(* The steps of the worker before it sends, which finish no update.        *)
LEMMA BeforeRequests ==
    ASSUME WorkInv, RequestInv, OrderInv, StartCycle \/ Fetch \/ FetchFails \/ Store
    PROVE  RequestInv'
  <1>1. applied \subseteq Requests /\ cursor \in Nat
    BY CarrierConstants DEF OrderInv, WorkInv, WorkTypes
  <1>2. UNCHANGED <<net, applied, boot, synced, failed, unsure>>
    BY DEF StartCycle, Fetch, FetchFails, Store, tracking
  <1>3. cursor' \in Nat /\ cursor \leq cursor'
    BY <1>1, CarrierConstants DEF StartCycle, Fetch, FetchFails, Store
  <1>4. ASSUME NEW r \in net' \cup applied', r.boot = boot, r.place < cursor, Traced(r)
        PROVE  Traced(r)'
    <2>1. r \in Requests /\ r.place \in Nat
      BY <1>1, <1>2, RequestFacts DEF RequestInv
    <2>2. pc \notin {"push", "wait"}
      BY DEF StartCycle, Fetch, FetchFails, Store
    <2>3. r.place \notin Elements(batch) /\ (r.place \in failed => r.place \in unsure)
      BY <1>4, <2>2 DEF Traced
    <2>4. r.place \notin Elements(batch')
      <3>1. CASE Fetch
        <4>1. batch' = Places(cursor, BatchSize)
          BY <3>1 DEF Fetch
        <4>2. Elements(batch') = cursor..(cursor + BatchSize - 1)
          BY <1>1, <4>1, CarrierConstants, PlacesFacts
        <4> QED
          BY <1>1, <1>4, <2>1, <4>2
      <3>2. CASE ~Fetch
        <4>1. batch' = batch
          BY <3>2 DEF StartCycle, FetchFails, Store
        <4> QED
          BY <2>3, <4>1
      <3> QED
        BY <3>1, <3>2
    <2> QED
      BY <1>2, <2>3, <2>4 DEF Traced, Elements
  <1>5. net' \cap applied' = {} /\ synced' \subseteq AppliedNow'
    BY <1>2 DEF RequestInv, AppliedNow
  <1> QED
    BY <1>1, <1>2, <1>3, <1>4, <1>5, RequestKeeps

(* After it has given up a request the worker is unsure of its update.     *)
LEMMA GiveUpRequests ==
    ASSUME WorkInv, RequestInv, OrderInv, GiveUp
    PROVE  RequestInv'
  <1>1. applied \subseteq Requests /\ cursor \in Nat
    BY CarrierConstants DEF OrderInv, WorkInv, WorkTypes
  <1>2. /\ pc = "wait" /\ AttemptFails /\ unsure' = unsure \cup {Head(batch)}
        /\ UNCHANGED <<net, applied, boot, synced, cursor>>
    BY DEF GiveUp, tracking
  <1>3. ASSUME NEW r \in net' \cup applied', Traced(r)
        PROVE  Traced(r)'
    <2>1. r \in Requests
      BY <1>1, <1>2 DEF RequestInv
    <2> QED
      BY <1>2, <1>3, <2>1, AttemptFailsTraced
  <1>4. net' \cap applied' = {} /\ synced' \subseteq AppliedNow'
    BY <1>2 DEF RequestInv, AppliedNow
  <1> QED
    BY <1>1, <1>2, <1>3, <1>4, RequestKeeps

(* A request that is sent is a new one and names an update handed out.     *)
LEMMA PushRequests ==
    ASSUME WorkInv, RequestInv, OrderInv, Push
    PROVE  RequestInv'
  <1>1. /\ pc = "push" /\ net' = net \cup {CurrentRequest} /\ pc' = "wait"
        /\ UNCHANGED <<applied, boot, synced, failed, unsure, batch, attempt, cursor>>
    BY DEF Push, tracking
  <1>2. /\ CurrentRequest \in Requests /\ CurrentRequest.boot = boot
        /\ CurrentRequest.place = Head(batch)
        /\ Head(batch) \in Elements(batch) /\ Head(batch) \in 0..(cursor - 1)
    BY <1>1, CurrentFacts
  <1>3. CurrentRequest.boot \leq boot /\ CurrentRequest.place < cursor
    BY <1>2, CarrierConstants DEF WorkInv, WorkTypes
  <1>4. CurrentRequest' = CurrentRequest /\ CurrentRequest.attempt = attempt
    BY <1>1 DEF CurrentRequest
  <1>5. attempt \in Nat
    BY CarrierConstants DEF WorkInv, WorkTypes
  <1>6. CurrentRequest \notin net \cup applied
    <2> SUFFICES ASSUME CurrentRequest \in net \cup applied PROVE FALSE
      OBVIOUS
    <2>1. Traced(CurrentRequest)
      BY <1>2 DEF RequestInv
    <2>2. attempt < attempt
      BY <1>1, <1>2, <1>4, <2>1 DEF Traced
    <2> QED
      BY <1>5, <2>2
  <1>7. Traced(CurrentRequest)'
    BY <1>1, <1>2, <1>4 DEF Traced
  <1>8. ASSUME NEW r \in net \cup applied, r.boot = boot PROVE Traced(r)'
    <2>1. Traced(r)
      BY <1>8 DEF RequestInv
    <2> QED
      BY <1>1, <2>1 DEF Traced, Elements
  <1>9. ASSUME NEW r \in net' \cup applied'
        PROVE  r.boot \leq boot' /\ (r.boot = boot' => r.place < cursor' /\ Traced(r)')
    <2>1. CASE r = CurrentRequest
      <3>1. Traced(r)'
        BY <1>4, <1>7, <2>1 DEF Traced
      <3> QED
        BY <1>1, <1>3, <2>1, <3>1
    <2>2. CASE r \in net \cup applied
      <3>1. r.boot \leq boot /\ (r.boot = boot => r.place < cursor)
        BY <2>2 DEF RequestInv
      <3> QED
        BY <1>1, <1>8, <2>2, <3>1
    <2> QED
      BY <1>1, <2>1, <2>2
  <1>10. net' \subseteq Requests /\ net' \cap applied' = {}
    BY <1>1, <1>2, <1>6 DEF RequestInv
  <1>11. synced' \subseteq AppliedNow'
    BY <1>1 DEF RequestInv, AppliedNow
  <1> QED
    BY <1>9, <1>10, <1>11 DEF RequestInv

(* A new process has sent nothing yet.                                     *)
LEMMA RestartRequests ==
    ASSUME WorkInv, RequestInv, OrderInv, Restart
    PROVE  RequestInv'
  <1>1. /\ boot' = boot + 1 /\ boot \in Nat
        /\ UNCHANGED <<net, applied>>
        /\ synced' = {}
    BY CarrierConstants DEF Restart, tracking, WorkInv, WorkTypes
  <1>2. ASSUME NEW r \in net' \cup applied' PROVE r.boot \leq boot' /\ r.boot # boot'
    <2>1. r \in Requests /\ r.boot \leq boot
      BY <1>1 DEF RequestInv, OrderInv
    <2>2. r.boot \in Nat
      BY <2>1, RequestFacts
    <2> QED
      BY <1>1, <2>1, <2>2
  <1> QED
    BY <1>1, <1>2 DEF RequestInv

(* What handling a request does to the sets of requests.                   *)
LEMMA HandleSets ==
    ASSUME RequestInv, NEW r, NEW commits \in BOOLEAN, Handle(r, commits)
    PROVE  /\ r \in net /\ net' = net \ {r}
           /\ applied' = IF commits THEN applied \cup {r} ELSE applied
           /\ applied' \subseteq net \cup applied /\ net' \cap applied' = {}
  <1>1. r \in net /\ net' = net \ {r} /\ (commits => applied' = applied \cup {r})
    BY DEF Handle
  <1>2. ~commits => applied' = applied
    BY DEF Handle, tracking
  <1> QED
    BY <1>1, <1>2 DEF RequestInv

(* A request handled behind the worker's back is one it is unsure of, or   *)
(* still waits for.                                                        *)
LEMMA UnansweredRequests ==
    ASSUME WorkInv, RequestInv, OrderInv, NEW r \in net, Unanswered(r)
    PROVE  RequestInv'
  <1>1. Handle(r, Allowed(r)) /\ Allowed(r) \in BOOLEAN
    BY DEF Unanswered, Allowed, ValidateStatusTransition
  <1>2. UNCHANGED <<cursor, boot, pc, attempt, batch, synced, failed, unsure>>
    BY DEF Unanswered, worker
  <1>3. /\ net' \subseteq net /\ applied \subseteq applied'
        /\ applied' \subseteq net \cup applied /\ net' \cap applied' = {}
    BY <1>1, HandleSets
  <1>4. \A q : Traced(q)' <=> Traced(q)
    BY <1>2 DEF Traced, CurrentRequest, Elements
  <1>5. synced' \subseteq AppliedNow'
    BY <1>2, <1>3 DEF RequestInv, AppliedNow
  <1>6. applied \subseteq Requests /\ cursor \in Nat
    BY CarrierConstants DEF OrderInv, WorkInv, WorkTypes
  <1> QED
    BY <1>2, <1>3, <1>4, <1>5, <1>6, RequestKeeps

(* A confirmed update has changed its order and is at work no longer.      *)
LEMMA ConfirmedRequests ==
    ASSUME WorkInv, RequestInv, OrderInv, NEW r \in net, Confirmed(r)
    PROVE  RequestInv'
  <1>1. /\ pc = "wait" /\ r = CurrentRequest /\ Handle(r, TRUE)
        /\ synced' = synced \cup {r.place} /\ batch' = Tail(batch)
        /\ UNCHANGED <<cursor, boot, failed, unsure>>
    BY DEF Confirmed, Hears, NextUpdate
  <1>2. /\ net' = net \ {r} /\ applied' = applied \cup {r}
        /\ applied' \subseteq net \cup applied /\ net' \cap applied' = {}
    BY <1>1, HandleSets
  <1>3. /\ r.boot = boot /\ r.place = Head(batch) /\ Head(batch) \notin failed
        /\ Elements(Tail(batch)) = Elements(batch) \ {Head(batch)}
    BY <1>1, CurrentFacts
  <1>4. applied \subseteq Requests /\ cursor \in Nat
    BY CarrierConstants DEF OrderInv, WorkInv, WorkTypes
  <1>5. ASSUME NEW q \in net' \cup applied', Traced(q) PROVE Traced(q)'
    <2>1. q.place \notin Elements(batch')
      BY <1>1, <1>3, <1>5 DEF Traced
    <2>2. q.place \in failed' => q.place \in unsure'
      BY <1>1, <1>3, <1>5 DEF Traced
    <2> QED
      BY <2>1, <2>2 DEF Traced, Elements
  <1>6. synced' \subseteq AppliedNow'
    BY <1>1, <1>2, <1>3 DEF RequestInv, AppliedNow
  <1> QED
    BY <1>1, <1>2, <1>4, <1>5, <1>6, RequestKeeps

(* A refused request is gone without an effect.                            *)
LEMMA RefusedRequests ==
    ASSUME WorkInv, RequestInv, OrderInv, NEW r \in net, Refused(r)
    PROVE  RequestInv'
  <1>1. /\ pc = "wait" /\ r = CurrentRequest /\ Handle(r, FALSE) /\ AttemptFails
        /\ UNCHANGED <<cursor, boot, synced, unsure>>
    BY DEF Refused, Hears
  <1>2. /\ net' = net \ {r} /\ applied' = applied
        /\ applied' \subseteq net \cup applied /\ net' \cap applied' = {}
    BY <1>1, HandleSets
  <1>3. applied \subseteq Requests /\ cursor \in Nat
    BY CarrierConstants DEF OrderInv, WorkInv, WorkTypes
  <1>4. ASSUME NEW q \in net' \cup applied', Traced(q) PROVE Traced(q)'
    <2>1. q \in Requests /\ q # CurrentRequest
      BY <1>1, <1>2, <1>3 DEF RequestInv
    <2> QED
      BY <1>1, <1>4, <2>1, AttemptFailsTraced
  <1>5. synced' \subseteq AppliedNow'
    BY <1>1, <1>2 DEF RequestInv, AppliedNow
  <1> QED
    BY <1>1, <1>2, <1>3, <1>4, <1>5, RequestKeeps

(* After a 500 the worker is unsure of the update.                         *)
LEMMA ErrorRequests ==
    ASSUME WorkInv, RequestInv, OrderInv, NEW r \in net, ErrorAnswer(r)
    PROVE  RequestInv'
  <1>1. /\ pc = "wait" /\ r = CurrentRequest /\ AttemptFails
        /\ unsure' = unsure \cup {r.place}
        /\ UNCHANGED <<cursor, boot, synced>>
    BY DEF ErrorAnswer, Hears
  <1>2. PICK commits \in BOOLEAN : Handle(r, commits)
    BY DEF ErrorAnswer
  <1>3. /\ net' \subseteq net /\ applied \subseteq applied'
        /\ applied' \subseteq net \cup applied /\ net' \cap applied' = {}
    BY <1>2, HandleSets
  <1>4. applied \subseteq Requests /\ cursor \in Nat /\ r.place = Head(batch)
    BY <1>1, CarrierConstants, CurrentFacts DEF OrderInv, WorkInv, WorkTypes
  <1>5. ASSUME NEW q \in net' \cup applied', Traced(q) PROVE Traced(q)'
    <2>1. q \in Requests
      BY <1>3, <1>4 DEF RequestInv
    <2> QED
      BY <1>1, <1>4, <1>5, <2>1, AttemptFailsTraced
  <1>6. synced' \subseteq AppliedNow'
    BY <1>1, <1>3 DEF RequestInv, AppliedNow
  <1> QED
    BY <1>1, <1>3, <1>4, <1>5, <1>6, RequestKeeps

(* An update that was answered is finished, or is tried again.             *)
LEMMA AnsweredWork ==
    ASSUME WorkInv, NEW r \in net, Answered(r)
    PROVE  WorkInv'
  <1>1. /\ pc = "wait" /\ r = CurrentRequest
        /\ UNCHANGED <<cursor, boot, lastKnown, manual, shown>>
    BY DEF Answered, Confirmed, Refused, ErrorAnswer, Hears
  <1>2. r.place = Head(batch) /\ unsure \subseteq 0..MaxCursor
    BY <1>1, CurrentFacts DEF WorkInv, WorkTypes
  <1>3. CASE Confirmed(r)
    <2>1. synced' = synced \cup {r.place} /\ NextUpdate /\ failed' = failed /\ unsure' = unsure
      BY <1>3 DEF Confirmed
    <2> QED
      BY <1>1, <1>2, <2>1, NextUpdateWork
  <1>4. CASE Refused(r)
    <2>1. AttemptFails /\ synced' = synced /\ unsure' = unsure
      BY <1>4 DEF Refused
    <2> QED
      BY <1>1, <2>1, AttemptFailsWork
  <1>5. CASE ErrorAnswer(r)
    <2>1. AttemptFails /\ synced' = synced /\ unsure' = unsure \cup {Head(batch)}
      BY <1>2, <1>5 DEF ErrorAnswer
    <2> QED
      BY <1>1, <2>1, AttemptFailsWork
  <1> QED
    BY <1>3, <1>4, <1>5 DEF Answered

-----------------------------------------------------------------------------
CarrierInv == OrderInv /\ WorkInv /\ RequestInv

(* Nothing is handed out, sent or applied at first.                        *)
LEMMA InitCarrier == Init => CarrierInv
  <1> SUFFICES ASSUME Init PROVE CarrierInv
    OBVIOUS
  <1>1. Elements(<<>>) = {} /\ Distinct(<<>>) /\ <<>> \in Seq(0..MaxCursor)
    BY DEF Elements, Distinct
  <1>2. OrderInv
    BY DEF Init, OrderInv, AppliedAtMostOnce, Statuses
  <1>3. WorkTypes
    BY <1>1, CarrierConstants DEF Init, WorkTypes
  <1>4. PartsInv /\ ShownInv
    BY <1>1 DEF Init, PartsInv, ShownInv
  <1>5. RequestInv
    BY DEF Init, RequestInv
  <1> QED
    BY <1>2, <1>3, <1>4, <1>5 DEF CarrierInv, WorkInv

(* Every step keeps the invariant.                                         *)
LEMMA StepCarrier == CarrierInv /\ [Next]_vars => CarrierInv'
  <1> SUFFICES ASSUME OrderInv, WorkInv, RequestInv, [Next]_vars PROVE CarrierInv'
    BY DEF CarrierInv
  <1>1. net \subseteq Requests /\ cursor \in Nat
    BY CarrierConstants DEF RequestInv, WorkInv, WorkTypes
  <1>2. CASE StartCycle \/ FetchFails \/ Store
    <2>1. UNCHANGED tracking
      BY <1>2 DEF StartCycle, FetchFails, Store
    <2> QED
      BY <1>2, <2>1, OrderFrame, OtherWork, BeforeRequests DEF CarrierInv
  <1>12. CASE ManualStore
    <2>1. UNCHANGED tracking
      BY <1>12 DEF ManualStore
    <2>2. RequestInv'
      BY <1>1, <1>12, StillRequests DEF ManualStore, tracking, worker
    <2> QED
      BY <1>12, <2>1, <2>2, OrderFrame, OtherWork DEF CarrierInv
  <1>3. CASE Push
    <2>1. UNCHANGED tracking
      BY <1>3 DEF Push
    <2> QED
      BY <1>3, <2>1, OrderFrame, OtherWork, PushRequests DEF CarrierInv
  <1>4. CASE Fetch
    <2>1. UNCHANGED tracking
      BY <1>4 DEF Fetch
    <2> QED
      BY <1>4, <2>1, OrderFrame, FetchWork, BeforeRequests DEF CarrierInv
  <1>5. CASE ManualFetch
    <2>1. UNCHANGED tracking
      BY <1>5 DEF ManualFetch
    <2>2. RequestInv'
      <3>1. cursor' \in Nat /\ cursor \leq cursor'
        BY <1>1, <1>5, CarrierConstants DEF ManualFetch
      <3> QED
        BY <1>5, <3>1, StillRequests DEF ManualFetch, tracking, worker
    <2> QED
      BY <1>5, <2>1, <2>2, OrderFrame, ManualFetchWork DEF CarrierInv
  <1>6. CASE GiveUp
    <2>1. UNCHANGED tracking
      BY <1>6 DEF GiveUp
    <2>2. WorkInv'
      BY <1>6, AttemptFailsWork DEF GiveUp
    <2> QED
      BY <1>6, <2>1, <2>2, OrderFrame, GiveUpRequests DEF CarrierInv
  <1>7. CASE Restart
    <2>1. UNCHANGED tracking
      BY <1>7 DEF Restart
    <2> QED
      BY <1>7, <2>1, OrderFrame, RestartWork, RestartRequests DEF CarrierInv
  <1>8. ASSUME NEW r \in net, Answered(r) PROVE CarrierInv'
    <2>1. PICK commits \in BOOLEAN : Handle(r, commits)
      BY <1>8 DEF Answered, Confirmed, Refused, ErrorAnswer
    <2>2. OrderInv'
      BY <1>1, <2>1, HandleOrder
    <2> QED
      BY <1>8, <2>2, AnsweredWork, ConfirmedRequests, RefusedRequests, ErrorRequests
         DEF CarrierInv, Answered
  <1>9. ASSUME NEW r \in net, Unanswered(r) PROVE CarrierInv'
    <2>1. Handle(r, Allowed(r)) /\ UNCHANGED <<worker, cursor, lastKnown, boot, manual, shown>>
      BY <1>9 DEF Unanswered
    <2>2. OrderInv'
      <3>1. Allowed(r) \in BOOLEAN
        BY DEF Allowed, ValidateStatusTransition
      <3> QED
        BY <1>1, <2>1, <3>1, HandleOrder
    <2> QED
      BY <1>9, <2>1, <2>2, WorkFrame, UnansweredRequests DEF CarrierInv
  <1>10. ASSUME NEW o \in Orders, NEW s \in Statuses, ClientUpdate(o, s) PROVE CarrierInv'
    <2>1. UNCHANGED <<worker, cursor, lastKnown, boot, manual, shown>>
      BY <1>10 DEF ClientUpdate
    <2>2. RequestInv'
      BY <1>1, <1>10, StillRequests DEF ClientUpdate, worker
    <2> QED
      BY <1>10, <2>1, <2>2, ClientOrder, WorkFrame DEF CarrierInv
  <1>11. CASE UNCHANGED vars
    <2>1. UNCHANGED tracking /\ UNCHANGED <<worker, cursor, lastKnown, boot, manual, shown, net>>
      BY <1>11 DEF vars
    <2>2. UNCHANGED <<applied, pc, attempt, batch, synced, failed, unsure>>
      BY <2>1 DEF tracking, worker
    <2>3. RequestInv'
      BY <1>1, <2>1, <2>2, StillRequests
    <2> QED
      BY <2>1, <2>3, OrderFrame, WorkFrame DEF CarrierInv
  <1> QED
    BY <1>2, <1>3, <1>4, <1>5, <1>6, <1>7, <1>8, <1>9, <1>10, <1>11, <1>12 DEF Next, Advance

(* The invariant holds in every reachable state, however often the service *)
(* is restarted and requests come late.                                    *)
THEOREM CarrierInvariant == Spec => []CarrierInv
  BY InitCarrier, StepCarrier, PTL DEF Spec

(* Everything the worker, the carrier and the requests carry is well typed.*)
THEOREM CarrierTyped == Spec => []TypeOK
  <1>1. CarrierInv => TypeOK
    <2> SUFFICES ASSUME CarrierInv PROVE TypeOK
      OBVIOUS
    <2>1. /\ status \in [Orders -> Statuses] /\ net \subseteq Requests
          /\ applied \subseteq Requests
      BY DEF CarrierInv, OrderInv, RequestInv
    <2>2. /\ cursor \in 0..MaxCursor /\ boot \in 0..MaxBoots
          /\ pc \in {"idle", "fetch", "store", "push", "wait"}
          /\ attempt \in 0..RetryMaxAttempts /\ batch \in Seq(0..MaxCursor)
          /\ unsure \subseteq 0..MaxCursor
      BY DEF CarrierInv, WorkInv, WorkTypes
    <2>3. /\ manual \in Seq(0..MaxCursor) /\ lastKnown \in Seq(0..MaxCursor)
          /\ Elements(lastKnown) \subseteq 0..(cursor - 1)
      BY DEF CarrierInv, WorkInv, ShownInv
    <2>4. 0..(cursor - 1) \subseteq 0..MaxCursor
      BY <2>2, CarrierConstants
    <2>5. shown \cup synced \cup failed \subseteq 0..(cursor - 1)
      BY DEF CarrierInv, WorkInv, PartsInv
    <2> QED
      BY <2>1, <2>2, <2>3, <2>4, <2>5 DEF TypeOK
  <1> QED
    BY <1>1, CarrierInvariant, PTL

(* A carrier update changes its order at most once, although pushes carry  *)
(* no key and are retried, delayed and repeated after restarts.            *)
THEOREM PushesCorrect == Spec => []AppliedAtMostOnce
  <1>1. CarrierInv => AppliedAtMostOnce
    BY DEF CarrierInv, OrderInv
  <1> QED
    BY <1>1, CarrierInvariant, PTL

(* What was counted as synced changed its order; what was counted as       *)
(* failed did so only if an attempt ended with a 500 or without an answer, *)
(* never if all that the worker got were refusals.                         *)
THEOREM CountsCorrect == Spec => []CountsTellEffect
  <1>1. CarrierInv => CountsTellEffect
    <2> SUFFICES ASSUME WorkInv, RequestInv PROVE CountsTellEffect
      BY DEF CarrierInv
    <2>1. ASSUME NEW x \in failed \cap AppliedNow PROVE x \in unsure
      <3>1. PICK r \in applied : r.boot = boot /\ r.place = x
        BY DEF AppliedNow
      <3>2. x \in unsure \/ (pc = "wait" /\ r = CurrentRequest)
        BY <3>1 DEF RequestInv, Traced
      <3> QED
        BY <3>1, <3>2, CurrentFacts
    <2> QED
      BY <2>1 DEF RequestInv, CountsTellEffect
  <1> QED
    BY <1>1, CarrierInvariant, PTL

(* The union of the members of a sequence of four sets.                    *)
LEMMA UnionOfFour ==
    ASSUME NEW s, Len(s) = 4
    PROVE  UNION Elements(s) = s[1] \cup s[2] \cup s[3] \cup s[4]
  <1>1. ASSUME NEW x PROVE x \in UNION Elements(s) <=> \E i \in 1..4 : x \in s[i]
    BY DEF Elements
  <1>2. 1..4 = {1, 2, 3, 4}
    OBVIOUS
  <1> QED
    BY <1>1, <1>2

(* No update handed out is lost or counted twice, except that manual runs  *)
(* take theirs away from the worker.                                       *)
THEOREM UpdatesCorrect == Spec => []UpdatesAccountedFor
  <1>1. CarrierInv => UpdatesAccountedFor
    <2> SUFFICES ASSUME PartsInv PROVE UpdatesAccountedFor
      BY DEF CarrierInv, WorkInv
    <2> DEFINE E == Elements(batch)
               parts == <<shown, synced, failed, E>>
    <2>1. parts[1] = shown /\ parts[2] = synced /\ parts[3] = failed /\ parts[4] = E
      OBVIOUS
    <2>2. Len(parts) = 4
      OBVIOUS
    <2>3. shown \cup synced \cup failed \cup E = 0..(cursor - 1)
      BY DEF PartsInv
    <2>4. UNION Elements(parts) = 0..(cursor - 1)
      <3> HIDE DEF parts, E
      <3>1. UNION Elements(parts) = parts[1] \cup parts[2] \cup parts[3] \cup parts[4]
        BY <2>2, UnionOfFour
      <3> QED
        BY <2>1, <2>3, <3>1
    <2>5. \A i, j \in 1..4 : i # j => parts[i] \cap parts[j] = {}
      BY <2>1 DEF PartsInv
    <2> QED
      BY <2>4, <2>5 DEF UpdatesAccountedFor
  <1> QED
    BY <1>1, CarrierInvariant, PTL

-----------------------------------------------------------------------------
(* Steps that n updates may still take: every attempt is sent and ends.    *)
Cost(n) == 2 * RetryMaxAttempts * n

(* The most steps of its own the worker may still take in this cycle.      *)
Left ==
    CASE pc = "idle"  -> 0
      [] pc = "fetch" -> RetryMaxAttempts - attempt + 2 + Cost(BatchSize)
      [] pc = "store" -> 1 + Cost(Len(batch))
      [] pc = "push"  -> Cost(Len(batch)) - 2 * (attempt - 1)
      [] pc = "wait"  -> Cost(Len(batch)) - 2 * (attempt - 1) - 1

(* What the worker does by itself, and the answers it waits for.           *)
OwnStep == Advance \/ \E r \in net : Answered(r)

(* A cycle begins with a known budget, every step of the worker takes from *)
(* it, and nobody else's step changes it, except that a restart ends the   *)
(* cycle.                                                                  *)
BudgetSpent ==
    /\ OwnStep => Left' < Left
    /\ StartCycle => Left' = RetryMaxAttempts + 1 + Cost(BatchSize)
    /\ ~OwnStep /\ ~StartCycle => Left' \in {0, Left}

(* The budget of one update is that of its attempts.                       *)
LEMMA CostFacts ==
    ASSUME NEW n \in Nat \ {0}
    PROVE  /\ Cost(n) \in Nat
           /\ Cost(n - 1) = Cost(n) - 2 * RetryMaxAttempts
           /\ Cost(n) \geq 2 * RetryMaxAttempts
  <1>1. RetryMaxAttempts \in Nat
    BY CarrierConstants
  <1>2. RetryMaxAttempts * (n - 1) = RetryMaxAttempts * n - RetryMaxAttempts
    BY <1>1
  <1>3. RetryMaxAttempts * (n - 1) \in Nat /\ RetryMaxAttempts * n \in Nat
    <2>1. n - 1 \in Nat
      OBVIOUS
    <2> QED
      BY <1>1, <2>1
  <1>4. /\ Cost(n) = 2 * (RetryMaxAttempts * n)
        /\ Cost(n - 1) = 2 * (RetryMaxAttempts * (n - 1))
    BY <1>1 DEF Cost
  <1> QED
    BY <1>1, <1>2, <1>3, <1>4

(* What the budget needs to know of the worker.                            *)
LEMMA WorkerFacts ==
    ASSUME WorkInv
    PROVE  /\ pc \in {"idle", "fetch", "store", "push", "wait"}
           /\ pc # "idle" => attempt \in 1..RetryMaxAttempts
           /\ pc \in {"store", "push", "wait"} =>
                /\ Len(batch) \in Nat \ {0} /\ Len(Tail(batch)) = Len(batch) - 1
  <1>1. batch \in Seq(0..MaxCursor) /\ attempt \in 0..RetryMaxAttempts
    BY DEF WorkInv, WorkTypes
  <1>2. pc \in {"store", "push", "wait"} => batch # <<>>
    BY DEF WorkInv, WorkTypes
  <1>3. pc # "idle" => attempt \in 1..RetryMaxAttempts
    BY <1>1, CarrierConstants DEF WorkInv, WorkTypes
  <1>4. ASSUME batch # <<>>
        PROVE  /\ Len(batch) \in Nat \ {0} /\ Len(Tail(batch)) = Len(batch) - 1
    BY <1>1, <1>4
  <1>5. pc \in {"idle", "fetch", "store", "push", "wait"}
    BY DEF WorkInv, WorkTypes
  <1> QED
    BY <1>2, <1>3, <1>4, <1>5

(* The budget is a number, and spent exactly when the cycle is over.       *)
LEMMA LeftNat == ASSUME WorkInv PROVE Left \in Nat /\ (Left = 0 <=> pc = "idle")
  <1>1. RetryMaxAttempts \in Nat /\ BatchSize \in Nat \ {0}
    BY CarrierConstants
  <1>2. CASE pc = "idle"
    BY <1>2 DEF Left
  <1>3. CASE pc = "fetch"
    <2>1. Left = RetryMaxAttempts - attempt + 2 + Cost(BatchSize)
      BY <1>3 DEF Left
    <2>2. attempt \in 1..RetryMaxAttempts
      BY <1>3, WorkerFacts
    <2> QED
      BY <1>1, <1>3, <2>1, <2>2, CostFacts
  <1>4. CASE pc \in {"store", "push", "wait"}
    <2>1. /\ pc = "store" => Left = 1 + Cost(Len(batch))
          /\ pc = "push" => Left = Cost(Len(batch)) - 2 * (attempt - 1)
          /\ pc = "wait" => Left = Cost(Len(batch)) - 2 * (attempt - 1) - 1
      BY DEF Left
    <2>2. attempt \in 1..RetryMaxAttempts /\ Len(batch) \in Nat \ {0}
      BY <1>4, WorkerFacts
    <2>3. Cost(Len(batch)) \in Nat /\ Cost(Len(batch)) \geq 2 * RetryMaxAttempts
      BY <2>2, CostFacts
    <2> QED
      BY <1>1, <1>4, <2>1, <2>2, <2>3
  <1> QED
    BY <1>2, <1>3, <1>4, WorkerFacts

(* Going on to the next update takes what the attempts left have not used. *)
LEMMA NextUpdateSpends ==
    ASSUME WorkInv, pc = "wait", NextUpdate
    PROVE  Left' < Left
  <1>1. RetryMaxAttempts \in Nat
    BY CarrierConstants
  <1>2. /\ attempt \in 1..RetryMaxAttempts /\ Len(batch) \in Nat \ {0}
        /\ Len(Tail(batch)) = Len(batch) - 1
    BY WorkerFacts
  <1>3. Left = Cost(Len(batch)) - 2 * (attempt - 1) - 1
    BY DEF Left
  <1>4. /\ Cost(Len(batch)) \in Nat /\ Cost(Len(batch)) \geq 2 * RetryMaxAttempts
        /\ Cost(Len(batch) - 1) = Cost(Len(batch)) - 2 * RetryMaxAttempts
    BY <1>2, CostFacts
  <1>5. CASE pc' = "idle"
    <2>1. Left' = 0
      BY <1>5 DEF Left
    <2> QED
      BY <1>1, <1>2, <1>3, <1>4, <2>1
  <1>6. CASE pc' = "push" /\ attempt' = 1
    <2>1. batch' = Tail(batch)
      BY DEF NextUpdate
    <2>2. Left' = Cost(Len(Tail(batch))) - 2 * (1 - 1)
      BY <1>6, <2>1 DEF Left, Cost
    <2>3. Left' = Cost(Len(batch)) - 2 * RetryMaxAttempts
      BY <1>1, <1>2, <1>4, <2>2
    <2> QED
      BY <1>1, <1>2, <1>3, <1>4, <2>3
  <1>7. (pc' = "idle" \/ (pc' = "push" /\ attempt' = 1))
    BY Zenon DEF NextUpdate
  <1> QED
    BY <1>5, <1>6, <1>7

(* So does an attempt that failed.                                         *)
LEMMA AttemptFailsSpends ==
    ASSUME WorkInv, pc = "wait", AttemptFails
    PROVE  Left' < Left
  <1>1. CASE attempt < RetryMaxAttempts
    <2>1. RetryMaxAttempts \in Nat /\ attempt \in 1..RetryMaxAttempts
      BY CarrierConstants, WorkerFacts
    <2>2. Cost(Len(batch)) \in Nat
      BY WorkerFacts, CostFacts
    <2>3. Left = Cost(Len(batch)) - 2 * (attempt - 1) - 1
      BY DEF Left
    <2>4. attempt' = attempt + 1 /\ pc' = "push" /\ batch' = batch
      BY <1>1 DEF AttemptFails
    <2>5. Left' = Cost(Len(batch)) - 2 * ((attempt + 1) - 1)
      BY <2>4 DEF Left, Cost
    <2> QED
      BY <2>1, <2>2, <2>3, <2>5
  <1>2. CASE ~(attempt < RetryMaxAttempts)
    BY <1>2, NextUpdateSpends DEF AttemptFails
  <1> QED
    BY <1>1, <1>2

(* Every step of the worker takes from its budget.                         *)
LEMMA OwnStepSpends == ASSUME WorkInv, OwnStep PROVE Left' < Left
  <1>1. RetryMaxAttempts \in Nat /\ BatchSize \in Nat \ {0}
    BY CarrierConstants
  <1>2. Cost(BatchSize) \in Nat
    BY <1>1, CostFacts
  <1>3. CASE Fetch
    <2>1. pc = "fetch" /\ pc' = "store" /\ batch' = Places(cursor, BatchSize)
      BY <1>3 DEF Fetch
    <2>2. Len(batch') = BatchSize
      BY <1>1, <2>1 DEF Places
    <2>3. attempt \in 1..RetryMaxAttempts
      BY <2>1, WorkerFacts
    <2>4. Left = RetryMaxAttempts - attempt + 2 + Cost(BatchSize)
      BY <2>1 DEF Left
    <2>5. Left' = 1 + Cost(BatchSize)
      BY <2>1, <2>2 DEF Left, Cost
    <2> QED
      BY <1>1, <1>2, <2>3, <2>4, <2>5
  <1>4. CASE FetchFails
    <2>1. pc = "fetch" /\ attempt \in 1..RetryMaxAttempts
      BY <1>4, WorkerFacts DEF FetchFails
    <2>2. Left = RetryMaxAttempts - attempt + 2 + Cost(BatchSize)
      BY <2>1 DEF Left
    <2>3. \/ attempt' = attempt + 1 /\ pc' = "fetch"
          \/ attempt' = 0 /\ pc' = "idle"
      BY <1>4 DEF FetchFails
    <2>4. \/ Left' = RetryMaxAttempts - (attempt + 1) + 2 + Cost(BatchSize)
          \/ Left' = 0
      BY <2>3 DEF Left, Cost
    <2> QED
      BY <1>1, <1>2, <2>1, <2>2, <2>4
  <1>5. CASE Store
    <2>1. pc = "store" /\ pc' = "push" /\ attempt' = 1 /\ batch' = batch
      BY <1>5 DEF Store
    <2>2. Cost(Len(batch)) \in Nat
      BY <2>1, WorkerFacts, CostFacts
    <2>3. Left = 1 + Cost(Len(batch)) /\ Left' = Cost(Len(batch)) - 2 * (1 - 1)
      BY <2>1 DEF Left, Cost
    <2> QED
      BY <2>2, <2>3
  <1>6. CASE Push
    <2>1. pc = "push" /\ pc' = "wait" /\ attempt' = attempt /\ batch' = batch
      BY <1>6 DEF Push
    <2>2. Cost(Len(batch)) \in Nat /\ attempt \in 1..RetryMaxAttempts
      BY <2>1, WorkerFacts, CostFacts
    <2>3. /\ Left = Cost(Len(batch)) - 2 * (attempt - 1)
          /\ Left' = Cost(Len(batch)) - 2 * (attempt - 1) - 1
      BY <2>1 DEF Left, Cost
    <2> QED
      BY <1>1, <2>2, <2>3
  <1>7. CASE GiveUp
    BY <1>7, AttemptFailsSpends DEF GiveUp
  <1>8. ASSUME NEW r \in net, Answered(r) PROVE Left' < Left
    <2>1. pc = "wait" /\ (NextUpdate \/ AttemptFails)
      BY <1>8 DEF Answered, Confirmed, Refused, ErrorAnswer, Hears
    <2> QED
      BY <2>1, NextUpdateSpends, AttemptFailsSpends
  <1> QED
    BY <1>3, <1>4, <1>5, <1>6, <1>7, <1>8 DEF OwnStep, Advance

(* Every step does with the budget what BudgetSpent says.                  *)
LEMMA StepBudget == ASSUME WorkInv, [Next]_vars PROVE BudgetSpent
  <1>1. OwnStep => Left' < Left
    BY OwnStepSpends
  <1>2. ASSUME StartCycle PROVE Left' = RetryMaxAttempts + 1 + Cost(BatchSize)
    <2>1. pc' = "fetch" /\ attempt' = 1
      BY <1>2 DEF StartCycle
    <2>2. Left' = RetryMaxAttempts - 1 + 2 + Cost(BatchSize)
      BY <2>1 DEF Left, Cost
    <2>3. RetryMaxAttempts \in Nat /\ BatchSize \in Nat \ {0}
      BY CarrierConstants
    <2>4. Cost(BatchSize) \in Nat
      BY <2>3, CostFacts
    <2> QED
      BY <2>2, <2>3, <2>4
  <1>3. ASSUME UNCHANGED worker PROVE Left' = Left
    BY <1>3 DEF worker, Left, Cost
  <1>4. ASSUME ~OwnStep, ~StartCycle PROVE UNCHANGED worker \/ Restart
    BY <1>4 DEF Next, vars, OwnStep, worker, Unanswered, ClientUpdate, ManualFetch, ManualStore
  <1>5. Restart => Left' = 0
    BY DEF Restart, Left
  <1> QED
    BY <1>1, <1>2, <1>3, <1>4, <1>5 DEF BudgetSpent

(* The core of EveryCycleEnds, for every batch and number of attempts:     *)
(* whatever the carrier, the tracking-service, its other clients and       *)
(* manual runs do in between, a cycle of the worker takes at most          *)
(* 1 + RetryMaxAttempts * (1 + 2 * BatchSize) steps of its own.            *)
THEOREM CyclesBounded == Spec => [](Left \in Nat /\ (Left = 0 <=> pc = "idle")) /\ [][BudgetSpent]_vars
  <1>1. CarrierInv => Left \in Nat /\ (Left = 0 <=> pc = "idle")
    BY LeftNat DEF CarrierInv
  <1>2. CarrierInv /\ [Next]_vars => [BudgetSpent]_vars
    BY StepBudget DEF CarrierInv
  <1> QED
    BY <1>1, <1>2, CarrierInvariant, PTL DEF Spec

-----------------------------------------------------------------------------
(* No external name stands for two statuses, so MapExternalStatus is the   *)
(* map of the code and its choice is none; the names that are the internal *)
(* ones, which is all the mock carrier sends, stand for themselves.        *)
THEOREM MappingIsUnambiguous ==
    /\ \A s \in Statuses : \A external \in ExternalNames[s] : MapExternalStatus(external) = s
    /\ \A s \in Statuses : MapExternalStatus(s) = s
  <1>1. ASSUME NEW s \in Statuses, NEW t \in Statuses, NEW external,
               external \in ExternalNames[s], external \in ExternalNames[t]
        PROVE  s = t
    <2>1. CASE s = "created"
      BY <1>1, <2>1 DEF ExternalNames, Statuses
    <2>2. CASE s = "assigned"
      BY <1>1, <2>2 DEF ExternalNames, Statuses
    <2>3. CASE s = "in_transit"
      BY <1>1, <2>3 DEF ExternalNames, Statuses
    <2>4. CASE s = "delivered"
      BY <1>1, <2>4 DEF ExternalNames, Statuses
    <2>5. CASE s = "cancelled"
      BY <1>1, <2>5 DEF ExternalNames, Statuses
    <2> QED
      BY <2>1, <2>2, <2>3, <2>4, <2>5 DEF Statuses
  <1>2. ASSUME NEW s \in Statuses, NEW external \in ExternalNames[s]
        PROVE  MapExternalStatus(external) = s
    BY <1>1 DEF MapExternalStatus
  <1>3. \A s \in Statuses : s \in ExternalNames[s]
    BY DEF ExternalNames, Statuses
  <1> QED
    BY <1>2, <1>3
=============================================================================
