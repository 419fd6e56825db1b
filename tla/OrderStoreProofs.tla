-------------------------- MODULE OrderStoreProofs --------------------------
(***************************************************************************)
(* Proofs about OrderStore, for every number of requests, orders and       *)
(* couriers.                                                               *)
(***************************************************************************)
EXTENDS OrderStore, TLAPS

USE DEF db

(* The statements of a transaction, as Next groups them. *)
Step(p) ==
    \/ BeginTx(p) \/ SelectMissing(p) \/ SelectForUpdate(p) \/ CheckCourier(p)
    \/ InsertAssignment(p) \/ UpdateRow(p) \/ InsertHistory(p) \/ Commit(p)
    \/ CommitAnswerLost(p) \/ Fail(p) \/ Rollback(p)

(* A step is one of these: nothing, a tick, a creation, a step of a request. *)
LEMMA NextCases ==
    ASSUME [Next]_vars
    PROVE  \/ UNCHANGED vars
           \/ Tick
           \/ \E o \in Orders : \E at \in 0..clock : CreateOrder(o, at)
           \/ \E p \in Requests : Step(p)
BY DEF Next, Advance, Step

(* The row a request writes to the history is well typed. *)
LEMMA HistoryRowType ==
    ASSUME TypeOK, NEW p \in Requests
    PROVE  HistoryRow(p) \in Entries
<1>1. req[p] \in Inputs /\ began[p] \in Nat
  BY DEF TypeOK
<1>2. CASE req[p] \in AssignInputs
  BY <1>1, <1>2 DEF HistoryRow, Entries, NextStatus, IsAssign, AssignInputs, Statuses, StatusSources
<1>3. CASE req[p] \in UpdateInputs
  BY <1>1, <1>3, ConstantsAssumption DEF HistoryRow, Entries, NextStatus, IsAssign, UpdateInputs
<1>. QED
  BY <1>1, <1>2, <1>3 DEF Inputs

(* What the handlers read from a request is in range. *)
LEMMA InputType ==
    ASSUME TypeOK, NEW p \in Requests
    PROVE  /\ Order(p) \in Orders
           /\ NextStatus(p) \in Statuses
           /\ IsAssign(p) => req[p].courier \in Couriers
           /\ ~IsAssign(p) => req[p].status \in Statuses
<1>1. req[p] \in Inputs
  BY DEF TypeOK
<1>2. CASE req[p] \in AssignInputs
  BY <1>1, <1>2 DEF Order, NextStatus, IsAssign, AssignInputs, Statuses
<1>3. CASE req[p] \in UpdateInputs
  BY <1>1, <1>3 DEF Order, NextStatus, IsAssign, UpdateInputs
<1>. QED
  BY <1>1, <1>2, <1>3 DEF Inputs

(* What a commit does to the tables, one order at a time. *)
LEMMA ApplyEffect ==
    ASSUME TypeOK, NEW p \in Requests, Apply(p)
    PROVE  /\ \A o \in Orders : o # Order(p) =>
                /\ row'[o] = row[o]
                /\ assignment'[o] = assignment[o]
                /\ history'[o] = history[o]
                /\ lock'[o] = lock[o]
           /\ lock'[Order(p)] = NoRequest
           /\ row'[Order(p)] = IF "orders" \in wrote[p]
                               THEN [status |-> NextStatus(p),
                                     createdAt |-> row[Order(p)].createdAt,
                                     lastStatusAt |-> began[p]]
                               ELSE row[Order(p)]
           /\ assignment'[Order(p)] = IF "assignments" \in wrote[p]
                                      THEN req[p].courier ELSE assignment[Order(p)]
           /\ history'[Order(p)] = IF "history" \in wrote[p]
                                   THEN Append(history[Order(p)], HistoryRow(p))
                                   ELSE history[Order(p)]
           /\ \A q \in Requests : wrote'[q] = IF q = p THEN {} ELSE wrote[q]
           /\ DOMAIN row' = Orders /\ DOMAIN assignment' = Orders
           /\ DOMAIN history' = Orders /\ DOMAIN lock' = Orders
<1>1. Order(p) \in Orders
  BY InputType
<1>2. /\ row[Order(p)] \in [status: Statuses \cup {NoOrder}, createdAt: Nat, lastStatusAt: Nat]
      /\ DOMAIN row = Orders /\ DOMAIN assignment = Orders
      /\ DOMAIN history = Orders /\ DOMAIN lock = Orders /\ DOMAIN wrote = Requests
  BY <1>1 DEF TypeOK
<1>3. /\ \A o \in Orders : o # Order(p) => row'[o] = row[o]
      /\ DOMAIN row' = Orders
      /\ row'[Order(p)] = IF "orders" \in wrote[p]
                          THEN [status |-> NextStatus(p),
                                createdAt |-> row[Order(p)].createdAt,
                                lastStatusAt |-> began[p]]
                          ELSE row[Order(p)]
  BY <1>1, <1>2 DEF Apply
<1>4. /\ \A o \in Orders : o # Order(p) => assignment'[o] = assignment[o]
      /\ DOMAIN assignment' = Orders
      /\ assignment'[Order(p)] = IF "assignments" \in wrote[p]
                                 THEN req[p].courier ELSE assignment[Order(p)]
  BY <1>1, <1>2 DEF Apply
<1>5. /\ \A o \in Orders : o # Order(p) => history'[o] = history[o]
      /\ DOMAIN history' = Orders
      /\ history'[Order(p)] = IF "history" \in wrote[p]
                              THEN Append(history[Order(p)], HistoryRow(p))
                              ELSE history[Order(p)]
  BY <1>1, <1>2 DEF Apply
<1>6. /\ \A o \in Orders : o # Order(p) => lock'[o] = lock[o]
      /\ DOMAIN lock' = Orders
      /\ lock'[Order(p)] = NoRequest
      /\ \A q \in Requests : wrote'[q] = IF q = p THEN {} ELSE wrote[q]
  BY <1>1, <1>2 DEF Apply
<1>. QED
  BY <1>3, <1>4, <1>5, <1>6

-----------------------------------------------------------------------------
(* What an open transaction has written depends only on the statement it   *)
(* has reached: this is what makes a commit all or nothing.                *)
FirstWrites(p) == IF IsAssign(p) THEN {"assignments"} ELSE {}

WritesOK(p) ==
    /\ pc[p] \in {"courier", "assignment"} => IsAssign(p)
    /\ pc[p] \in {"idle", "select", "courier", "assignment", "done"} => wrote[p] = {}
    /\ pc[p] = "update"  => wrote[p] = FirstWrites(p)
    /\ pc[p] = "history" => wrote[p] = FirstWrites(p) \cup {"orders"}
    /\ pc[p] = "commit"  => wrote[p] = FirstWrites(p) \cup {"orders", "history"}

WritesInv == \A p \in Requests : WritesOK(p)

(* A step of p leaves every other request's writes as they were. *)
LEMMA WritesFrame ==
    ASSUME WritesInv, NEW p \in Requests, UNCHANGED req, WritesOK(p)',
           \A q \in Requests : q # p => pc'[q] = pc[q] /\ wrote'[q] = wrote[q]
    PROVE  WritesInv'
<1>. SUFFICES ASSUME NEW q \in Requests, q # p
              PROVE  WritesOK(q)'
  BY DEF WritesInv
<1>1. pc'[q] = pc[q] /\ wrote'[q] = wrote[q] /\ req'[q] = req[q] /\ WritesOK(q)
  BY DEF WritesInv
<1>. QED
  BY <1>1 DEF WritesOK, FirstWrites, IsAssign

(* A commit of well typed writes leaves the tables well typed. *)
LEMMA ApplyType ==
    ASSUME TypeOK, WritesInv, NEW p \in Requests, pc[p] = "commit", Apply(p)
    PROVE  /\ row' \in [Orders -> [status: Statuses \cup {NoOrder}, createdAt: Nat, lastStatusAt: Nat]]
           /\ assignment' \in [Orders -> Couriers \cup {NoCourier}]
           /\ history' \in [Orders -> Seq(Entries)]
           /\ lock' \in [Orders -> Requests \cup {NoRequest}]
           /\ wrote' \in [Requests -> SUBSET {"assignments", "orders", "history"}]
<1>1. Order(p) \in Orders /\ NextStatus(p) \in Statuses
  BY InputType
<1>2. HistoryRow(p) \in Entries
  BY HistoryRowType
<1>3. row[Order(p)].createdAt \in Nat /\ began[p] \in Nat
  BY <1>1 DEF TypeOK
<1>4. row' \in [Orders -> [status: Statuses \cup {NoOrder}, createdAt: Nat, lastStatusAt: Nat]]
  BY <1>1, <1>3 DEF Apply, TypeOK
<1>5. req[p].courier \in Couriers \/ "assignments" \notin wrote[p]
  BY InputType DEF WritesInv, WritesOK, FirstWrites
<1>6. assignment' \in [Orders -> Couriers \cup {NoCourier}]
  BY <1>1, <1>5 DEF Apply, TypeOK
<1>7. history' \in [Orders -> Seq(Entries)]
  <2>1. Append(history[Order(p)], HistoryRow(p)) \in Seq(Entries)
    BY <1>1, <1>2 DEF TypeOK
  <2>. QED
    BY <1>1, <2>1 DEF Apply, TypeOK
<1>8. lock' \in [Orders -> Requests \cup {NoRequest}]
  BY <1>1 DEF Apply, TypeOK
<1>9. wrote' \in [Requests -> SUBSET {"assignments", "orders", "history"}]
  BY DEF Apply, TypeOK
<1>. QED
  BY <1>4, <1>6, <1>7, <1>8, <1>9

(* A statement touches no table: it moves its own request along. *)
LEMMA TypeFrame ==
    ASSUME TypeOK, UNCHANGED <<db, clock, req, began>>,
           lock' \in [Orders -> Requests \cup {NoRequest}],
           pc' \in [Requests -> Labels],
           wrote' \in [Requests -> SUBSET {"assignments", "orders", "history"}],
           reply' \in [Requests -> Refusals \cup {"none", "ok", "error"}]
    PROVE  TypeOK'
BY DEF TypeOK

(* The status check answers with a refusal or with none. *)
LEMMA StatusCheckType ==
    ASSUME NEW p, NEW s
    PROVE  StatusCheck(p, s) \in Refusals \cup {"none"}
BY DEF StatusCheck, Refusals

(* The tables and requests begin well typed. *)
LEMMA TypeInit == Init => TypeOK /\ WritesInv
<1>1. Init => TypeOK
  BY DEF Init, TypeOK, Labels
<1>2. Init => WritesInv
  BY DEF Init, WritesInv, WritesOK
<1>. QED
  BY <1>1, <1>2

(* Type correctness and WritesInv are preserved together: the type of an   *)
(* assignments row rests on only an AssignOrder ever writing one.          *)
LEMMA TypeStep == TypeOK /\ WritesInv /\ [Next]_vars => TypeOK' /\ WritesInv'
<1>. SUFFICES ASSUME TypeOK, WritesInv, [Next]_vars
              PROVE  TypeOK' /\ WritesInv'
  OBVIOUS
<1>1. CASE UNCHANGED vars
  BY <1>1 DEF vars, TypeOK, WritesInv, WritesOK, FirstWrites, IsAssign
<1>2. CASE Tick
  BY <1>2 DEF Tick, TypeOK, WritesInv, WritesOK, FirstWrites, IsAssign
<1>3. ASSUME NEW o \in Orders, NEW at \in 0..clock, CreateOrder(o, at)
      PROVE  TypeOK' /\ WritesInv'
  <2>1. at \in Nat
    BY <1>3 DEF TypeOK
  <2>2. TypeOK'
    BY <1>3, <2>1 DEF CreateOrder, TypeOK, Statuses
  <2>3. WritesInv'
    BY <1>3 DEF CreateOrder, WritesInv, WritesOK, FirstWrites, IsAssign
  <2>. QED
    BY <2>2, <2>3
<1>4. ASSUME NEW p \in Requests, Step(p)
      PROVE  TypeOK' /\ WritesInv'
  <2>. /\ WritesOK(p) /\ wrote[p] \in SUBSET {"assignments", "orders", "history"}
       /\ DOMAIN pc = Requests /\ DOMAIN wrote = Requests
    BY DEF WritesInv, TypeOK
  <2>1. CASE BeginTx(p)
    <3>1. TypeOK'
      BY <2>1 DEF BeginTx, TypeOK, Labels
    <3>2. WritesOK(p)'
      BY <2>1 DEF BeginTx, WritesOK
    <3>. QED
      BY <2>1, <3>1, <3>2, WritesFrame DEF BeginTx
  <2>2. CASE SelectMissing(p) \/ Fail(p)
    <3>1. /\ UNCHANGED <<db, lock, clock, req, began, wrote>>
          /\ \E a \in Refusals \cup {"error"} : Refuse(p, a)
      BY <2>2 DEF SelectMissing, Fail, Refusals
    <3>2. TypeOK'
      BY <3>1, TypeFrame DEF Refuse, TypeOK, Labels
    <3>3. WritesOK(p)'
      BY <3>1 DEF Refuse, WritesOK
    <3>. QED
      BY <3>1, <3>2, <3>3, WritesFrame DEF Refuse
  <2>3. CASE SelectForUpdate(p)
    <3>1. Order(p) \in Orders
      BY InputType
    <3>2. StatusCheck(p, row[Order(p)].status) \in Refusals \cup {"none"}
      BY StatusCheckType
    <3>3. TypeOK'
      <4>1. UNCHANGED <<db, clock, req, began, wrote>>
        BY <2>3 DEF SelectForUpdate
      <4>2. lock' \in [Orders -> Requests \cup {NoRequest}]
        BY <2>3, <3>1 DEF SelectForUpdate, TypeOK
      <4>3. pc' \in [Requests -> Labels]
        BY <2>3 DEF SelectForUpdate, Goto, Refuse, TypeOK, Labels
      <4>4. reply' \in [Requests -> Refusals \cup {"none", "ok", "error"}]
        BY <2>3, <3>2 DEF SelectForUpdate, Goto, Refuse, TypeOK
      <4>. QED
        BY <4>1, <4>2, <4>3, <4>4, TypeFrame DEF TypeOK
    <3>4. WritesOK(p)'
      BY <2>3 DEF SelectForUpdate, Goto, Refuse, WritesOK, FirstWrites, IsAssign
    <3>5. \A q \in Requests : q # p => pc'[q] = pc[q] /\ wrote'[q] = wrote[q]
      BY <2>3 DEF SelectForUpdate, Goto, Refuse
    <3>. QED
      BY <2>3, <3>3, <3>4, <3>5, WritesFrame DEF SelectForUpdate
  <2>4. CASE CheckCourier(p)
    <3>1. /\ pc[p] = "courier"
          /\ UNCHANGED <<db, lock, clock, req, began, wrote>>
          /\ \/ pc' = [pc EXCEPT ![p] = "assignment"] /\ reply' = reply
             \/ Refuse(p, "courier_not_found")
      BY <2>4 DEF CheckCourier, Goto
    <3>2. TypeOK'
      <4>1. reply' \in [Requests -> Refusals \cup {"none", "ok", "error"}]
        BY <3>1 DEF TypeOK, Refuse, Refusals
      <4>2. pc' \in [Requests -> Labels]
        BY <3>1 DEF TypeOK, Refuse, Labels
      <4>3. wrote' \in [Requests -> SUBSET {"assignments", "orders", "history"}]
        BY <3>1 DEF TypeOK
      <4>. QED
        BY <3>1, <4>1, <4>2, <4>3, TypeFrame DEF TypeOK
    <3>3. WritesOK(p)'
      BY <3>1 DEF Refuse, WritesOK, IsAssign
    <3>. QED
      BY <3>1, <3>2, <3>3, WritesFrame DEF Refuse
  <2>5. CASE InsertAssignment(p)
    <3>1. /\ pc[p] = "assignment"
          /\ UNCHANGED <<db, lock, clock, req, began>>
          /\ \/ /\ pc' = [pc EXCEPT ![p] = "update"] /\ reply' = reply
                /\ wrote' = [wrote EXCEPT ![p] = {"assignments"}]
             \/ Refuse(p, "already_assigned") /\ wrote' = wrote
      <4>1. wrote[p] \cup {"assignments"} = {"assignments"} \/ pc[p] # "assignment"
        BY DEF WritesOK
      <4>. QED
        BY <2>5, <4>1 DEF InsertAssignment, Goto
    <3>2. TypeOK'
      <4>1. reply' \in [Requests -> Refusals \cup {"none", "ok", "error"}]
        BY <3>1 DEF TypeOK, Refuse, Refusals
      <4>2. pc' \in [Requests -> Labels]
        BY <3>1 DEF TypeOK, Refuse, Labels
      <4>3. wrote' \in [Requests -> SUBSET {"assignments", "orders", "history"}]
        <5>1. {"assignments"} \in SUBSET {"assignments", "orders", "history"}
          OBVIOUS
        <5>2. wrote' = wrote \/ wrote' = [wrote EXCEPT ![p] = {"assignments"}]
          BY <3>1
        <5>. QED
          BY <5>1, <5>2 DEF TypeOK
      <4>. QED
        BY <3>1, <4>1, <4>2, <4>3, TypeFrame DEF TypeOK
    <3>3. WritesOK(p)'
      BY <3>1 DEF Refuse, WritesOK, FirstWrites, IsAssign
    <3>. QED
      BY <3>1, <3>2, <3>3, WritesFrame DEF Refuse
  <2>6. CASE UpdateRow(p)
    <3>1. /\ pc[p] = "update"
          /\ UNCHANGED <<db, lock, clock, req, began>>
          /\ \/ /\ pc' = [pc EXCEPT ![p] = "history"] /\ reply' = reply
                /\ wrote' = [wrote EXCEPT ![p] = FirstWrites(p) \cup {"orders"}]
             \/ Refuse(p, "error") /\ wrote' = wrote
      BY <2>6 DEF UpdateRow, Goto, WritesOK
    <3>2. TypeOK'
      <4>1. FirstWrites(p) \cup {"orders"} \in SUBSET {"assignments", "orders", "history"}
        BY DEF FirstWrites
      <4>. QED
        <5>1. reply' \in [Requests -> Refusals \cup {"none", "ok", "error"}]
          BY <3>1 DEF TypeOK, Refuse
        <5>2. pc' \in [Requests -> Labels]
          BY <3>1 DEF TypeOK, Refuse, Labels
        <5>3. wrote' \in [Requests -> SUBSET {"assignments", "orders", "history"}]
          BY <3>1, <4>1 DEF TypeOK
        <5>. QED
          BY <3>1, <5>1, <5>2, <5>3, TypeFrame DEF TypeOK
    <3>3. WritesOK(p)'
      BY <3>1 DEF Refuse, WritesOK, FirstWrites, IsAssign
    <3>. QED
      BY <3>1, <3>2, <3>3, WritesFrame DEF Refuse
  <2>7. CASE InsertHistory(p)
    <3>1. /\ UNCHANGED <<db, lock, clock, req, began, reply>>
          /\ pc' = [pc EXCEPT ![p] = "commit"]
          /\ wrote' = [wrote EXCEPT ![p] = FirstWrites(p) \cup {"orders", "history"}]
      <4>1. wrote[p] \cup {"history"} = FirstWrites(p) \cup {"orders", "history"} \/ pc[p] # "history"
        BY DEF WritesOK
      <4>. QED
        BY <2>7, <4>1 DEF InsertHistory, Goto
    <3>2. TypeOK'
      <4>1. FirstWrites(p) \cup {"orders", "history"} \in SUBSET {"assignments", "orders", "history"}
        BY DEF FirstWrites
      <4>. QED
        <5>1. pc' \in [Requests -> Labels]
          BY <3>1 DEF TypeOK, Labels
        <5>2. wrote' \in [Requests -> SUBSET {"assignments", "orders", "history"}]
          BY <3>1, <4>1 DEF TypeOK
        <5>. QED
          BY <3>1, <5>1, <5>2, TypeFrame DEF TypeOK
    <3>3. WritesOK(p)'
      BY <3>1 DEF WritesOK, FirstWrites, IsAssign
    <3>. QED
      BY <3>1, <3>2, <3>3, WritesFrame
  <2>8. CASE Commit(p) \/ CommitAnswerLost(p)
    <3>1. /\ pc[p] = "commit" /\ Apply(p) /\ UNCHANGED <<clock, req, began>>
          /\ pc' = [pc EXCEPT ![p] = "done"]
          /\ \E a \in {"ok", "error"} : reply' = [reply EXCEPT ![p] = a]
      BY <2>8 DEF Commit, CommitAnswerLost
    <3>2. TypeOK'
      BY <3>1, ApplyType DEF TypeOK, Labels
    <3>3. \A q \in Requests : wrote'[q] = IF q = p THEN {} ELSE wrote[q]
      BY <3>1, ApplyEffect
    <3>4. WritesOK(p)'
      BY <3>1, <3>3 DEF WritesOK
    <3>. QED
      BY <3>1, <3>2, <3>3, <3>4, WritesFrame
  <2>9. CASE Rollback(p)
    <3>1. TypeOK'
      BY <2>9, TypeFrame DEF Rollback, TypeOK, Labels
    <3>2. WritesOK(p)'
      BY <2>9 DEF Rollback, WritesOK
    <3>. QED
      BY <2>9, <3>1, <3>2, WritesFrame DEF Rollback
  <2>. QED
    BY <1>4, <2>1, <2>2, <2>3, <2>4, <2>5, <2>6, <2>7, <2>8, <2>9 DEF Step
<1>. QED
  BY <1>1, <1>2, <1>3, <1>4, NextCases

(* Type correctness of the tables, locks and requests of both services. *)
THEOREM TypeCorrect == Spec => []TypeOK
<1>1. Spec => [](TypeOK /\ WritesInv)
  BY TypeInit, TypeStep, PTL DEF Spec
<1>. QED
  BY <1>1, PTL

-----------------------------------------------------------------------------
(* A request past its SELECT ... FOR UPDATE holds the row's lock, and the  *)
(* check it made on the status still holds of the committed row: the value *)
(* it read cannot have become stale.                                       *)
Locked == {"courier", "assignment", "update", "history", "commit"}

LockOK(p) ==
    pc[p] \in Locked =>
        /\ lock[Order(p)] = p
        /\ Exists(Order(p))
        /\ StatusCheck(p, row[Order(p)].status) = "none"

LockInv == \A p \in Requests : LockOK(p)

(* A request that a step leaves alone keeps its locks. *)
LEMMA LockFrame ==
    ASSUME NEW p \in Requests, LockOK(p), UNCHANGED req, pc'[p] = pc[p] \/ pc'[p] \notin Locked,
           pc[p] \in Locked => lock'[Order(p)] = p /\ row'[Order(p)] = row[Order(p)]
    PROVE  LockOK(p)'
<1>. SUFFICES ASSUME pc'[p] \in Locked
              PROVE  LockOK(p)'
  BY DEF LockOK
<1>1. Order(p)' = Order(p) /\ IsAssign(p)' = IsAssign(p) /\ req'[p] = req[p]
  BY DEF Order, IsAssign
<1>2. pc[p] \in Locked /\ row'[Order(p)] = row[Order(p)]
  BY DEF Locked
<1>3. Exists(Order(p))' = Exists(Order(p))
  BY <1>1, <1>2 DEF Exists
<1>4. StatusCheck(p, row[Order(p)].status)' = StatusCheck(p, row[Order(p)].status)
  BY <1>1, <1>2 DEF StatusCheck, ValidateStatusTransition
<1>. QED
  BY <1>1, <1>2, <1>3, <1>4 DEF LockOK

(* A statement that touches neither the tables nor the locks and keeps its *)
(* request inside, or takes it out of, the locked section.                 *)
LEMMA LockLocalStep ==
    ASSUME TypeOK, LockInv, NEW p \in Requests, NEW l \in Labels,
           UNCHANGED <<row, lock, req>>, pc' = [pc EXCEPT ![p] = l],
           l \in Locked => pc[p] \in Locked
    PROVE  LockInv'
<1>. SUFFICES ASSUME NEW q \in Requests
              PROVE  LockOK(q)'
  BY DEF LockInv
<1>1. LockOK(q)
  BY DEF LockInv
<1>2. CASE q # p
  BY <1>1, <1>2, LockFrame DEF TypeOK, LockOK
<1>3. CASE q = p
  <2>. SUFFICES ASSUME l \in Locked
                PROVE  LockOK(p)'
    BY <1>3 DEF TypeOK, LockOK
  <2>1. lock[Order(p)] = p /\ Exists(Order(p)) /\ StatusCheck(p, row[Order(p)].status) = "none"
    BY <1>1, <1>3 DEF LockOK
  <2>2. Order(p)' = Order(p) /\ Exists(Order(p))' = Exists(Order(p))
        /\ StatusCheck(p, row[Order(p)].status)' = StatusCheck(p, row[Order(p)].status)
    BY DEF Order, Exists, StatusCheck, IsAssign, ValidateStatusTransition
  <2>. QED
    BY <2>1, <2>2 DEF LockOK
<1>. QED
  BY <1>2, <1>3

(* In the beginning nobody holds a row lock. *)
LEMMA LockInit == Init => LockInv
BY DEF Init, LockInv, LockOK, Locked

(* Only a request between its SELECT and its end holds its row's lock. *)
LEMMA LockStep == TypeOK /\ LockInv /\ [Next]_vars => LockInv'
<1>. SUFFICES ASSUME TypeOK, LockInv, [Next]_vars
              PROVE  LockInv'
  OBVIOUS
<1>1. CASE UNCHANGED vars \/ Tick
  <2>. SUFFICES ASSUME NEW q \in Requests
                PROVE  LockOK(q)'
    BY DEF LockInv
  <2>1. UNCHANGED <<row, lock, req, pc>>
    BY <1>1 DEF vars, Tick
  <2>. QED
    BY <2>1, LockFrame DEF LockInv, LockOK
<1>2. ASSUME NEW o \in Orders, NEW at \in 0..clock, CreateOrder(o, at)
      PROVE  LockInv'
  <2>. SUFFICES ASSUME NEW q \in Requests
                PROVE  LockOK(q)'
    BY DEF LockInv
  <2>1. UNCHANGED <<lock, req, pc>> /\ ~Exists(o) /\ Order(q) \in Orders
    BY <1>2, InputType DEF CreateOrder
  <2>2. Order(q) # o => row'[Order(q)] = row[Order(q)]
    BY <1>2, <2>1 DEF CreateOrder, TypeOK
  <2>. QED
    BY <2>1, <2>2, LockFrame DEF LockInv, LockOK
<1>3. ASSUME NEW p \in Requests, Step(p)
      PROVE  LockInv'
  <2>1. CASE BeginTx(p) \/ SelectMissing(p) \/ Fail(p)
    <3>1. \E l \in {"select", "rollback"} : pc' = [pc EXCEPT ![p] = l]
      BY <2>1 DEF BeginTx, SelectMissing, Fail, Refuse
    <3>2. UNCHANGED <<row, lock, req>>
      BY <2>1 DEF BeginTx, SelectMissing, Fail
    <3>. QED
      BY <3>1, <3>2, LockLocalStep DEF Locked, Labels
  <2>2. CASE CheckCourier(p) \/ InsertAssignment(p) \/ UpdateRow(p) \/ InsertHistory(p)
    <3>1. /\ \E l \in {"assignment", "update", "history", "commit", "rollback"} :
                pc' = [pc EXCEPT ![p] = l]
          /\ pc[p] \in Locked
      BY <2>2 DEF CheckCourier, InsertAssignment, UpdateRow, InsertHistory, Refuse, Goto, Locked
    <3>2. UNCHANGED <<row, lock, req>>
      BY <2>2 DEF CheckCourier, InsertAssignment, UpdateRow, InsertHistory
    <3>. QED
      BY <3>1, <3>2, LockLocalStep DEF Locked, Labels
  <2>3. CASE SelectForUpdate(p)
    <3>. SUFFICES ASSUME NEW q \in Requests
                  PROVE  LockOK(q)'
      BY DEF LockInv
    <3>1. UNCHANGED <<row, req>> /\ Order(p) \in Orders /\ Order(q) \in Orders
      BY <2>3, InputType DEF SelectForUpdate
    <3>2. CASE q # p
      <4>1. pc'[q] = pc[q]
        BY <2>3, <3>2 DEF SelectForUpdate, Goto, Refuse, TypeOK
      <4>2. pc[q] \in Locked => Order(q) # Order(p)
        BY <2>3, ConstantsAssumption DEF SelectForUpdate, LockInv, LockOK
      <4>3. pc[q] \in Locked => lock'[Order(q)] = q
        BY <2>3, <3>1, <4>2 DEF SelectForUpdate, LockInv, LockOK, TypeOK
      <4>. QED
        BY <3>1, <4>1, <4>3, LockFrame DEF LockInv
    <3>3. CASE q = p
      <4>1. pc'[p] \in Locked => StatusCheck(p, row[Order(p)].status) = "none"
        BY <2>3 DEF SelectForUpdate, Goto, Refuse, TypeOK, Locked
      <4>2. lock'[Order(p)] = p /\ Exists(Order(p))
        BY <2>3, <3>1 DEF SelectForUpdate, TypeOK
      <4>3. Order(p)' = Order(p) /\ Exists(Order(p))' = Exists(Order(p))
            /\ StatusCheck(p, row[Order(p)].status)' = StatusCheck(p, row[Order(p)].status)
        BY <3>1 DEF Order, Exists, StatusCheck, IsAssign, ValidateStatusTransition
      <4>. QED
        BY <3>3, <4>1, <4>2, <4>3 DEF LockOK
    <3>. QED
      BY <3>2, <3>3
  <2>4. CASE Commit(p) \/ CommitAnswerLost(p)
    <3>. SUFFICES ASSUME NEW q \in Requests
                  PROVE  LockOK(q)'
      BY DEF LockInv
    <3>1. /\ pc[p] = "commit" /\ Apply(p) /\ UNCHANGED req
          /\ pc' = [pc EXCEPT ![p] = "done"]
      BY <2>4 DEF Commit, CommitAnswerLost
    <3>2. Order(q) \in Orders
      BY InputType
    <3>3. CASE q = p
      BY <3>1, <3>3 DEF LockOK, Locked, TypeOK
    <3>4. CASE q # p
      <4>1. pc[q] \in Locked => Order(q) # Order(p)
        BY <3>1, <3>4 DEF LockInv, LockOK, Locked
      <4>2. pc[q] \in Locked => lock'[Order(q)] = q /\ row'[Order(q)] = row[Order(q)]
        BY <3>1, <3>2, <4>1, ApplyEffect DEF LockInv, LockOK
      <4>. QED
        BY <3>1, <3>4, <4>2, LockFrame DEF LockInv, TypeOK
    <3>. QED
      BY <3>3, <3>4
  <2>5. CASE Rollback(p)
    <3>. SUFFICES ASSUME NEW q \in Requests
                  PROVE  LockOK(q)'
      BY DEF LockInv
    <3>1. Order(p) \in Orders /\ Order(q) \in Orders /\ UNCHANGED <<row, req>>
      BY <2>5, InputType DEF Rollback
    <3>2. CASE q = p
      BY <2>5, <3>2 DEF Rollback, LockOK, Locked, TypeOK
    <3>3. CASE q # p
      <4>1. pc[q] \in Locked => lock'[Order(q)] = q
        BY <2>5, <3>1, <3>3 DEF Rollback, LockInv, LockOK, TypeOK
      <4>. QED
        BY <2>5, <3>1, <3>3, <4>1, LockFrame DEF Rollback, LockInv, TypeOK
    <3>. QED
      BY <3>2, <3>3
  <2>. QED
    BY <1>3, <2>1, <2>2, <2>3, <2>4, <2>5 DEF Step
<1>. QED
  BY <1>1, <1>2, <1>3, NextCases

-----------------------------------------------------------------------------
(* The invariants of the tables, one order at a time. *)
PathOK(o) ==
    /\ history[o] # <<>> => /\ history[o][1].status \in AllowedTransitions["created"]
                            /\ row[o].status = history[o][Len(history[o])].status
    /\ history[o] = <<>> => row[o].status \in {NoOrder, "created"}
    /\ \A i \in 1..(Len(history[o]) - 1) :
            history[o][i + 1].status \in AllowedTransitions[history[o][i].status]

StampOK(o) ==
    Exists(o) => row[o].lastStatusAt = IF history[o] = <<>> THEN row[o].createdAt
                                       ELSE history[o][Len(history[o])].at

AssignmentOK(o) ==
    /\ assignment[o] # NoCourier =>
            /\ history[o] # <<>>
            /\ history[o][1].courier = assignment[o]
            /\ history[o][1].status = "assigned"
    /\ \A i \in 1..Len(history[o]) :
            history[o][i].courier # NoCourier => i = 1 /\ assignment[o] = history[o][i].courier

TableOK(o) == PathOK(o) /\ StampOK(o) /\ AssignmentOK(o)

TableInv == \A o \in Orders : TableOK(o)

(* No transition leads back to created, and every target is a status. *)
LEMMA NeverBackToCreated ==
    ASSUME NEW s \in Statuses
    PROVE  "created" \notin AllowedTransitions[s] /\ AllowedTransitions[s] \subseteq Statuses
BY DEF AllowedTransitions, Statuses

(* An order in created has neither history nor assignment. *)
LEMMA CreatedIsBare ==
    ASSUME TypeOK, NEW o \in Orders, TableOK(o), row[o].status = "created"
    PROVE  history[o] = <<>> /\ assignment[o] = NoCourier
<1>1. history[o] \in Seq(Entries)
  BY DEF TypeOK
<1>. DEFINE n == Len(history[o])
<1>2. SUFFICES ASSUME history[o] # <<>>
               PROVE  FALSE
  BY DEF TableOK, AssignmentOK
<1>3. n \in Nat /\ n \geq 1
  BY <1>1, <1>2
<1>4. history[o][n].status = "created"
  BY <1>2 DEF TableOK, PathOK
<1>5. n = 1 \/ (n - 1 \in 1..(n - 1) /\ history[o][n - 1].status \in Statuses
               /\ history[o][n].status \in AllowedTransitions[history[o][n - 1].status])
  <2>1. n # 1 => n - 1 \in 1..(n - 1) /\ n - 1 \in 1..n /\ (n - 1) + 1 = n
    <3>. HIDE DEF n
    <3>. QED
      BY <1>3
  <2>2. n # 1 => history[o][n - 1] \in Entries
    BY <1>1, <2>1
  <2>3. n # 1 => history[o][n - 1].status \in Statuses
    BY <2>2 DEF Entries
  <2>. QED
    BY <2>1, <2>3 DEF TableOK, PathOK
<1>6. CASE n = 1
  BY <1>2, <1>4, <1>6, NeverBackToCreated DEF TableOK, PathOK, Statuses
<1>7. CASE n # 1
  BY <1>4, <1>5, <1>7, NeverBackToCreated
<1>. QED
  BY <1>6, <1>7

(* The check a request made under the lock is what its commit needs. *)
LEMMA CheckedTransition ==
    ASSUME TypeOK, NEW p \in Requests, Exists(Order(p)),
           StatusCheck(p, row[Order(p)].status) = "none"
    PROVE  /\ row[Order(p)].status \in Statuses
           /\ NextStatus(p) \in AllowedTransitions[row[Order(p)].status]
           /\ IsAssign(p) => row[Order(p)].status = "created"
<1>1. row[Order(p)].status \in Statuses
  BY InputType DEF TypeOK, Exists
<1>2. CASE IsAssign(p)
  <2>1. row[Order(p)].status = "created"
    BY <1>2 DEF StatusCheck
  <2>2. "assigned" \in AllowedTransitions["created"]
    BY DEF AllowedTransitions, Statuses
  <2>. QED
    BY <1>1, <1>2, <2>1, <2>2 DEF NextStatus
<1>3. CASE ~IsAssign(p)
  BY <1>1, <1>3 DEF StatusCheck, NextStatus, ValidateStatusTransition
<1>. QED
  BY <1>2, <1>3

(* A commit of p extends its order's history by one checked transition.    *)
LEMMA CommitTable ==
    ASSUME TypeOK, WritesInv, LockInv, TableInv,
           NEW p \in Requests, pc[p] = "commit", Apply(p),
           NEW o \in Orders, o = Order(p)
    PROVE  TableOK(o)'
<1>. DEFINE h == history[o]
            e == HistoryRow(p)
<1>1. e \in Entries /\ h \in Seq(Entries) /\ TableOK(o)
  BY HistoryRowType DEF TypeOK, TableInv
<1>2. /\ Exists(o) /\ row[o].status \in Statuses
      /\ NextStatus(p) \in AllowedTransitions[row[o].status]
      /\ IsAssign(p) => row[o].status = "created"
  BY CheckedTransition DEF LockInv, LockOK, Locked
<1>3. /\ history'[o] = Append(h, e)
      /\ row'[o] = [status |-> NextStatus(p), createdAt |-> row[o].createdAt,
                    lastStatusAt |-> began[p]]
      /\ assignment'[o] = IF IsAssign(p) THEN req[p].courier ELSE assignment[o]
  <2>1. "orders" \in wrote[p] /\ "history" \in wrote[p]
        /\ ("assignments" \in wrote[p] <=> IsAssign(p))
    BY DEF WritesInv, WritesOK, FirstWrites
  <2>. QED
    BY <2>1, ApplyEffect
<1>4. e.status = NextStatus(p) /\ e.at = began[p]
      /\ e.courier = IF IsAssign(p) THEN req[p].courier ELSE NoCourier
  BY DEF HistoryRow
<1>5. /\ Len(Append(h, e)) = Len(h) + 1 /\ Len(h) \in Nat
      /\ Append(h, e)[Len(h) + 1] = e /\ Append(h, e) # <<>>
      /\ \A i \in 1..Len(h) : Append(h, e)[i] = h[i]
      /\ h = <<>> <=> Len(h) = 0
  BY <1>1
<1>6. PathOK(o)'
  <2>1. Append(h, e)[1].status \in AllowedTransitions["created"]
    <3>1. CASE h = <<>>
      BY <1>1, <1>2, <1>4, <1>5, <3>1, ConstantsAssumption DEF TableOK, PathOK, Exists
    <3>2. CASE h # <<>>
      BY <1>1, <1>5, <3>2 DEF TableOK, PathOK
    <3>. QED
      BY <3>1, <3>2
  <2>2. ASSUME NEW i \in 1..((Len(h) + 1) - 1)
        PROVE  Append(h, e)[i + 1].status \in AllowedTransitions[Append(h, e)[i].status]
    <3>1. CASE i = Len(h)
      <4>1. h # <<>> /\ h[i].status = row[o].status /\ Append(h, e)[i] = h[i]
            /\ Append(h, e)[i + 1] = e
        BY <1>1, <1>5, <3>1 DEF TableOK, PathOK
      <4>. QED
        BY <1>2, <1>4, <4>1
    <3>2. CASE i # Len(h)
      <4>1. i \in 1..(Len(h) - 1) /\ i \in 1..Len(h) /\ i + 1 \in 1..Len(h)
        BY <1>5, <3>2
      <4>. QED
        BY <1>1, <1>5, <4>1 DEF TableOK, PathOK
    <3>. QED
      BY <3>1, <3>2
  <2>. QED
    BY <1>3, <1>4, <1>5, <2>1, <2>2 DEF PathOK
<1>7. StampOK(o)'
  BY <1>3, <1>4, <1>5 DEF StampOK
<1>8. AssignmentOK(o)'
  <2>1. CASE IsAssign(p)
    <3>1. h = <<>> /\ assignment[o] = NoCourier
      BY <1>1, <1>2, <2>1, CreatedIsBare
    <3>2. NextStatus(p) = "assigned" /\ Len(h) = 0
      BY <1>5, <2>1, <3>1 DEF NextStatus
    <3>. QED
      BY <1>3, <1>4, <1>5, <2>1, <3>1, <3>2 DEF AssignmentOK
  <2>2. CASE ~IsAssign(p)
    <3>1. assignment'[o] = assignment[o] /\ e.courier = NoCourier
      BY <1>3, <1>4, <2>2
    <3>2. h # <<>> => 1 \in 1..Len(h)
      BY <1>5
    <3>. QED
      BY <1>1, <1>3, <1>5, <3>1, <3>2 DEF TableOK, AssignmentOK
  <2>. QED
    BY <2>1, <2>2
<1>. QED
  BY <1>1, <1>6, <1>7, <1>8 DEF TableOK

(* A step that leaves the tables alone keeps what holds of them. *)
LEMMA TableFrame ==
    ASSUME NEW o \in Orders, TableOK(o), row'[o] = row[o],
           assignment'[o] = assignment[o], history'[o] = history[o]
    PROVE  TableOK(o)'
BY DEF TableOK, PathOK, StampOK, AssignmentOK, Exists

(* Empty tables agree with each other. *)
LEMMA TableInit == Init => TableInv
<1>. SUFFICES ASSUME Init, NEW o \in Orders
              PROVE  TableOK(o)
  BY DEF TableInv
<1>1. history[o] = <<>> /\ Len(history[o]) = 0 /\ assignment[o] = NoCourier
      /\ row[o].status = NoOrder
  BY DEF Init
<1>. QED
  BY <1>1 DEF TableOK, PathOK, StampOK, AssignmentOK, Exists

(* The tables go on agreeing with each other, whatever step is taken. *)
LEMMA TableStep ==
    TypeOK /\ WritesInv /\ LockInv /\ TableInv /\ [Next]_vars => TableInv'
<1>. SUFFICES ASSUME TypeOK, WritesInv, LockInv, TableInv, [Next]_vars, NEW o \in Orders
              PROVE  TableOK(o)'
  BY DEF TableInv
<1>0. TableOK(o)
  BY DEF TableInv
<1>1. CASE UNCHANGED db
  BY <1>0, <1>1, TableFrame
<1>2. ASSUME NEW x \in Orders, NEW at \in 0..clock, CreateOrder(x, at)
      PROVE  TableOK(o)'
  <2>1. CASE x # o
    BY <1>0, <1>2, <2>1, TableFrame DEF CreateOrder
  <2>2. CASE x = o
    <3>1. history[o] = <<>> /\ assignment[o] = NoCourier
      <4>1. row[o].status = NoOrder
        BY <1>2, <2>2 DEF CreateOrder, Exists
      <4>2. history[o] \in Seq(Entries)
        BY DEF TypeOK
      <4>3. CASE history[o] # <<>>
        <5>1. Len(history[o]) \in 1..Len(history[o])
          BY <4>2, <4>3
        <5>2. history[o][Len(history[o])] \in Entries
          BY <4>2, <5>1
        <5>3. history[o][Len(history[o])].status \in Statuses
          BY <5>2 DEF Entries
        <5>. QED
          BY <1>0, <4>1, <4>3, <5>3, ConstantsAssumption DEF TableOK, PathOK
      <4>. QED
        BY <1>0, <4>3 DEF TableOK, AssignmentOK
    <3>2. /\ history'[o] = <<>> /\ assignment'[o] = NoCourier /\ Len(history'[o]) = 0
          /\ row'[o] = [status |-> "created", createdAt |-> at, lastStatusAt |-> at]
      BY <1>2, <2>2, <3>1 DEF CreateOrder, TypeOK
    <3>. QED
      BY <3>2 DEF TableOK, PathOK, StampOK, AssignmentOK, Exists
  <2>. QED
    BY <2>1, <2>2
<1>3. ASSUME NEW p \in Requests, Commit(p) \/ CommitAnswerLost(p)
      PROVE  TableOK(o)'
  <2>1. pc[p] = "commit" /\ Apply(p)
    BY <1>3 DEF Commit, CommitAnswerLost
  <2>2. CASE o = Order(p)
    BY <2>1, <2>2, CommitTable
  <2>3. CASE o # Order(p)
    BY <1>0, <2>1, <2>3, ApplyEffect, TableFrame
  <2>. QED
    BY <2>2, <2>3
<1>4. ASSUME NEW p \in Requests, Step(p), ~Commit(p), ~CommitAnswerLost(p)
      PROVE  UNCHANGED db
  BY <1>4 DEF Step, BeginTx, SelectMissing, SelectForUpdate, CheckCourier, InsertAssignment,
              UpdateRow, InsertHistory, Fail, Rollback
<1>. QED
  BY <1>1, <1>2, <1>3, <1>4, NextCases DEF vars, Tick

-----------------------------------------------------------------------------
StoreInv == TypeOK /\ WritesInv /\ LockInv /\ TableInv

(* Every state the two services can reach satisfies StoreInv. *)
THEOREM StoreInvariant == Spec => []StoreInv
<1>1. Init => StoreInv
  BY TypeInit, LockInit, TableInit DEF StoreInv
<1>2. StoreInv /\ [Next]_vars => StoreInv'
  BY TypeStep, LockStep, TableStep DEF StoreInv
<1>. QED
  BY <1>1, <1>2, PTL DEF Spec

(* Whatever the two services interleave and whatever fails, the history of *)
(* every order is a walk of the transition map ending in its status.       *)
THEOREM HistoryCorrect == Spec => []HistoryIsLifecyclePath
<1>1. StoreInv => HistoryIsLifecyclePath
  BY DEF StoreInv, TableInv, TableOK, PathOK, HistoryIsLifecyclePath
<1>. QED
  BY <1>1, StoreInvariant, PTL

(* last_status_at is always the time of the newest history row. *)
THEOREM StampCorrect == Spec => []LastStatusAtMatchesHistory
<1>1. StoreInv => LastStatusAtMatchesHistory
  BY DEF StoreInv, TableInv, TableOK, StampOK, LastStatusAtMatchesHistory
<1>. QED
  BY <1>1, StoreInvariant, PTL

(* An assignments row and the history row of the same assignment always    *)
(* come together, once per order.                                          *)
THEOREM AssignmentCorrect == Spec => []AssignmentMatchesHistory
<1>1. StoreInv => AssignmentMatchesHistory
  BY DEF StoreInv, TableInv, TableOK, AssignmentOK, AssignmentMatchesHistory
<1>. QED
  BY <1>1, StoreInvariant, PTL

(* AssignOrder never runs into uq_assignments_order_id. *)
THEOREM ConflictUnreachable == Spec => []AssignmentConflictUnreachable
<1>1. StoreInv => AssignmentConflictUnreachable
  <2>. SUFFICES ASSUME StoreInv, NEW p \in Requests, pc[p] = "assignment"
                PROVE  assignment[Order(p)] = NoCourier
    BY DEF AssignmentConflictUnreachable
  <2>1. IsAssign(p) /\ Exists(Order(p)) /\ StatusCheck(p, row[Order(p)].status) = "none"
    BY DEF StoreInv, WritesInv, WritesOK, LockInv, LockOK, Locked
  <2>2. row[Order(p)].status = "created" /\ Order(p) \in Orders
    BY <2>1, CheckedTransition, InputType DEF StoreInv
  <2>. QED
    BY <2>2, CreatedIsBare DEF StoreInv, TableInv
<1>. QED
  BY <1>1, StoreInvariant, PTL

-----------------------------------------------------------------------------
(* Refinement: a commit is one Assign or one Move of OrderLifecycle, the   *)
(* creation of an order its Create, and everything else changes nothing.   *)
LEMMA CommitRefines ==
    ASSUME StoreInv, NEW p \in Requests, pc[p] = "commit", Apply(p),
           NEW o \in Orders, o = Order(p)
    PROVE  Lifecycle!LifecycleNext
<1>. DEFINE st == [x \in Orders |-> row[x].status]
<1>1. TypeOK /\ TableOK(o)
  BY DEF StoreInv, TableInv
<1>2. /\ Exists(o) /\ row[o].status \in Statuses
      /\ NextStatus(p) \in AllowedTransitions[row[o].status]
      /\ IsAssign(p) => row[o].status = "created"
  BY CheckedTransition DEF StoreInv, LockInv, LockOK, Locked
<1>3. "orders" \in wrote[p] /\ ("assignments" \in wrote[p] <=> IsAssign(p))
  BY DEF StoreInv, WritesInv, WritesOK, FirstWrites
<1>4. /\ [x \in Orders |-> row'[x].status] = [st EXCEPT ![o] = NextStatus(p)]
      /\ st[o] = row[o].status
  <2>1. /\ row'[o].status = NextStatus(p)
        /\ \A x \in Orders : x # o => row'[x].status = row[x].status
    <3>1. /\ row'[o] = [status |-> NextStatus(p), createdAt |-> row[o].createdAt,
                        lastStatusAt |-> began[p]]
          /\ \A x \in Orders : x # o => row'[x] = row[x]
      BY <1>1, <1>3, ApplyEffect
    <3>. QED
      BY <3>1
  <2>2. [st EXCEPT ![o] = NextStatus(p)]
          = [x \in Orders |-> IF x = o THEN NextStatus(p) ELSE row[x].status]
    OBVIOUS
  <2>3. [x \in Orders |-> row'[x].status]
          = [x \in Orders |-> IF x = o THEN NextStatus(p) ELSE row[x].status]
    BY <2>1
  <2>. QED
    BY <2>2, <2>3
<1>5. CASE IsAssign(p)
  <2>1. assignment[o] = NoCourier /\ row[o].status = "created"
    BY <1>1, <1>2, <1>5, CreatedIsBare
  <2>2. PICK c \in Couriers : c = req[p].courier /\ assignment' = [assignment EXCEPT ![o] = c]
    BY <1>1, <1>3, <1>5, InputType DEF Apply
  <2>3. NextStatus(p) = "assigned"
    BY <1>5 DEF NextStatus
  <2>4. Lifecycle!Assign(o, c)
    BY <1>4, <2>1, <2>2, <2>3 DEF Lifecycle!Assign
  <2>. QED
    BY <2>4 DEF Lifecycle!LifecycleNext
<1>6. CASE ~IsAssign(p)
  <2>1. assignment' = assignment
    BY <1>3, <1>6 DEF Apply
  <2>2. Lifecycle!Statuses = Statuses /\ Lifecycle!AllowedTransitions = AllowedTransitions
    BY DEF Lifecycle!Statuses, Lifecycle!AllowedTransitions, Statuses, AllowedTransitions
  <2>3. PICK s \in Lifecycle!Statuses : s = NextStatus(p)
    BY InputType, <1>1, <2>2
  <2>4. Lifecycle!Move(o, s)
    BY <1>2, <1>4, <2>1, <2>2, <2>3 DEF Lifecycle!Move
  <2>. QED
    BY <2>4 DEF Lifecycle!LifecycleNext
<1>. QED
  BY <1>5, <1>6

(* Every step of the store is a step of OrderLifecycle or a stutter. *)
LEMMA StepRefines ==
    StoreInv /\ [Next]_vars => [Lifecycle!LifecycleNext]_(Lifecycle!lifecycleVars)
<1>. SUFFICES ASSUME StoreInv, [Next]_vars
              PROVE  Lifecycle!LifecycleNext \/ UNCHANGED Lifecycle!lifecycleVars
  OBVIOUS
<1>1. CASE UNCHANGED db
  BY <1>1 DEF Lifecycle!lifecycleVars
<1>2. ASSUME NEW o \in Orders, NEW at \in 0..clock, CreateOrder(o, at)
      PROVE  Lifecycle!LifecycleNext
  <2>1. /\ row[o].status = NoOrder /\ assignment' = assignment
        /\ [x \in Orders |-> row'[x].status]
             = [[x \in Orders |-> row[x].status] EXCEPT ![o] = "created"]
    BY <1>2 DEF CreateOrder, Exists, StoreInv, TypeOK
  <2>2. Lifecycle!Create(o)
    BY <2>1 DEF Lifecycle!Create
  <2>. QED
    BY <2>2 DEF Lifecycle!LifecycleNext
<1>3. ASSUME NEW p \in Requests, Commit(p) \/ CommitAnswerLost(p)
      PROVE  Lifecycle!LifecycleNext
  BY <1>3, CommitRefines, InputType DEF Commit, CommitAnswerLost, StoreInv
<1>4. ASSUME NEW p \in Requests, Step(p), ~Commit(p), ~CommitAnswerLost(p)
      PROVE  UNCHANGED db
  BY <1>4 DEF Step, BeginTx, SelectMissing, SelectForUpdate, CheckCourier, InsertAssignment,
              UpdateRow, InsertHistory, Fail, Rollback
<1>. QED
  BY <1>1, <1>2, <1>3, <1>4, NextCases DEF vars, Tick

(* The store implements the abstract life cycle: each request that commits *)
(* takes effect in one step, and no other step is visible.                 *)
THEOREM StoreImplementsLifecycle == Spec => ImplementsLifecycle
<1>1. Init => Lifecycle!LifecycleInit
  BY DEF Init, Lifecycle!LifecycleInit
<1>. QED
  BY <1>1, StoreInvariant, StepRefines, PTL DEF Spec, ImplementsLifecycle, Lifecycle!LifecycleSpec

-----------------------------------------------------------------------------
(* What a request has been told, against the rows it wrote. *)
Wrote(p, o) == \E i \in 1..Len(history[o]) : history[o][i].by = p

AnswerOK(p) ==
    /\ pc[p] \notin {"rollback", "done"} => reply[p] = "none"
    /\ pc[p] = "rollback" => reply[p] \in Refusals \cup {"error"}
    /\ \A o \in Orders : Wrote(p, o) => pc[p] = "done" /\ reply[p] \in {"ok", "error"}
    /\ reply[p] = "ok" => Wrote(p, Order(p))
    /\ \A o \in Orders : \A i, j \in 1..Len(history[o]) :
            history[o][i].by = p /\ history[o][j].by = p => i = j

AnswerInv == \A p \in Requests : AnswerOK(p)

(* In the beginning nobody has been answered. *)
LEMMA AnswerInit == Init => AnswerInv
<1>. SUFFICES ASSUME Init, NEW p \in Requests
              PROVE  AnswerOK(p)
  BY DEF AnswerInv
<1>1. \A o \in Orders : Len(history[o]) = 0
  BY DEF Init
<1>. QED
  BY <1>1 DEF Init, AnswerOK, Wrote

(* A step that changes no answer and no history leaves the answer true. *)
LEMMA AnswerFrame ==
    ASSUME NEW p, AnswerOK(p), UNCHANGED <<history, req>>,
           reply'[p] = reply[p], pc'[p] = pc[p] \/ pc'[p] \notin {"rollback", "done"}
                                  \/ (pc[p] = "rollback" /\ pc'[p] = "done"),
           pc[p] \in {"rollback", "done"} => pc'[p] \in {"rollback", "done"}
    PROVE  AnswerOK(p)'
<1>1. \A o \in Orders : Wrote(p, o)' <=> Wrote(p, o)
  BY DEF Wrote
<1>2. Order(p)' = Order(p) /\ (Wrote(p, Order(p))' <=> Wrote(p, Order(p)))
  BY DEF Order, Wrote
<1>. QED
  BY <1>1, <1>2 DEF AnswerOK, Refusals

(* A refusal leaves no history row of its request behind. *)
LEMMA AnswerRefuse ==
    ASSUME TypeOK, NEW p \in Requests, AnswerOK(p), UNCHANGED <<history, req>>,
           NEW a \in Refusals \cup {"error"}, Refuse(p, a),
           pc[p] \notin {"rollback", "done"}
    PROVE  AnswerOK(p)'
<1>1. pc'[p] = "rollback" /\ reply'[p] = a
  BY DEF Refuse, TypeOK
<1>2. \A o \in Orders : ~Wrote(p, o)'
  BY DEF Wrote, AnswerOK
<1>. QED
  BY <1>1, <1>2 DEF AnswerOK, Refusals

(* The commit of p adds one row, and it is p's first. *)
LEMMA AnswerCommit ==
    ASSUME StoreInv, AnswerInv, NEW p \in Requests, pc[p] = "commit", Apply(p), UNCHANGED req,
           NEW a \in {"ok", "error"}, reply' = [reply EXCEPT ![p] = a],
           pc' = [pc EXCEPT ![p] = "done"]
    PROVE  AnswerInv'
<1>. DEFINE o == Order(p)
            h == history[o]
            e == HistoryRow(p)
<1>1. o \in Orders /\ h \in Seq(Entries) /\ e \in Entries /\ e.by = p
  BY InputType, HistoryRowType DEF StoreInv, TypeOK, HistoryRow
<1>2. history'[o] = Append(h, e) /\ \A x \in Orders : x # o => history'[x] = history[x]
  <2>1. "history" \in wrote[p]
    BY DEF StoreInv, WritesInv, WritesOK
  <2>. QED
    BY <2>1, ApplyEffect DEF StoreInv
<1>3. /\ Len(Append(h, e)) = Len(h) + 1 /\ Len(h) \in Nat
      /\ Append(h, e)[Len(h) + 1] = e
      /\ \A i \in 1..Len(h) : Append(h, e)[i] = h[i]
  BY <1>1
<1>. SUFFICES ASSUME NEW q \in Requests
              PROVE  AnswerOK(q)'
  BY DEF AnswerInv
<1>4. AnswerOK(q) /\ Order(q)' = Order(q) /\ Order(q) \in Orders
  BY InputType DEF AnswerInv, Order, StoreInv
<1>5. CASE q = p
  <2>1. pc'[p] = "done" /\ reply'[p] = a
    BY DEF StoreInv, TypeOK
  <2>2. \A x \in Orders : ~Wrote(p, x)
    BY <1>4, <1>5 DEF AnswerOK
  <2>3. Len(h) + 1 \in 1..Len(Append(h, e)) /\ history'[o][Len(h) + 1].by = p
    BY <1>1, <1>2, <1>3
  <2>4. Wrote(p, o)'
    <3>1. \E i \in 1..Len(history'[o]) : history'[o][i].by = p
      BY <1>2, <2>3
    <3>2. o' = o
      BY <1>4, <1>5
    <3>. QED
      BY <3>1, <3>2 DEF Wrote
  <2>5. ASSUME NEW x \in Orders, NEW i \in 1..Len(history'[x]), NEW j \in 1..Len(history'[x]),
               history'[x][i].by = p, history'[x][j].by = p
        PROVE  i = j
    <3>1. CASE x # o
      BY <1>2, <2>2, <2>5, <3>1 DEF Wrote
    <3>2. CASE x = o
      <4>1. \A k \in 1..Len(h) : h[k].by # p
        BY <1>1, <2>2 DEF Wrote
      <4>2. ASSUME NEW k \in 1..Len(history'[x]), history'[x][k].by = p
            PROVE  k = Len(h) + 1
        <5>1. k \in 1..(Len(h) + 1) /\ Append(h, e)[k].by = p
          BY <1>2, <1>3, <3>2, <4>2
        <5>2. k \in 1..Len(h) => h[k].by = p
          BY <1>3, <5>1
        <5>. QED
          BY <1>3, <4>1, <5>1, <5>2
      <4>. QED
        BY <2>5, <4>2
    <3>. QED
      BY <3>1, <3>2
  <2>6. AnswerOK(p)'
    BY <1>4, <1>5, <2>1, <2>4, <2>5 DEF AnswerOK
  <2>. QED
    BY <1>5, <2>6
<1>6. CASE q # p
  <2>1. pc'[q] = pc[q] /\ reply'[q] = reply[q]
    BY <1>6 DEF StoreInv, TypeOK
  <2>2. ASSUME NEW x \in Orders, NEW i \in 1..Len(history'[x]), history'[x][i].by = q
        PROVE  i \in 1..Len(history[x]) /\ history[x][i].by = q
    <3>1. CASE x # o
      BY <1>2, <2>2, <3>1
    <3>2. CASE x = o
      <4>1. i # Len(h) + 1
        BY <1>1, <1>2, <1>3, <1>6, <2>2, <3>2
      <4>2. i \in 1..Len(h)
        BY <1>2, <1>3, <2>2, <3>2, <4>1
      <4>. QED
        BY <1>2, <1>3, <2>2, <3>2, <4>2
    <3>. QED
      BY <3>1, <3>2
  <2>3. ASSUME NEW x \in Orders, Wrote(q, x)
        PROVE  Wrote(q, x)'
    <3>1. PICK i \in 1..Len(history[x]) : history[x][i].by = q
      BY <2>3 DEF Wrote
    <3>2. i \in 1..Len(history'[x]) /\ history'[x][i].by = q
      BY <1>2, <1>3, <3>1
    <3>. QED
      BY <3>2 DEF Wrote
  <2>4. \A x \in Orders : Wrote(q, x)' => Wrote(q, x)
    BY <2>2 DEF Wrote
  <2>5. Wrote(q, Order(q)) => Wrote(q, Order(q))'
    BY <1>4, <2>3 DEF Wrote
  <2>6. \A x \in Orders : \A i, j \in 1..Len(history'[x]) :
            history'[x][i].by = q /\ history'[x][j].by = q => i = j
    BY <1>4, <2>2 DEF AnswerOK
  <2>. QED
    BY <1>4, <2>1, <2>4, <2>5, <2>6 DEF AnswerOK
<1>. QED
  BY <1>5, <1>6

(* Answers stay true to the tables, whatever step is taken. *)
LEMMA AnswerStep == StoreInv /\ AnswerInv /\ [Next]_vars => AnswerInv'
<1>. SUFFICES ASSUME StoreInv, AnswerInv, [Next]_vars
              PROVE  AnswerInv'
  OBVIOUS
<1>0. TypeOK
  BY DEF StoreInv
<1>1. CASE UNCHANGED vars \/ Tick \/ \E o \in Orders : \E at \in 0..clock : CreateOrder(o, at)
  <2>1. UNCHANGED <<history, req, reply, pc>>
    BY <1>1 DEF vars, Tick, CreateOrder
  <2>. QED
    BY <2>1, AnswerFrame DEF AnswerInv
<1>2. ASSUME NEW p \in Requests, Step(p), ~Commit(p), ~CommitAnswerLost(p)
      PROVE  AnswerInv'
  <2>. SUFFICES ASSUME NEW q \in Requests
                PROVE  AnswerOK(q)'
    BY DEF AnswerInv
  <2>1. UNCHANGED <<history, req>> /\ AnswerOK(q) /\ AnswerOK(p)
    BY <1>2 DEF Step, AnswerInv, BeginTx, SelectMissing, SelectForUpdate, CheckCourier,
                InsertAssignment, UpdateRow, InsertHistory, Fail, Rollback
  <2>2. \/ /\ \E a \in Refusals \cup {"error"} : Refuse(p, a)
           /\ pc[p] \notin {"rollback", "done"}
        \/ /\ reply' = reply /\ pc[p] \notin {"rollback", "done"}
           /\ \E l \in Labels \ {"rollback", "done"} : pc' = [pc EXCEPT ![p] = l]
        \/ /\ reply' = reply /\ pc[p] = "rollback" /\ pc' = [pc EXCEPT ![p] = "done"]
    <3>1. CASE BeginTx(p)
      BY <3>1 DEF BeginTx, Labels
    <3>2. CASE SelectMissing(p) \/ Fail(p)
      BY <3>2 DEF SelectMissing, Fail, Refusals
    <3>3. CASE SelectForUpdate(p)
      <4>1. StatusCheck(p, row[Order(p)].status) \in Refusals \cup {"none"}
        BY StatusCheckType
      <4>. QED
        BY <3>3, <4>1 DEF SelectForUpdate, Goto, Labels
    <3>4. CASE CheckCourier(p)
      BY <3>4 DEF CheckCourier, Goto, Labels, Refusals
    <3>5. CASE InsertAssignment(p)
      BY <3>5 DEF InsertAssignment, Goto, Labels, Refusals
    <3>6. CASE UpdateRow(p)
      BY <3>6 DEF UpdateRow, Goto, Labels
    <3>7. CASE InsertHistory(p)
      BY <3>7 DEF InsertHistory, Goto, Labels
    <3>8. CASE Rollback(p)
      BY <3>8 DEF Rollback
    <3>. QED
      BY <1>2, <3>1, <3>2, <3>3, <3>4, <3>5, <3>6, <3>7, <3>8 DEF Step
  <2>3. CASE q # p
    <3>1. pc'[q] = pc[q] /\ reply'[q] = reply[q]
      BY <1>0, <2>2, <2>3 DEF Refuse, TypeOK
    <3>. QED
      BY <2>1, <3>1, AnswerFrame
  <2>4. CASE q = p
    <3>1. CASE \E a \in Refusals \cup {"error"} : Refuse(p, a) /\ pc[p] \notin {"rollback", "done"}
      BY <1>0, <2>1, <2>4, <3>1, AnswerRefuse
    <3>2. CASE /\ reply' = reply /\ pc[p] \notin {"rollback", "done"}
               /\ \E l \in Labels \ {"rollback", "done"} : pc' = [pc EXCEPT ![p] = l]
      <4>1. pc'[p] \notin {"rollback", "done"} /\ reply'[p] = reply[p]
        BY <1>0, <3>2 DEF TypeOK
      <4>. QED
        BY <2>1, <2>4, <3>2, <4>1, AnswerFrame
    <3>3. CASE reply' = reply /\ pc[p] = "rollback" /\ pc' = [pc EXCEPT ![p] = "done"]
      <4>1. pc'[p] = "done" /\ reply'[p] = reply[p]
        BY <1>0, <3>3 DEF TypeOK
      <4>. QED
        BY <2>1, <2>4, <3>3, <4>1, AnswerFrame
    <3>. QED
      BY <2>2, <3>1, <3>2, <3>3
  <2>. QED
    BY <2>3, <2>4
<1>3. ASSUME NEW p \in Requests, Commit(p) \/ CommitAnswerLost(p)
      PROVE  AnswerInv'
  <2>1. /\ pc[p] = "commit" /\ Apply(p) /\ UNCHANGED req
        /\ pc' = [pc EXCEPT ![p] = "done"]
        /\ \E a \in {"ok", "error"} : reply' = [reply EXCEPT ![p] = a]
    BY <1>3 DEF Commit, CommitAnswerLost
  <2>. QED
    BY <2>1, AnswerCommit
<1>. QED
  BY <1>1, <1>2, <1>3, NextCases

(* A client told ok has its change in the history, once; a refused client  *)
(* has left nothing behind; an error means applied at most once.           *)
THEOREM AnswersCorrect == Spec => []AnswerMatchesStore
<1>1. StoreInv /\ AnswerInv => AnswerMatchesStore
  <2>. SUFFICES ASSUME StoreInv, AnswerInv, NEW p \in Requests
                PROVE  /\ reply[p] = "ok" => RowsOf(p) # {}
                       /\ reply[p] \in Refusals => RowsOf(p) = {}
                       /\ \A i, j \in RowsOf(p) : i = j
    BY DEF AnswerMatchesStore
  <2>1. AnswerOK(p) /\ Order(p) \in Orders
    BY InputType DEF AnswerInv, StoreInv
  <2>. QED
    BY <2>1 DEF AnswerOK, Wrote, RowsOf, Refusals
<1>2. Init => AnswerInv
  BY AnswerInit
<1>. QED
  BY <1>1, <1>2, AnswerStep, StoreInvariant, PTL DEF Spec

-----------------------------------------------------------------------------
(* What keeps a row lock from being waited for in vain: its holder is past *)
(* its only wait, and it is a request about that very order.               *)
Busy == Locked \cup {"rollback"}

HolderOK(o) ==
    lock[o] # NoRequest => Order(lock[o]) = o /\ pc[lock[o]] \in Busy

HolderInv == \A o \in Orders : HolderOK(o)

(* A request that waits for a row lock. *)
Waiting(p) == pc[p] = "select" /\ Exists(Order(p)) /\ lock[Order(p)] # NoRequest

(* No chain of waits is longer than one, so none closes to a circle.       *)
NobodyWaitsForWaiting ==
    \A p \in Requests : Waiting(p) =>
        /\ lock[Order(p)] \in Requests \ {p}
        /\ ~Waiting(lock[Order(p)])
        /\ pc[lock[Order(p)]] \in Busy

(* The steps that a request may still take. *)
Left(p) ==
    CASE pc[p] = "idle"       -> 8
      [] pc[p] = "select"     -> 7
      [] pc[p] = "courier"    -> 6
      [] pc[p] = "assignment" -> 5
      [] pc[p] = "update"     -> 4
      [] pc[p] = "history"    -> 3
      [] pc[p] = "commit"     -> 2
      [] pc[p] = "rollback"   -> 1
      [] pc[p] = "done"       -> 0

(* Each step of a request, a failure included, brings it nearer to its     *)
(* end, and nothing that the others do takes it back.                      *)
NearerToEnd ==
    \A p \in Requests :
        /\ Step(p) => Left(p)' < Left(p)
        /\ ~Step(p) => Left(p)' = Left(p)

(* In the beginning there are no holders. *)
LEMMA HolderInit == Init => HolderInv
BY DEF Init, HolderInv, HolderOK

(* A statement that leaves the locks alone keeps its request where holders *)
(* are, unless it was no holder.                                           *)
LEMMA HolderFrame ==
    ASSUME TypeOK, HolderInv, NEW p \in Requests, NEW l \in Labels,
           UNCHANGED <<lock, req>>, pc' = [pc EXCEPT ![p] = l],
           pc[p] \in Busy => l \in Busy
    PROVE  HolderInv'
<1>. SUFFICES ASSUME NEW o \in Orders, lock[o] # NoRequest
              PROVE  Order(lock[o])' = o /\ pc'[lock[o]] \in Busy
  BY DEF HolderInv, HolderOK
<1>1. lock[o] \in Requests /\ Order(lock[o]) = o /\ pc[lock[o]] \in Busy
  BY DEF HolderInv, HolderOK, TypeOK
<1>2. Order(lock[o])' = o
  BY <1>1 DEF Order
<1>3. pc'[lock[o]] \in Busy
  BY <1>1 DEF TypeOK
<1>. QED
  BY <1>2, <1>3

(* A lock is given to a request that goes on, and given back at its end.   *)
LEMMA HolderStep == TypeOK /\ HolderInv /\ [Next]_vars => HolderInv'
<1>. SUFFICES ASSUME TypeOK, HolderInv, [Next]_vars
              PROVE  HolderInv'
  OBVIOUS
<1>. USE DEF Busy, Locked
<1>1. CASE UNCHANGED vars \/ Tick \/ \E o \in Orders : \E at \in 0..clock : CreateOrder(o, at)
  BY <1>1 DEF vars, Tick, CreateOrder, HolderInv, HolderOK, Order
<1>2. ASSUME NEW p \in Requests, Step(p)
      PROVE  HolderInv'
  <2>1. Order(p) \in Orders /\ DOMAIN lock = Orders
    BY InputType DEF TypeOK
  <2>2. CASE BeginTx(p) \/ SelectMissing(p) \/ Fail(p) \/ CheckCourier(p) \/ InsertHistory(p)
             \/ InsertAssignment(p) \/ UpdateRow(p)
    <3>1. UNCHANGED <<lock, req>>
      BY <2>2 DEF BeginTx, SelectMissing, Fail, CheckCourier, InsertHistory, InsertAssignment,
                  UpdateRow
    <3>2. \E l \in Labels : pc' = [pc EXCEPT ![p] = l] /\ (pc[p] \in Busy => l \in Busy)
      BY <2>2 DEF BeginTx, SelectMissing, Fail, CheckCourier, InsertHistory, InsertAssignment,
                  UpdateRow, Goto, Refuse, Labels
    <3>. QED
      BY <3>1, <3>2, HolderFrame
  <2>3. CASE SelectForUpdate(p)
    <3>1. lock' = [lock EXCEPT ![Order(p)] = p] /\ UNCHANGED req
      BY <2>3 DEF SelectForUpdate
    <3>2. \E l \in Busy : pc' = [pc EXCEPT ![p] = l]
      BY <2>3 DEF SelectForUpdate, Goto, Refuse
    <3>3. pc'[p] \in Busy /\ \A q \in Requests : q # p => pc'[q] = pc[q]
      BY <3>2 DEF TypeOK
    <3>4. ASSUME NEW o \in Orders, o = Order(p) PROVE HolderOK(o)'
      BY <3>4, <2>1, <3>1, <3>3 DEF HolderOK, Order
    <3>5. ASSUME NEW o \in Orders, o # Order(p) PROVE HolderOK(o)'
      <4>1. lock'[o] = lock[o]
        BY <2>1, <3>1, <3>5
      <4>2. lock[o] # NoRequest =>
                lock[o] \in Requests /\ Order(lock[o]) = o /\ pc[lock[o]] \in Busy
        BY DEF HolderInv, HolderOK, TypeOK
      <4>. QED
        BY <3>1, <3>3, <4>1, <4>2 DEF HolderOK, Order
    <3>. QED
      BY <3>4, <3>5 DEF HolderInv
  <2>4. CASE Commit(p) \/ CommitAnswerLost(p) \/ Rollback(p)
    <3>1. \/ lock' = [lock EXCEPT ![Order(p)] = IF @ = p THEN NoRequest ELSE @]
          \/ lock' = [lock EXCEPT ![Order(p)] = NoRequest]
      BY <2>4 DEF Commit, CommitAnswerLost, Apply, Rollback
    <3>2. pc' = [pc EXCEPT ![p] = "done"] /\ req' = req
      BY <2>4 DEF Commit, CommitAnswerLost, Rollback
    <3>3. ASSUME NEW o \in Orders, lock'[o] # NoRequest
          PROVE  HolderOK(o)'
      <4>1. lock'[o] = lock[o] /\ (o = Order(p) => lock[o] # p)
        <5>1. NoRequest # p
          BY ConstantsAssumption
        <5>. QED
          BY <2>1, <3>1, <3>3, <5>1
      <4>2. lock[o] \in Requests /\ Order(lock[o]) = o /\ pc[lock[o]] \in Busy
        BY <3>3, <4>1 DEF HolderInv, HolderOK, TypeOK
      <4>3. lock[o] # p
        BY <4>1, <4>2
      <4>4. pc'[lock[o]] = pc[lock[o]]
        BY <3>2, <4>2, <4>3 DEF TypeOK
      <4>. QED
        BY <3>2, <4>1, <4>2, <4>4 DEF HolderOK, Order
    <3>. QED
      BY <3>3 DEF HolderInv, HolderOK
  <2>. QED
    BY <1>2, <2>2, <2>3, <2>4 DEF Step
<1>. QED
  BY <1>1, <1>2, NextCases

(* What one request does leaves the labels of the others alone. *)
LEMMA StepMoves ==
    ASSUME TypeOK, NEW p \in Requests, Step(p)
    PROVE  /\ \A q \in Requests : q # p => pc'[q] = pc[q]
           /\ Left(p)' < Left(p)
<1>1. \E l \in Labels : pc' = [pc EXCEPT ![p] = l]
  BY DEF Step, BeginTx, SelectMissing, SelectForUpdate, CheckCourier, InsertAssignment, UpdateRow,
         InsertHistory, Commit, CommitAnswerLost, Fail, Rollback, Goto, Refuse, Labels
<1>2. \A q \in Requests : q # p => pc'[q] = pc[q]
  BY <1>1 DEF TypeOK
<1>3. \/ pc[p] = "idle" /\ pc'[p] = "select"
      \/ pc[p] = "select" /\ pc'[p] \in {"courier", "update", "rollback"}
      \/ pc[p] = "courier" /\ pc'[p] \in {"assignment", "rollback"}
      \/ pc[p] = "assignment" /\ pc'[p] \in {"update", "rollback"}
      \/ pc[p] = "update" /\ pc'[p] \in {"history", "rollback"}
      \/ pc[p] = "history" /\ pc'[p] \in {"commit", "rollback"}
      \/ pc[p] = "commit" /\ pc'[p] \in {"rollback", "done"}
      \/ pc[p] = "rollback" /\ pc'[p] = "done"
  BY DEF TypeOK, Step, BeginTx, SelectMissing, SelectForUpdate, CheckCourier, InsertAssignment,
         UpdateRow, InsertHistory, Commit, CommitAnswerLost, Fail, Rollback, Goto, Refuse
<1>4. Left(p)' < Left(p)
  BY <1>3 DEF Left
<1>. QED
  BY <1>2, <1>4

(* So every step of the store brings the one that makes it nearer.         *)
LEMMA StepNearer == TypeOK /\ [Next]_vars => NearerToEnd
<1>. SUFFICES ASSUME TypeOK, [Next]_vars, NEW p \in Requests
              PROVE  /\ Step(p) => Left(p)' < Left(p)
                     /\ ~Step(p) => Left(p)' = Left(p)
  BY DEF NearerToEnd
<1>1. ASSUME pc'[p] = pc[p] PROVE Left(p)' = Left(p)
  BY <1>1 DEF Left
<1>2. UNCHANGED vars \/ Tick => pc'[p] = pc[p]
  BY DEF vars, Tick
<1>3. ASSUME NEW o \in Orders, NEW at \in 0..clock, CreateOrder(o, at) PROVE pc'[p] = pc[p]
  BY <1>3 DEF CreateOrder
<1>4. ASSUME ~Step(p) PROVE Left(p)' = Left(p)
  BY <1>1, <1>2, <1>3, <1>4, NextCases, StepMoves
<1>. QED
  BY <1>4, StepMoves

(* The core of EveryRequestEnds, for any number of requests: a request     *)
(* that waits for a row lock waits for one that does not wait, and every   *)
(* request ends within eight steps of its own, begin and end included.     *)
THEOREM RequestsBounded == Spec => []NobodyWaitsForWaiting /\ [][NearerToEnd]_vars
<1>1. TypeOK /\ HolderInv => NobodyWaitsForWaiting
  <2>. SUFFICES ASSUME TypeOK, HolderInv, NEW p \in Requests, Waiting(p)
                PROVE  /\ lock[Order(p)] \in Requests \ {p}
                       /\ ~Waiting(lock[Order(p)])
                       /\ pc[lock[Order(p)]] \in Busy
    BY DEF NobodyWaitsForWaiting
  <2>1. Order(p) \in Orders /\ lock[Order(p)] # NoRequest /\ pc[p] = "select"
    BY InputType DEF Waiting
  <2>2. lock[Order(p)] \in Requests /\ pc[lock[Order(p)]] \in Busy
    BY <2>1 DEF HolderInv, HolderOK, TypeOK
  <2>. QED
    BY <2>1, <2>2 DEF Busy, Locked, Waiting
<1>2. TypeOK /\ [Next]_vars => [NearerToEnd]_vars
  BY StepNearer
<1>. QED
  BY <1>1, <1>2, HolderInit, HolderStep, TypeCorrect, PTL DEF Spec
=============================================================================
