------------------------- MODULE OrderCreationProofs -------------------------
(***************************************************************************)
(* The safety properties of OrderCreation, for every number of requests    *)
(* and keys.  CreationInv is the inductive invariant.  What it adds: the   *)
(* open entry of the unique index belongs to the one transaction that is   *)
(* about to commit, what each open transaction has written, and that the   *)
(* order under a key belongs to a request that has committed.              *)
(***************************************************************************)
EXTENDS OrderCreation, TLAPS

(* The index holds a key open for one transaction that goes on to commit, *)
(* and only as long as no order is stored under the key.                   *)
HolderCommits ==
    \A k \in Keys : pending[k] # None =>
        /\ pc[pending[k]] = "commit"
        /\ key[pending[k]] = k
        /\ orderOf[k] = None

CommitHolds == \A p \in Requests : pc[p] = "commit" => pending[key[p]] = p

(* What the transaction of a request has inserted, by its next call. *)
WroteByStep ==
    \A p \in Requests :
        /\ pc[p] \in {"insert", "conflict"} => wrote[p] = {"addresses"}
        /\ pc[p] = "commit" => wrote[p] = {"addresses", "order"}
        /\ pc[p] \notin {"insert", "conflict", "commit"} => wrote[p] = {}

OwnerIsDone ==
    \A k \in Keys : orderOf[k] # None =>
        key[orderOf[k]] = k /\ pc[orderOf[k]] \in {"cache", "done"}

CachingIsAnswered ==
    \A p \in Requests : pc[p] = "cache" => answer[p].status \in {"created", "existing"}

CreationInv ==
    /\ TypeOK
    /\ HolderCommits
    /\ CommitHolds
    /\ WroteByStep
    /\ OwnerIsDone
    /\ RelookupFinds
    /\ AnswersAgree
    /\ CachingIsAnswered
    /\ NoOrphanAddresses
    /\ CachedAreCommitted

-----------------------------------------------------------------------------
USE NoneAssumption

(* Before any request nothing is stored, held or answered. *)
LEMMA InitCreation == Init => CreationInv
BY DEF Init, CreationInv, TypeOK, HolderCommits, CommitHolds, WroteByStep, OwnerIsDone,
       RelookupFinds, AnswersAgree, CachingIsAnswered, NoOrphanAddresses, CachedAreCommitted,
       NoAnswer, Answers

(* Taking a request up holds and stores nothing. *)
LEMMA StartCreation ==
    ASSUME NEW p \in Requests, CreationInv, Start(p)
    PROVE  CreationInv'
<1> USE DEF CreationInv
<1>1. TypeOK'
  BY DEF TypeOK, Start, Goto, HolderCommits, OwnerIsDone
<1>2. HolderCommits'
  BY DEF TypeOK, HolderCommits, Start, Goto, OwnerIsDone
<1>3. CommitHolds'
  BY DEF TypeOK, CommitHolds, Start, Goto, HolderCommits, OwnerIsDone
<1>4. WroteByStep'
  BY DEF TypeOK, WroteByStep, Start, Goto, HolderCommits, OwnerIsDone
<1>5. OwnerIsDone'
  BY DEF TypeOK, OwnerIsDone, Start, Goto, HolderCommits
<1>6. RelookupFinds'
  BY DEF TypeOK, RelookupFinds, Start, Goto, HolderCommits, OwnerIsDone
<1>7. AnswersAgree'
  BY DEF TypeOK, AnswersAgree, Start, Goto, HolderCommits, OwnerIsDone
<1>8. CachingIsAnswered'
  BY DEF TypeOK, CachingIsAnswered, Start, Goto, HolderCommits, OwnerIsDone
<1>9. NoOrphanAddresses'
  BY DEF TypeOK, NoOrphanAddresses, Start, Goto, HolderCommits, OwnerIsDone
<1>10. CachedAreCommitted'
  BY DEF TypeOK, CachedAreCommitted, Start, Goto, HolderCommits, OwnerIsDone
<1> QED
  BY <1>1, <1>2, <1>3, <1>4, <1>5, <1>6, <1>7, <1>8, <1>9, <1>10

(* A lookup that hits answers with the stored order. *)
LEMMA LookupCreation ==
    ASSUME NEW p \in Requests, CreationInv, Lookup(p)
    PROVE  CreationInv'
<1> USE DEF CreationInv
<1>1. TypeOK'
  BY DEF TypeOK, Lookup, Goto, Reply, NoAnswer, Answers, HolderCommits, OwnerIsDone
<1>2. HolderCommits'
  BY DEF TypeOK, HolderCommits, Lookup, Goto, Reply, NoAnswer, Answers, OwnerIsDone
<1>3. CommitHolds'
  BY DEF TypeOK, CommitHolds, Lookup, Goto, Reply, NoAnswer, Answers, HolderCommits, OwnerIsDone
<1>4. WroteByStep'
  BY DEF TypeOK, WroteByStep, Lookup, Goto, Reply, NoAnswer, Answers, HolderCommits, OwnerIsDone
<1>5. OwnerIsDone'
  BY DEF TypeOK, OwnerIsDone, Lookup, Goto, Reply, NoAnswer, Answers, HolderCommits
<1>6. RelookupFinds'
  BY DEF TypeOK, RelookupFinds, Lookup, Goto, Reply, NoAnswer, Answers, HolderCommits, OwnerIsDone
<1>7. AnswersAgree'
  BY DEF TypeOK, AnswersAgree, Lookup, Goto, Reply, NoAnswer, Answers, HolderCommits, OwnerIsDone
<1>8. CachingIsAnswered'
  BY DEF TypeOK, CachingIsAnswered, Lookup, Goto, Reply, NoAnswer, Answers, HolderCommits,
         OwnerIsDone
<1>9. NoOrphanAddresses'
  BY DEF TypeOK, NoOrphanAddresses, Lookup, Goto, Reply, NoAnswer, Answers, HolderCommits,
         OwnerIsDone
<1>10. CachedAreCommitted'
  BY DEF TypeOK, CachedAreCommitted, Lookup, Goto, Reply, NoAnswer, Answers, HolderCommits,
         OwnerIsDone
<1> QED
  BY <1>1, <1>2, <1>3, <1>4, <1>5, <1>6, <1>7, <1>8, <1>9, <1>10

(* Addresses are written aside. *)
LEMMA InsertAddressesCreation ==
    ASSUME NEW p \in Requests, CreationInv, InsertAddresses(p)
    PROVE  CreationInv'
<1> USE DEF CreationInv
<1>1. TypeOK'
  BY DEF TypeOK, InsertAddresses, Goto, HolderCommits, OwnerIsDone
<1>2. HolderCommits'
  BY DEF TypeOK, HolderCommits, InsertAddresses, Goto, OwnerIsDone
<1>3. CommitHolds'
  BY DEF TypeOK, CommitHolds, InsertAddresses, Goto, HolderCommits, OwnerIsDone
<1>4. WroteByStep'
  BY DEF TypeOK, WroteByStep, InsertAddresses, Goto, HolderCommits, OwnerIsDone
<1>5. OwnerIsDone'
  BY DEF TypeOK, OwnerIsDone, InsertAddresses, Goto, HolderCommits
<1>6. RelookupFinds'
  BY DEF TypeOK, RelookupFinds, InsertAddresses, Goto, HolderCommits, OwnerIsDone
<1>7. AnswersAgree'
  BY DEF TypeOK, AnswersAgree, InsertAddresses, Goto, HolderCommits, OwnerIsDone
<1>8. CachingIsAnswered'
  BY DEF TypeOK, CachingIsAnswered, InsertAddresses, Goto, HolderCommits, OwnerIsDone
<1>9. NoOrphanAddresses'
  BY DEF TypeOK, NoOrphanAddresses, InsertAddresses, Goto, HolderCommits, OwnerIsDone
<1>10. CachedAreCommitted'
  BY DEF TypeOK, CachedAreCommitted, InsertAddresses, Goto, HolderCommits, OwnerIsDone
<1> QED
  BY <1>1, <1>2, <1>3, <1>4, <1>5, <1>6, <1>7, <1>8, <1>9, <1>10

(* An insert finds its key free, stored or held, and waits for the last. *)
LEMMA InsertOrderCreation ==
    ASSUME NEW p \in Requests, CreationInv, InsertOrder(p)
    PROVE  CreationInv'
<1> USE DEF CreationInv
<1>1. TypeOK'
  BY DEF TypeOK, InsertOrder, Goto, HolderCommits, OwnerIsDone, CommitHolds, WroteByStep
<1>2. HolderCommits'
  BY DEF TypeOK, HolderCommits, InsertOrder, Goto, OwnerIsDone, CommitHolds, WroteByStep
<1>3. CommitHolds'
  BY DEF TypeOK, CommitHolds, InsertOrder, Goto, HolderCommits, OwnerIsDone, WroteByStep
<1>4. WroteByStep'
  BY DEF TypeOK, WroteByStep, InsertOrder, Goto, HolderCommits, OwnerIsDone, CommitHolds
<1>5. OwnerIsDone'
  BY DEF TypeOK, OwnerIsDone, InsertOrder, Goto, HolderCommits, CommitHolds, WroteByStep
<1>6. RelookupFinds'
  BY DEF TypeOK, RelookupFinds, InsertOrder, Goto, HolderCommits, OwnerIsDone, CommitHolds,
         WroteByStep
<1>7. AnswersAgree'
  BY DEF TypeOK, AnswersAgree, InsertOrder, Goto, HolderCommits, OwnerIsDone, CommitHolds,
         WroteByStep
<1>8. CachingIsAnswered'
  BY DEF TypeOK, CachingIsAnswered, InsertOrder, Goto, HolderCommits, OwnerIsDone, CommitHolds,
         WroteByStep
<1>9. NoOrphanAddresses'
  BY DEF TypeOK, NoOrphanAddresses, InsertOrder, Goto, HolderCommits, OwnerIsDone, CommitHolds,
         WroteByStep
<1>10. CachedAreCommitted'
  BY DEF TypeOK, CachedAreCommitted, InsertOrder, Goto, HolderCommits, OwnerIsDone, CommitHolds,
         WroteByStep
<1> QED
  BY <1>1, <1>2, <1>3, <1>4, <1>5, <1>6, <1>7, <1>8, <1>9, <1>10

(* The loser leaves nothing behind. *)
LEMMA RollbackConflictCreation ==
    ASSUME NEW p \in Requests, CreationInv, RollbackConflict(p)
    PROVE  CreationInv'
<1> USE DEF CreationInv
<1>1. TypeOK'
  BY DEF TypeOK, RollbackConflict, EndTx, Goto, HolderCommits, OwnerIsDone, WroteByStep,
         RelookupFinds
<1>2. HolderCommits'
  BY DEF TypeOK, HolderCommits, RollbackConflict, EndTx, Goto, OwnerIsDone, WroteByStep,
         RelookupFinds
<1>3. CommitHolds'
  BY DEF TypeOK, CommitHolds, RollbackConflict, EndTx, Goto, HolderCommits, OwnerIsDone,
         WroteByStep, RelookupFinds
<1>4. WroteByStep'
  BY DEF TypeOK, WroteByStep, RollbackConflict, EndTx, Goto, HolderCommits, OwnerIsDone,
         RelookupFinds
<1>5. OwnerIsDone'
  BY DEF TypeOK, OwnerIsDone, RollbackConflict, EndTx, Goto, HolderCommits, WroteByStep,
         RelookupFinds
<1>6. RelookupFinds'
  BY DEF TypeOK, RelookupFinds, RollbackConflict, EndTx, Goto, HolderCommits, OwnerIsDone,
         WroteByStep
<1>7. AnswersAgree'
  BY DEF TypeOK, AnswersAgree, RollbackConflict, EndTx, Goto, HolderCommits, OwnerIsDone,
         WroteByStep, RelookupFinds
<1>8. CachingIsAnswered'
  BY DEF TypeOK, CachingIsAnswered, RollbackConflict, EndTx, Goto, HolderCommits, OwnerIsDone,
         WroteByStep, RelookupFinds
<1>9. NoOrphanAddresses'
  BY DEF TypeOK, NoOrphanAddresses, RollbackConflict, EndTx, Goto, HolderCommits, OwnerIsDone,
         WroteByStep, RelookupFinds
<1>10. CachedAreCommitted'
  BY DEF TypeOK, CachedAreCommitted, RollbackConflict, EndTx, Goto, HolderCommits, OwnerIsDone,
         WroteByStep, RelookupFinds
<1> QED
  BY <1>1, <1>2, <1>3, <1>4, <1>5, <1>6, <1>7, <1>8, <1>9, <1>10

(* The second lookup finds the order the conflict was about. *)
LEMMA RelookupCreation ==
    ASSUME NEW p \in Requests, CreationInv, Relookup(p)
    PROVE  CreationInv'
<1> USE DEF CreationInv
<1>1. TypeOK'
  BY DEF TypeOK, Relookup, Goto, Reply, NoAnswer, Answers, HolderCommits, OwnerIsDone, RelookupFinds
<1>2. HolderCommits'
  BY DEF TypeOK, HolderCommits, Relookup, Goto, Reply, NoAnswer, Answers, OwnerIsDone, RelookupFinds
<1>3. CommitHolds'
  BY DEF TypeOK, CommitHolds, Relookup, Goto, Reply, NoAnswer, Answers, HolderCommits,
         OwnerIsDone, RelookupFinds
<1>4. WroteByStep'
  BY DEF TypeOK, WroteByStep, Relookup, Goto, Reply, NoAnswer, Answers, HolderCommits,
         OwnerIsDone, RelookupFinds
<1>5. OwnerIsDone'
  BY DEF TypeOK, OwnerIsDone, Relookup, Goto, Reply, NoAnswer, Answers, HolderCommits, RelookupFinds
<1>6. RelookupFinds'
  BY DEF TypeOK, RelookupFinds, Relookup, Goto, Reply, NoAnswer, Answers, HolderCommits, OwnerIsDone
<1>7. AnswersAgree'
  BY DEF TypeOK, AnswersAgree, Relookup, Goto, Reply, NoAnswer, Answers, HolderCommits,
         OwnerIsDone, RelookupFinds
<1>8. CachingIsAnswered'
  BY DEF TypeOK, CachingIsAnswered, Relookup, Goto, Reply, NoAnswer, Answers, HolderCommits,
         OwnerIsDone, RelookupFinds
<1>9. NoOrphanAddresses'
  BY DEF TypeOK, NoOrphanAddresses, Relookup, Goto, Reply, NoAnswer, Answers, HolderCommits,
         OwnerIsDone, RelookupFinds
<1>10. CachedAreCommitted'
  BY DEF TypeOK, CachedAreCommitted, Relookup, Goto, Reply, NoAnswer, Answers, HolderCommits,
         OwnerIsDone, RelookupFinds
<1> QED
  BY <1>1, <1>2, <1>3, <1>4, <1>5, <1>6, <1>7, <1>8, <1>9, <1>10

(* The holder of a key stores the key's only order. *)
LEMMA CommitCreation ==
    ASSUME NEW p \in Requests, CreationInv, Commit(p)
    PROVE  CreationInv'
<1> USE DEF CreationInv
<1>1. TypeOK'
  BY DEF TypeOK, Commit, EndTx, Goto, Reply, NoAnswer, Answers, HolderCommits, OwnerIsDone,
         CommitHolds, WroteByStep, AnswersAgree
<1>2. HolderCommits'
  BY DEF TypeOK, HolderCommits, Commit, EndTx, Goto, Reply, NoAnswer, Answers, OwnerIsDone,
         CommitHolds, WroteByStep, AnswersAgree
<1>3. CommitHolds'
  BY DEF TypeOK, CommitHolds, Commit, EndTx, Goto, Reply, NoAnswer, Answers, HolderCommits,
         OwnerIsDone, WroteByStep, AnswersAgree
<1>4. WroteByStep'
  BY DEF TypeOK, WroteByStep, Commit, EndTx, Goto, Reply, NoAnswer, Answers, HolderCommits,
         OwnerIsDone, CommitHolds, AnswersAgree
<1>5. OwnerIsDone'
  BY DEF TypeOK, OwnerIsDone, Commit, EndTx, Goto, Reply, NoAnswer, Answers, HolderCommits,
         CommitHolds, WroteByStep, AnswersAgree
<1>6. RelookupFinds'
  BY DEF TypeOK, RelookupFinds, Commit, EndTx, Goto, Reply, NoAnswer, Answers, HolderCommits,
         OwnerIsDone, CommitHolds, WroteByStep, AnswersAgree
<1>7. AnswersAgree'
  BY DEF TypeOK, AnswersAgree, Commit, EndTx, Goto, Reply, NoAnswer, Answers, HolderCommits,
         OwnerIsDone, CommitHolds, WroteByStep
<1>8. CachingIsAnswered'
  BY DEF TypeOK, CachingIsAnswered, Commit, EndTx, Goto, Reply, NoAnswer, Answers, HolderCommits,
         OwnerIsDone, CommitHolds, WroteByStep, AnswersAgree
<1>9. NoOrphanAddresses'
  BY DEF TypeOK, NoOrphanAddresses, Commit, EndTx, Goto, Reply, NoAnswer, Answers, HolderCommits,
         OwnerIsDone, CommitHolds, WroteByStep, AnswersAgree
<1>10. CachedAreCommitted'
  BY DEF TypeOK, CachedAreCommitted, Commit, EndTx, Goto, Reply, NoAnswer, Answers,
         HolderCommits, OwnerIsDone, CommitHolds, WroteByStep, AnswersAgree
<1> QED
  BY <1>1, <1>2, <1>3, <1>4, <1>5, <1>6, <1>7, <1>8, <1>9, <1>10

(* A lost answer does not undo the commit. *)
LEMMA CommitAnswerLostCreation ==
    ASSUME NEW p \in Requests, CreationInv, CommitAnswerLost(p)
    PROVE  CreationInv'
<1> USE DEF CreationInv
<1>1. TypeOK'
  BY DEF TypeOK, CommitAnswerLost, EndTx, Goto, Reply, NoAnswer, Answers, HolderCommits,
         OwnerIsDone, CommitHolds, WroteByStep, AnswersAgree
<1>2. HolderCommits'
  BY DEF TypeOK, HolderCommits, CommitAnswerLost, EndTx, Goto, Reply, NoAnswer, Answers,
         OwnerIsDone, CommitHolds, WroteByStep, AnswersAgree
<1>3. CommitHolds'
  BY DEF TypeOK, CommitHolds, CommitAnswerLost, EndTx, Goto, Reply, NoAnswer, Answers,
         HolderCommits, OwnerIsDone, WroteByStep, AnswersAgree
<1>4. WroteByStep'
  BY DEF TypeOK, WroteByStep, CommitAnswerLost, EndTx, Goto, Reply, NoAnswer, Answers,
         HolderCommits, OwnerIsDone, CommitHolds, AnswersAgree
<1>5. OwnerIsDone'
  BY DEF TypeOK, OwnerIsDone, CommitAnswerLost, EndTx, Goto, Reply, NoAnswer, Answers,
         HolderCommits, CommitHolds, WroteByStep, AnswersAgree
<1>6. RelookupFinds'
  BY DEF TypeOK, RelookupFinds, CommitAnswerLost, EndTx, Goto, Reply, NoAnswer, Answers,
         HolderCommits, OwnerIsDone, CommitHolds, WroteByStep, AnswersAgree
<1>7. AnswersAgree'
  BY DEF TypeOK, AnswersAgree, CommitAnswerLost, EndTx, Goto, Reply, NoAnswer, Answers,
         HolderCommits, OwnerIsDone, CommitHolds, WroteByStep
<1>8. CachingIsAnswered'
  BY DEF TypeOK, CachingIsAnswered, CommitAnswerLost, EndTx, Goto, Reply, NoAnswer, Answers,
         HolderCommits, OwnerIsDone, CommitHolds, WroteByStep, AnswersAgree
<1>9. NoOrphanAddresses'
  BY DEF TypeOK, NoOrphanAddresses, CommitAnswerLost, EndTx, Goto, Reply, NoAnswer, Answers,
         HolderCommits, OwnerIsDone, CommitHolds, WroteByStep, AnswersAgree
<1>10. CachedAreCommitted'
  BY DEF TypeOK, CachedAreCommitted, CommitAnswerLost, EndTx, Goto, Reply, NoAnswer, Answers,
         HolderCommits, OwnerIsDone, CommitHolds, WroteByStep, AnswersAgree
<1> QED
  BY <1>1, <1>2, <1>3, <1>4, <1>5, <1>6, <1>7, <1>8, <1>9, <1>10

(* A failure rolls back and frees the key. *)
LEMMA FailCreation ==
    ASSUME NEW p \in Requests, CreationInv, Fail(p)
    PROVE  CreationInv'
<1> USE DEF CreationInv
<1>1. TypeOK'
  BY DEF TypeOK, Fail, EndTx, Goto, Reply, NoAnswer, Answers, HolderCommits, OwnerIsDone,
         CommitHolds, WroteByStep
<1>2. HolderCommits'
  BY DEF TypeOK, HolderCommits, Fail, EndTx, Goto, Reply, NoAnswer, Answers, OwnerIsDone,
         CommitHolds, WroteByStep
<1>3. CommitHolds'
  BY DEF TypeOK, CommitHolds, Fail, EndTx, Goto, Reply, NoAnswer, Answers, HolderCommits,
         OwnerIsDone, WroteByStep
<1>4. WroteByStep'
  BY DEF TypeOK, WroteByStep, Fail, EndTx, Goto, Reply, NoAnswer, Answers, HolderCommits,
         OwnerIsDone, CommitHolds
<1>5. OwnerIsDone'
  BY DEF TypeOK, OwnerIsDone, Fail, EndTx, Goto, Reply, NoAnswer, Answers, HolderCommits,
         CommitHolds, WroteByStep
<1>6. RelookupFinds'
  BY DEF TypeOK, RelookupFinds, Fail, EndTx, Goto, Reply, NoAnswer, Answers, HolderCommits,
         OwnerIsDone, CommitHolds, WroteByStep
<1>7. AnswersAgree'
  BY DEF TypeOK, AnswersAgree, Fail, EndTx, Goto, Reply, NoAnswer, Answers, HolderCommits,
         OwnerIsDone, CommitHolds, WroteByStep
<1>8. CachingIsAnswered'
  BY DEF TypeOK, CachingIsAnswered, Fail, EndTx, Goto, Reply, NoAnswer, Answers, HolderCommits,
         OwnerIsDone, CommitHolds, WroteByStep
<1>9. NoOrphanAddresses'
  BY DEF TypeOK, NoOrphanAddresses, Fail, EndTx, Goto, Reply, NoAnswer, Answers, HolderCommits,
         OwnerIsDone, CommitHolds, WroteByStep
<1>10. CachedAreCommitted'
  BY DEF TypeOK, CachedAreCommitted, Fail, EndTx, Goto, Reply, NoAnswer, Answers, HolderCommits,
         OwnerIsDone, CommitHolds, WroteByStep
<1> QED
  BY <1>1, <1>2, <1>3, <1>4, <1>5, <1>6, <1>7, <1>8, <1>9, <1>10

(* What is cached was answered, hence stored. *)
LEMMA CacheOrderCreation ==
    ASSUME NEW p \in Requests, CreationInv, CacheOrder(p)
    PROVE  CreationInv'
<1> USE DEF CreationInv
<1>1. TypeOK'
  BY DEF TypeOK, CacheOrder, Goto, Answers, NoAnswer, HolderCommits, OwnerIsDone,
         CachingIsAnswered, AnswersAgree
<1>2. HolderCommits'
  BY DEF TypeOK, HolderCommits, CacheOrder, Goto, Answers, NoAnswer, OwnerIsDone,
         CachingIsAnswered, AnswersAgree
<1>3. CommitHolds'
  BY DEF TypeOK, CommitHolds, CacheOrder, Goto, Answers, NoAnswer, HolderCommits, OwnerIsDone,
         CachingIsAnswered, AnswersAgree
<1>4. WroteByStep'
  BY DEF TypeOK, WroteByStep, CacheOrder, Goto, Answers, NoAnswer, HolderCommits, OwnerIsDone,
         CachingIsAnswered, AnswersAgree
<1>5. OwnerIsDone'
  BY DEF TypeOK, OwnerIsDone, CacheOrder, Goto, Answers, NoAnswer, HolderCommits,
         CachingIsAnswered, AnswersAgree
<1>6. RelookupFinds'
  BY DEF TypeOK, RelookupFinds, CacheOrder, Goto, Answers, NoAnswer, HolderCommits, OwnerIsDone,
         CachingIsAnswered, AnswersAgree
<1>7. AnswersAgree'
  BY DEF TypeOK, AnswersAgree, CacheOrder, Goto, Answers, NoAnswer, HolderCommits, OwnerIsDone,
         CachingIsAnswered
<1>8. CachingIsAnswered'
  BY DEF TypeOK, CachingIsAnswered, CacheOrder, Goto, Answers, NoAnswer, HolderCommits,
         OwnerIsDone, AnswersAgree
<1>9. NoOrphanAddresses'
  BY DEF TypeOK, NoOrphanAddresses, CacheOrder, Goto, Answers, NoAnswer, HolderCommits,
         OwnerIsDone, CachingIsAnswered, AnswersAgree
<1>10. CachedAreCommitted'
  BY DEF TypeOK, CachedAreCommitted, CacheOrder, Goto, Answers, NoAnswer, HolderCommits,
         OwnerIsDone, CachingIsAnswered, AnswersAgree
<1> QED
  BY <1>1, <1>2, <1>3, <1>4, <1>5, <1>6, <1>7, <1>8, <1>9, <1>10

(* CreationInv is inductive. *)
LEMMA StepCreation == CreationInv /\ [Next]_vars => CreationInv'
<1> SUFFICES ASSUME CreationInv, [Next]_vars PROVE CreationInv'
  OBVIOUS
<1>1. ASSUME NEW p \in Requests,
             Start(p) \/ Advance(p) \/ CommitAnswerLost(p) \/ Fail(p)
      PROVE  CreationInv'
  BY <1>1, StartCreation, LookupCreation, InsertAddressesCreation, InsertOrderCreation,
     RollbackConflictCreation, RelookupCreation, CommitCreation, CommitAnswerLostCreation,
     FailCreation, CacheOrderCreation DEF Advance
<1>2. CASE UNCHANGED vars
  BY <1>2 DEF vars, CreationInv, TypeOK, HolderCommits, CommitHolds, WroteByStep, OwnerIsDone,
         RelookupFinds, AnswersAgree, CachingIsAnswered, NoOrphanAddresses, CachedAreCommitted
<1> QED
  BY <1>1, <1>2 DEF Next

(* Every state the creations can reach satisfies the inductive invariant. *)
THEOREM CreationInvariant == Spec => []CreationInv
BY InitCreation, StepCreation, PTL DEF Spec

(* Requests, transactions and the stored orders are well typed.            *)
THEOREM CreationTyped == Spec => []TypeOK
<1>1. CreationInv => TypeOK
  BY DEF CreationInv
<1> QED
  BY <1>1, CreationInvariant, PTL

(* All answers for one key name the one order stored under it. *)
THEOREM AgreementCorrect == Spec => []AnswersAgree
<1>1. CreationInv => AnswersAgree
  BY DEF CreationInv
<1> QED
  BY <1>1, CreationInvariant, PTL

(* The second lookup after a refused insert cannot miss. *)
THEOREM RelookupCorrect == Spec => []RelookupFinds
<1>1. CreationInv => RelookupFinds
  BY DEF CreationInv
<1> QED
  BY <1>1, CreationInvariant, PTL

(* Addresses are committed with their order or not at all. *)
THEOREM AddressesCorrect == Spec => []NoOrphanAddresses
<1>1. CreationInv => NoOrphanAddresses
  BY DEF CreationInv
<1> QED
  BY <1>1, CreationInvariant, PTL

(* Only orders of the database are cached. *)
THEOREM CachingCorrect == Spec => []CachedAreCommitted
<1>1. CreationInv => CachedAreCommitted
  BY DEF CreationInv
<1> QED
  BY <1>1, CreationInvariant, PTL

(* The order under a key is never replaced by another one. *)
THEOREM KeyCorrect == Spec => OrderNeverReplaced
<1> DEFINE Kept == \A k \in Keys : orderOf[k] # None => orderOf'[k] = orderOf[k]
<1>1. ASSUME CreationInv, [Next]_vars PROVE Kept
  <2>1. ASSUME NEW p \in Requests, Commit(p) \/ CommitAnswerLost(p) PROVE Kept
    BY <1>1, <2>1 DEF CreationInv, TypeOK, CommitHolds, HolderCommits, Commit, CommitAnswerLost,
       EndTx
  <2>2. ASSUME NEW p \in Requests, RollbackConflict(p) \/ Fail(p) PROVE Kept
    BY <2>2 DEF RollbackConflict, Fail, EndTx
  <2>3. ASSUME NEW p \in Requests,
               \/ Start(p) \/ Lookup(p) \/ InsertAddresses(p) \/ InsertOrder(p)
               \/ Relookup(p) \/ CacheOrder(p)
        PROVE  Kept
    BY <2>3 DEF Start, Lookup, InsertAddresses, InsertOrder, Relookup, CacheOrder
  <2>4. CASE UNCHANGED vars
    BY <2>4 DEF vars
  <2> QED
    BY <1>1, <2>1, <2>2, <2>3, <2>4 DEF Next, Advance
<1>2. CreationInv /\ [Next]_vars => [Kept]_vars
  BY <1>1
<1> QED
  BY <1>2, CreationInvariant, PTL DEF Spec, OrderNeverReplaced

-----------------------------------------------------------------------------
(* Refinement: the commit is the one Create of a key, a lookup that hits   *)
(* is a Find, every failure a Fail, and what is left changes nothing.  It  *)
(* needs that a request has no answer before it gives one.                 *)
Deciding == {"idle", "lookup", "address", "insert", "commit", "conflict", "relookup"}

UndecidedIsUnanswered == \A p \in Requests : pc[p] \in Deciding => answer[p] = NoAnswer

(* It holds at the start, and whoever answers stops deciding.              *)
LEMMA InitUnanswered == Init => UndecidedIsUnanswered
BY DEF Init, UndecidedIsUnanswered

(* Every step keeps it.                                                    *)
LEMMA StepUnanswered ==
    TypeOK /\ UndecidedIsUnanswered /\ [Next]_vars => UndecidedIsUnanswered'
<1> SUFFICES ASSUME TypeOK, UndecidedIsUnanswered, [Next]_vars PROVE UndecidedIsUnanswered'
  OBVIOUS
<1>1. ASSUME NEW p \in Requests,
             Start(p) \/ InsertAddresses(p) \/ InsertOrder(p) \/ RollbackConflict(p) \/ CacheOrder(p)
      PROVE  UndecidedIsUnanswered'
  <2>1. answer' = answer
    BY <1>1 DEF Start, InsertAddresses, InsertOrder, RollbackConflict, CacheOrder
  <2>2. \E l : pc' = [pc EXCEPT ![p] = l] /\ (l \in Deciding => pc[p] \in Deciding)
    BY <1>1 DEF Start, InsertAddresses, InsertOrder, RollbackConflict, CacheOrder, Goto, Deciding
  <2> QED
    BY <2>1, <2>2 DEF UndecidedIsUnanswered, TypeOK
<1>2. ASSUME NEW p \in Requests,
             Lookup(p) \/ Relookup(p) \/ Commit(p) \/ CommitAnswerLost(p) \/ Fail(p)
      PROVE  UndecidedIsUnanswered'
  <2>1. \/ pc' = [pc EXCEPT ![p] = "address"] /\ answer' = answer /\ pc[p] = "lookup"
        \/ /\ pc' = [pc EXCEPT ![p] = "cache"] \/ pc' = [pc EXCEPT ![p] = "done"]
           /\ \E a : answer' = [answer EXCEPT ![p] = a]
    BY <1>2 DEF Lookup, Relookup, Commit, CommitAnswerLost, Fail, Goto, Reply
  <2> QED
    BY <2>1 DEF UndecidedIsUnanswered, TypeOK, Deciding
<1>3. CASE UNCHANGED vars
  BY <1>3 DEF vars, UndecidedIsUnanswered
<1> QED
  BY <1>1, <1>2, <1>3 DEF Next, Advance

(* A commit, answered or not, creates the order of a key that had none.    *)
LEMMA CommitRefines ==
    ASSUME CreationInv, UndecidedIsUnanswered, NEW p \in Requests, Commit(p) \/ CommitAnswerLost(p)
    PROVE  Promise!Create(p)
<1>1. pc[p] = "commit" /\ key[p] \in Keys
  BY DEF Commit, CommitAnswerLost, CreationInv, TypeOK
<1>2. orderOf[key[p]] = None
  BY <1>1 DEF CreationInv, CommitHolds, HolderCommits
<1>3. "order" \in wrote[p]
  BY <1>1 DEF CreationInv, WroteByStep
<1>4. orderOf' = [orderOf EXCEPT ![key[p]] = p]
  BY <1>3 DEF Commit, CommitAnswerLost, EndTx
<1>5. answer[p] = NoAnswer
  BY <1>1 DEF UndecidedIsUnanswered, Deciding
<1>6. Promise!Reply(p, "created", p) \/ Promise!Reply(p, "error", None)
  BY DEF Commit, CommitAnswerLost, Reply, Promise!Reply
<1>7. key' = key
  BY DEF Commit, CommitAnswerLost
<1> QED
  BY <1>2, <1>4, <1>5, <1>6, <1>7 DEF Promise!Create, Promise!Unanswered, NoAnswer

(* A lookup finds the stored order, or goes on without a visible step.     *)
LEMMA LookupRefines ==
    ASSUME UndecidedIsUnanswered, NEW p \in Requests, Lookup(p) \/ Relookup(p)
    PROVE  Promise!Find(p) \/ Promise!Fail(p) \/ UNCHANGED <<orderOf, key, answer>>
<1>1. answer[p] = NoAnswer
  BY DEF UndecidedIsUnanswered, Deciding, Lookup, Relookup
<1>2. UNCHANGED <<orderOf, key>>
  BY DEF Lookup, Relookup
<1>3. \/ orderOf[key[p]] # None /\ Promise!Reply(p, "existing", orderOf[key[p]])
      \/ Promise!Reply(p, "error", None)
      \/ answer' = answer
  BY DEF Lookup, Relookup, Reply, Promise!Reply
<1> QED
  BY <1>1, <1>2, <1>3 DEF Promise!Find, Promise!Fail, Promise!Unanswered, NoAnswer

(* A failure stores nothing.                                               *)
LEMMA FailRefines ==
    ASSUME UndecidedIsUnanswered, NEW p \in Requests, Fail(p)
    PROVE  Promise!Fail(p)
<1>1. answer[p] = NoAnswer
  BY DEF UndecidedIsUnanswered, Deciding, Fail
<1>2. UNCHANGED <<orderOf, key>> /\ Promise!Reply(p, "error", None)
  BY DEF Fail, EndTx, Reply, Promise!Reply
<1> QED
  BY <1>1, <1>2 DEF Promise!Fail, Promise!Unanswered, NoAnswer

(* Every step is one of the promise, or none.                              *)
LEMMA StepRefines ==
    CreationInv /\ UndecidedIsUnanswered /\ [Next]_vars
        => [Promise!PromiseNext]_(Promise!promiseVars)
<1> SUFFICES ASSUME CreationInv, UndecidedIsUnanswered, [Next]_vars
             PROVE  Promise!PromiseNext \/ UNCHANGED <<orderOf, key, answer>>
  BY DEF Promise!promiseVars
<1>1. ASSUME NEW p \in Requests, Commit(p) \/ CommitAnswerLost(p) \/ Lookup(p) \/ Relookup(p) \/ Fail(p)
      PROVE  Promise!PromiseNext \/ UNCHANGED <<orderOf, key, answer>>
  BY <1>1, CommitRefines, LookupRefines, FailRefines DEF Promise!PromiseNext
<1>2. ASSUME NEW p \in Requests,
             Start(p) \/ InsertAddresses(p) \/ InsertOrder(p) \/ RollbackConflict(p) \/ CacheOrder(p)
      PROVE  UNCHANGED <<orderOf, key, answer>>
  BY <1>2 DEF Start, InsertAddresses, InsertOrder, RollbackConflict, EndTx, CacheOrder
<1>3. CASE UNCHANGED vars
  BY <1>3 DEF vars
<1> QED
  BY <1>1, <1>2, <1>3 DEF Next, Advance

(* CreateOrder keeps its promise: to its clients, lookups, transactions,   *)
(* conflicts and lost answers look like requests that each take effect in  *)
(* one step, and create at most one order for a key.                       *)
THEOREM CreationKeepsPromise == Spec => ImplementsIdempotentCreation
<1>1. Init => Promise!PromiseInit
  BY DEF Init, NoAnswer, Promise!PromiseInit
<1>2. CreationInv => TypeOK
  BY DEF CreationInv
<1> QED
  BY <1>1, <1>2, StepRefines, CreationInvariant, InitUnanswered, StepUnanswered, PTL
     DEF Spec, ImplementsIdempotentCreation, Promise!PromiseSpec

-----------------------------------------------------------------------------
(* A request whose insert waits for another transaction's entry.           *)
Waiting(p) == pc[p] = "insert" /\ pending[key[p]] # None

(* It waits for a transaction that has nothing left to wait for.           *)
NobodyWaitsForWaiting ==
    \A p \in Requests : Waiting(p) =>
        /\ pending[key[p]] \in Requests \ {p}
        /\ pc[pending[key[p]]] = "commit"

(* The steps that a request may still take. *)
Left(p) ==
    CASE pc[p] = "idle"     -> 7
      [] pc[p] = "lookup"   -> 6
      [] pc[p] = "address"  -> 5
      [] pc[p] = "insert"   -> 4
      [] pc[p] = "conflict" -> 3
      [] pc[p] = "commit"   -> 3
      [] pc[p] = "relookup" -> 2
      [] pc[p] = "cache"    -> 1
      [] pc[p] = "done"     -> 0

Step(p) == Start(p) \/ Advance(p) \/ CommitAnswerLost(p) \/ Fail(p)

(* Each step of a request brings it nearer to its end, and nothing that    *)
(* the others do takes it back.                                            *)
NearerToEnd ==
    \A p \in Requests :
        /\ Step(p) => Left(p)' < Left(p)
        /\ ~Step(p) => Left(p)' = Left(p)

(* A step moves its own request on.                                        *)
LEMMA StepMoves ==
    ASSUME TypeOK, NEW p \in Requests, Step(p)
    PROVE  /\ \A q \in Requests : q # p => pc'[q] = pc[q]
           /\ Left(p)' < Left(p)
<1>1. \/ pc[p] = "idle" /\ Goto(p, "lookup")
      \/ pc[p] = "lookup" /\ (Goto(p, "cache") \/ Goto(p, "address") \/ Goto(p, "done"))
      \/ pc[p] = "address" /\ (Goto(p, "insert") \/ Goto(p, "done"))
      \/ pc[p] = "insert" /\ (Goto(p, "commit") \/ Goto(p, "conflict") \/ Goto(p, "done"))
      \/ pc[p] = "conflict" /\ (Goto(p, "relookup") \/ Goto(p, "done"))
      \/ pc[p] = "commit" /\ (Goto(p, "cache") \/ Goto(p, "done"))
      \/ pc[p] = "relookup" /\ (Goto(p, "cache") \/ Goto(p, "done"))
      \/ pc[p] = "cache" /\ Goto(p, "done")
  BY DEF Step, Advance, Start, Lookup, InsertAddresses, InsertOrder, RollbackConflict, Relookup,
         Commit, CommitAnswerLost, Fail, CacheOrder
<1>2. ASSUME NEW l, Goto(p, l)
      PROVE  pc'[p] = l /\ \A q \in Requests : q # p => pc'[q] = pc[q]
  BY <1>2 DEF Goto, TypeOK
<1>3. Left(p)' < Left(p)
  BY <1>1, <1>2 DEF Left
<1> QED
  BY <1>1, <1>2, <1>3

(* The core of EveryCreateEnds, for any number of requests: an insert that *)
(* waits does so for a transaction about to commit, and every request ends *)
(* within seven steps of its own.                                          *)
THEOREM CreatesBounded == Spec => []NobodyWaitsForWaiting /\ [][NearerToEnd]_vars
<1>1. CreationInv => NobodyWaitsForWaiting
  BY DEF CreationInv, TypeOK, HolderCommits, NobodyWaitsForWaiting, Waiting
<1>2. ASSUME TypeOK, [Next]_vars PROVE NearerToEnd
  <2> SUFFICES ASSUME NEW p \in Requests, ~Step(p) PROVE Left(p)' = Left(p)
    BY <1>2, StepMoves DEF NearerToEnd
  <2>1. pc'[p] = pc[p]
    BY <1>2, StepMoves DEF Next, vars, Step
  <2> QED
    BY <2>1 DEF Left
<1>3. CreationInv /\ [Next]_vars => [NearerToEnd]_vars
  BY <1>2 DEF CreationInv
<1> QED
  BY <1>1, <1>3, CreationInvariant, PTL DEF Spec
=============================================================================
