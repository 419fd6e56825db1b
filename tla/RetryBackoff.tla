----------------------------- MODULE RetryBackoff -----------------------------
(***************************************************************************)
(* withRetry and backoffDelay of the carrier-sync worker: an operation is  *)
(* called again after a delay that doubles from baseBackoff to maxBackoff  *)
(* and is then moved by a random part of itself.  Durations are integers   *)
(* of a fixed width; the jitter factor is a percentage.                    *)
(***************************************************************************)
EXTENDS Integers

CONSTANTS
    MaxInt,             \* largest duration of its width
    DefaultBase,        \* defaultRetryBaseBackoff
    RetryMaxAttempts,
    Configured          \* the [base, max, jitter] a worker may have

ASSUME BackoffAssumption ==
    /\ MaxInt \in Nat
    /\ DefaultBase \in 1..MaxInt
    /\ RetryMaxAttempts \in Nat \ {0}
    /\ Configured \subseteq [base: 0..MaxInt, max: 0..MaxInt, jitter: 0..100]

VARIABLES
    worker,     \* retryBaseBackoff, retryMaxBackoff and retryJitterFactor
    pc,         \* what withRetry is about to do
    attempt,
    i,          \* counter of the doubling loop
    delay,
    last,       \* the latest delay slept (history)
    slept       \* the time slept in this operation (history)

vars == <<worker, pc, attempt, i, delay, last, slept>>

(* base and max, with the corrections of backoffDelay. *)
BaseBackoff == IF worker.base = 0 THEN DefaultBase ELSE worker.base
MaxBackoff == IF worker.max < BaseBackoff THEN BaseBackoff ELSE worker.max

(* Arithmetic of the width that MaxInt is the largest number of. *)
Wrap(x) == ((x + MaxInt + 1) % (2 * (MaxInt + 1))) - (MaxInt + 1)

JitterRange(d) == (d * worker.jitter) \div 100

Init ==
    /\ worker \in Configured
    /\ pc = "call"
    /\ attempt = 1
    /\ i = 1
    /\ delay = 0
    /\ last = 0
    /\ slept = 0

(* The last attempt is waited for like the others. *)
MutCallFails ==
    /\ pc = "call"
    /\ attempt \leq RetryMaxAttempts
    /\ pc' = "double"
    /\ i' = 1
    /\ delay' = BaseBackoff
    /\ UNCHANGED <<worker, attempt, last, slept>>

(* The operation fails and is not the last attempt: backoffDelay begins. *)
CallFails ==
    /\ pc = "call"
    /\ attempt < RetryMaxAttempts
    /\ pc' = "double"
    /\ i' = 1
    /\ delay' = BaseBackoff
    /\ UNCHANGED <<worker, attempt, last, slept>>

(* It succeeds, it was the last attempt, or the worker's context is over.  *)
Return ==
    /\ pc = "call"
    /\ pc' = "done"
    /\ UNCHANGED <<worker, attempt, i, delay, last, slept>>

(* The delay is compared with the cap only after it has been doubled. *)
MutDouble ==
    /\ pc = "double"
    /\ i < attempt
    /\ IF Wrap(delay * 2) > MaxBackoff
       THEN delay' = MaxBackoff /\ i' = attempt
       ELSE delay' = Wrap(delay * 2) /\ i' = i + 1
    /\ UNCHANGED <<worker, pc, attempt, last, slept>>

(* A turn of the loop, which a delay near the cap leaves. *)
Double ==
    /\ pc = "double"
    /\ i < attempt
    /\ IF delay \geq MaxBackoff \div 2 \/ Wrap(delay * 2) > MaxBackoff
       THEN delay' = MaxBackoff /\ i' = attempt
       ELSE delay' = Wrap(delay * 2) /\ i' = i + 1
    /\ UNCHANGED <<worker, pc, attempt, last, slept>>

(* The jittered delay is slept, and the next attempt follows. *)
Sleep ==
    /\ pc = "double"
    /\ i \geq attempt
    /\ \E delta \in -JitterRange(delay)..JitterRange(delay) :
          last' = IF Wrap(delay + delta) < 0 THEN 0 ELSE Wrap(delay + delta)
    /\ slept' = slept + last'
    /\ attempt' = attempt + 1
    /\ pc' = "call"
    /\ UNCHANGED <<worker, i, delay>>

(* The worker's context ends the wait. *)
Interrupted ==
    /\ pc = "double"
    /\ i \geq attempt
    /\ pc' = "done"
    /\ UNCHANGED <<worker, attempt, i, delay, last, slept>>

Next == CallFails \/ Return \/ Double \/ Sleep \/ Interrupted

Spec == Init /\ [][Next]_vars

-----------------------------------------------------------------------------
TypeOK ==
    /\ worker \in Configured
    /\ pc \in {"call", "double", "done"}
    /\ attempt \in 1..RetryMaxAttempts
    /\ i \in 1..RetryMaxAttempts
    /\ delay \in 0..MaxInt
    /\ last \in 0..MaxInt
    /\ slept \in Nat

Smaller(x, y) == IF x \leq y THEN x ELSE y

PowerOfTwo[n \in Nat] == IF n = 0 THEN 1 ELSE 2 * PowerOfTwo[n - 1]

(* Before the jitter the delay of attempt n is base * 2^(n-1), or the cap  *)
(* if that is smaller, for every width, base and cap: the doubling neither *)
(* overflows nor falls.  An odd cap is reached one unit early, because the *)
(* code halves the cap instead of doubling the delay.                      *)
BackoffDoublesToCap ==
    pc = "double" /\ i = attempt =>
        LET reference == Smaller(BaseBackoff * PowerOfTwo[attempt - 1], MaxBackoff)
        IN delay \in {reference, Smaller(reference + 1, MaxBackoff)}

(* The jitter may carry a delay past its cap, by no more than its share:   *)
(* an operation sleeps no longer than the cap and that share after each of *)
(* its attempts but the last.  Unless the jitter may be the whole delay,   *)
(* no attempt follows at once, as long as twice the cap fits the width.    *)
SleepsAreBounded ==
    /\ slept \leq (RetryMaxAttempts - 1) * (MaxBackoff + JitterRange(MaxBackoff))
    /\ attempt > 1 /\ worker.jitter < 100 /\ 2 * MaxBackoff \leq MaxInt => last > 0
=============================================================================
