-------------------------- MODULE RetryBackoffProofs --------------------------
(***************************************************************************)
(* The backoff of RetryBackoff for every width of the durations, every     *)
(* configuration and every number of attempts: no delay leaves the bounds  *)
(* of its width or of its cap, the delay before each attempt is base times *)
(* a power of two until that reaches the cap, and the time slept is        *)
(* bounded.  The powers are a recursive function: that it satisfies its    *)
(* recursion, and what follows by induction, is proved here as well.       *)
(***************************************************************************)
EXTENDS RetryBackoff, TLAPS, WellFoundedInduction

-----------------------------------------------------------------------------
(* A number below the modulus is its own remainder. *)
LEMMA SmallRemainder ==
    ASSUME NEW a \in Nat, NEW n \in Nat, a < n
    PROVE  a % n = a
  OBVIOUS

(* One between the modulus and twice the modulus loses it once. *)
LEMMA LargeRemainder ==
    ASSUME NEW a \in Nat, NEW n \in Nat, n \leq a, a < 2 * n
    PROVE  a % n = a - n
  OBVIOUS

(* A number that fits the width is what it is; a sum of two that do not    *)
(* becomes negative.                                                       *)
LEMMA Wraps ==
    ASSUME NEW x \in Nat, x \leq 2 * MaxInt
    PROVE  /\ x \leq MaxInt => Wrap(x) = x
           /\ x > MaxInt => Wrap(x) \in Int /\ Wrap(x) < 0
  <1> DEFINE n == 2 * (MaxInt + 1)
  <1>1. MaxInt \in Nat /\ n \in Nat /\ x + MaxInt + 1 \in Nat
    BY BackoffAssumption
  <1>2. CASE x \leq MaxInt
    <2>1. (x + MaxInt + 1) % n = x + MaxInt + 1
      <3>1. x + MaxInt + 1 < n
        BY <1>1, <1>2
      <3> QED
        BY <1>1, <3>1, SmallRemainder
    <2> QED
      BY <1>1, <1>2, <2>1 DEF Wrap
  <1>3. CASE x > MaxInt
    <2>1. (x + MaxInt + 1) % n = (x + MaxInt + 1) - n
      <3>1. n \leq x + MaxInt + 1 /\ x + MaxInt + 1 < 2 * n
        BY <1>1, <1>3
      <3> HIDE DEF n
      <3> DEFINE a == x + MaxInt + 1
      <3>2. a \in Nat /\ n \leq a /\ a < 2 * n
        BY <1>1, <3>1
      <3> HIDE DEF a
      <3>3. a % n = a - n
        BY <1>1, <3>2, LargeRemainder
      <3> QED
        BY <3>3 DEF a
    <2> QED
      BY <1>1, <1>3, <2>1 DEF Wrap
  <1> QED
    BY <1>1, <1>2, <1>3

(* A share of at most all of a number, rounded down. *)
LEMMA Share ==
    ASSUME NEW d \in Nat, NEW j \in 0..100
    PROVE  /\ (d * j) \div 100 \in 0..d
           /\ j < 100 /\ d > 0 => (d * j) \div 100 < d
           /\ \A m \in Nat : d \leq m => (d * j) \div 100 \leq (m * j) \div 100
  <1>1. d * j \in Nat /\ d * j \leq 100 * d
    OBVIOUS
  <1>2. (d * j) \div 100 \in 0..d
    BY <1>1
  <1>3. j < 100 /\ d > 0 => d * j < 100 * d
    OBVIOUS
  <1>4. j < 100 /\ d > 0 => (d * j) \div 100 < d
    BY <1>1, <1>3
  <1>5. ASSUME NEW m \in Nat, d \leq m PROVE (d * j) \div 100 \leq (m * j) \div 100
    <2>1. m * j \in Nat /\ d * j \leq m * j
      BY <1>5
    <2> QED
      BY <1>1, <2>1
  <1> QED
    BY <1>2, <1>4, <1>5

-----------------------------------------------------------------------------
(* Induction over the natural numbers, in the form that the provers can    *)
(* use: for a set instead of a predicate.                                  *)
Below == {ss \in Nat \X Nat : ss[1] < ss[2]}

(* Numbers do not descend for ever. *)
LEMMA BelowWellFounded == IsWellFoundedOn(Below, Nat)
  <1>1. Below = OpToRel(<, Nat)
    BY DEF OpToRel, Below
  <1> QED
    BY <1>1, NatLessThanWellFounded, Zenon

(* A set of numbers has a least one. *)
LEMMA LeastNumber ==
    ASSUME NEW T \in SUBSET Nat, T # {}
    PROVE  \E x \in T : \A y \in T : x \leq y
  <1>1. PICK x \in T : \A y \in T : <<y, x>> \notin Below
    BY BelowWellFounded, WFMin, Zenon
  <1>2. ASSUME NEW y \in T PROVE x \leq y
    <2>1. x \in Nat /\ y \in Nat /\ <<y, x>> \in Nat \X Nat
      OBVIOUS
    <2>2. ~(y < x)
      BY <1>1, <2>1 DEF Below
    <2> QED
      BY <2>1, <2>2
  <1> QED
    BY <1>2

(* A set with 0 and the successor of every member is all of Nat: the least *)
(* number outside would have its predecessor inside.                       *)
LEMMA SetInduction ==
    ASSUME NEW S \in SUBSET Nat, 0 \in S, \A n \in S : n + 1 \in S
    PROVE  S = Nat
  <1>1. SUFFICES ASSUME Nat \ S # {} PROVE FALSE
    OBVIOUS
  <1>2. PICK x \in Nat \ S : \A y \in Nat \ S : x \leq y
    BY <1>1, LeastNumber
  <1>3. x \in Nat /\ x # 0 /\ x - 1 \in Nat /\ ~(x \leq x - 1)
    OBVIOUS
  <1>4. x - 1 \in S
    BY <1>2, <1>3
  <1>5. (x - 1) + 1 \in S
    BY <1>4
  <1> QED
    BY <1>2, <1>3, <1>5

-----------------------------------------------------------------------------
(* The first n + 1 powers, without recursion. *)
Powers(n) == {g \in [0..n -> Nat] : g[0] = 1 /\ \A k \in 1..n : g[k] = 2 * g[k - 1]}

(* There are so many. *)
LEMMA PowersExist == \A n \in Nat : Powers(n) # {}
  <1> DEFINE S == {n \in Nat : Powers(n) # {}}
  <1>1. 0 \in S
    <2>1. [k \in 0..0 |-> 1] \in Powers(0)
      BY DEF Powers
    <2> QED
      BY <2>1
  <1>2. ASSUME NEW n \in S PROVE n + 1 \in S
    <2>1. PICK g \in [0..n -> Nat] : g[0] = 1 /\ \A k \in 1..n : g[k] = 2 * g[k - 1]
      BY DEF Powers
    <2> DEFINE h == [k \in 0..(n + 1) |-> IF k \leq n THEN g[k] ELSE 2 * g[n]]
    <2>2. n \in Nat /\ g[n] \in Nat
      BY <2>1
    <2>3. h \in [0..(n + 1) -> Nat] /\ h[0] = 1
      BY <2>1, <2>2
    <2>4. ASSUME NEW k \in 1..(n + 1) PROVE h[k] = 2 * h[k - 1]
      <3>1. CASE k \leq n
        BY <2>1, <2>2, <3>1
      <3>2. CASE k = n + 1
        BY <2>1, <2>2, <3>2
      <3> QED
        BY <2>2, <3>1, <3>2
    <2>5. h \in Powers(n + 1)
      <3> HIDE DEF h
      <3> QED
        BY <2>3, <2>4 DEF Powers
    <2> QED
      BY <2>2, <2>5
  <1>3. S = Nat
    <2>1. S \in SUBSET Nat
      OBVIOUS
    <2> HIDE DEF S
    <2> QED
      BY <1>1, <1>2, <2>1, SetInduction
  <1> QED
    BY <1>3

(* They do not depend on how many are asked for. *)
LEMMA PowersAgree ==
    ASSUME NEW m \in Nat, NEW n \in Nat, NEW g \in Powers(m), NEW h \in Powers(n)
    PROVE  \A k \in Nat : k \leq m /\ k \leq n => g[k] = h[k]
  <1> DEFINE S == {k \in Nat : k \leq m /\ k \leq n => g[k] = h[k]}
  <1>1. /\ g[0] = 1 /\ \A k \in 1..m : g[k] = 2 * g[k - 1]
        /\ h[0] = 1 /\ \A k \in 1..n : h[k] = 2 * h[k - 1]
    BY DEF Powers
  <1>2. 0 \in S
    BY <1>1
  <1>3. ASSUME NEW k \in S PROVE k + 1 \in S
    <2> SUFFICES ASSUME k + 1 \leq m, k + 1 \leq n PROVE g[k + 1] = h[k + 1]
      OBVIOUS
    <2>1. k + 1 \in 1..m /\ k + 1 \in 1..n /\ (k + 1) - 1 = k /\ k \leq m /\ k \leq n
      OBVIOUS
    <2>2. g[k] = h[k]
      BY <2>1
    <2>3. g[k + 1] = 2 * g[(k + 1) - 1] /\ h[k + 1] = 2 * h[(k + 1) - 1]
      BY <1>1, <2>1, Zenon
    <2> QED
      BY <2>1, <2>2, <2>3
  <1>4. S = Nat
    <2>1. S \in SUBSET Nat
      OBVIOUS
    <2> HIDE DEF S
    <2> QED
      BY <1>2, <1>3, <2>1, SetInduction
  <1> QED
    BY <1>4

(* So there is a function with the recursion of PowerOfTwo, which is       *)
(* therefore one.                                                          *)
LEMMA PowerRecursion ==
    \A n \in Nat : PowerOfTwo[n] = IF n = 0 THEN 1 ELSE 2 * PowerOfTwo[n - 1]
  <1> DEFINE G(n) == CHOOSE g \in Powers(n) : TRUE
             f == [n \in Nat |-> G(n)[n]]
  <1>1. \A n \in Nat : G(n) \in Powers(n)
    BY PowersExist
  <1>2. ASSUME NEW n \in Nat PROVE f[n] = IF n = 0 THEN 1 ELSE 2 * f[n - 1]
    <2> HIDE DEF G
    <2>1. CASE n = 0
      BY <1>1, <2>1 DEF Powers
    <2>2. CASE n # 0
      <3>1. n - 1 \in Nat /\ n \in 1..n /\ n - 1 \leq n
        BY <2>2
      <3>2. G(n)[n] = 2 * G(n)[n - 1]
        BY <1>1, <3>1 DEF Powers
      <3>3. G(n)[n - 1] = G(n - 1)[n - 1]
        BY <1>1, <3>1, PowersAgree
      <3>4. f[n] = G(n)[n] /\ f[n - 1] = G(n - 1)[n - 1]
        BY <3>1
      <3> QED
        BY <2>2, <3>2, <3>3, <3>4
    <2> QED
      BY <2>1, <2>2
  <1>3. f = [n \in Nat |-> IF n = 0 THEN 1 ELSE 2 * f[n - 1]]
    <2>1. f = [n \in Nat |-> f[n]]
      OBVIOUS
    <2> HIDE DEF f
    <2> QED
      BY <1>2, <2>1
  <1>4. PowerOfTwo = [n \in Nat |-> IF n = 0 THEN 1 ELSE 2 * PowerOfTwo[n - 1]]
    <2> HIDE DEF f
    <2> QED
      BY <1>3 DEF PowerOfTwo
  <1> QED
    BY <1>4, Zenon

(* The powers are positive numbers. *)
LEMMA PowerPositive == \A n \in Nat : PowerOfTwo[n] \in Nat /\ PowerOfTwo[n] \geq 1
  <1> DEFINE S == {n \in Nat : PowerOfTwo[n] \in Nat /\ PowerOfTwo[n] \geq 1}
  <1>1. 0 \in S
    BY PowerRecursion
  <1>2. ASSUME NEW n \in S PROVE n + 1 \in S
    <2>1. PowerOfTwo[n + 1] = 2 * PowerOfTwo[n]
      BY PowerRecursion
    <2> QED
      BY <2>1
  <1>3. S = Nat
    <2>1. S \in SUBSET Nat
      OBVIOUS
    <2> HIDE DEF S
    <2> QED
      BY <1>1, <1>2, <2>1, SetInduction
  <1> QED
    BY <1>3

(* They grow. *)
LEMMA PowerMonotone ==
    ASSUME NEW m \in Nat, NEW n \in Nat, m \leq n
    PROVE  PowerOfTwo[m] \leq PowerOfTwo[n]
  <1> DEFINE S == {k \in Nat : PowerOfTwo[m] \leq PowerOfTwo[m + k]}
  <1>1. 0 \in S
    BY PowerPositive
  <1>2. ASSUME NEW k \in S PROVE k + 1 \in S
    <2>1. PowerOfTwo[m + (k + 1)] = 2 * PowerOfTwo[m + k]
      <3>1. m + (k + 1) \in Nat /\ m + (k + 1) # 0 /\ (m + (k + 1)) - 1 = m + k
        OBVIOUS
      <3> QED
        BY <3>1, PowerRecursion
    <2>2. PowerOfTwo[m] \in Nat /\ PowerOfTwo[m + k] \in Nat
      BY PowerPositive
    <2> QED
      BY <2>1, <2>2
  <1>3. S = Nat
    <2>1. S \in SUBSET Nat
      OBVIOUS
    <2> HIDE DEF S
    <2> QED
      BY <1>1, <1>2, <2>1, SetInduction
  <1>4. n - m \in Nat /\ m + (n - m) = n
    OBVIOUS
  <1>5. \A k \in Nat : PowerOfTwo[m] \leq PowerOfTwo[m + k]
    BY <1>3
  <1>6. PowerOfTwo[m] \leq PowerOfTwo[m + (n - m)]
    <2> HIDE DEF S
    <2> QED
      BY <1>4, <1>5
  <1> QED
    BY <1>4, <1>6

-----------------------------------------------------------------------------
Corrected ==
    /\ MaxInt \in Nat
    /\ worker.jitter \in 0..100
    /\ BaseBackoff \in 1..MaxInt
    /\ MaxBackoff \in BaseBackoff..MaxInt

(* The corrected base and cap fit the width. *)
LEMMA Corrections ==
    ASSUME worker \in Configured
    PROVE  Corrected
  <1>1. worker \in [base: 0..MaxInt, max: 0..MaxInt, jitter: 0..100]
    BY BackoffAssumption
  <1>2. MaxInt \in Nat /\ DefaultBase \in 1..MaxInt
    BY BackoffAssumption
  <1>3. worker.base \in 0..MaxInt /\ worker.max \in 0..MaxInt /\ worker.jitter \in 0..100
    BY <1>1
  <1>4. BaseBackoff \in 1..MaxInt
    BY <1>2, <1>3 DEF BaseBackoff
  <1>5. MaxBackoff \in BaseBackoff..MaxInt
    BY <1>2, <1>3, <1>4 DEF MaxBackoff
  <1> QED
    BY <1>2, <1>3, <1>4, <1>5 DEF Corrected

(* The longest that one delay lasts. *)
Longest == MaxBackoff + JitterRange(MaxBackoff)

(* It is a number. *)
LEMMA LongestNat == ASSUME Corrected PROVE Longest \in Nat
  <1>1. MaxBackoff \in Nat /\ worker.jitter \in 0..100
    BY DEF Corrected
  <1>2. JitterRange(MaxBackoff) \in Nat
    BY <1>1, Share DEF JitterRange
  <1> QED
    BY <1>1, <1>2 DEF Longest

(* A jittered delay is at most the cap and its share, and overflows to     *)
(* nothing.                                                                *)
LEMMA Jitters ==
    ASSUME Corrected, NEW d \in BaseBackoff..MaxBackoff,
           NEW delta \in -JitterRange(d)..JitterRange(d),
           NEW l, l = IF Wrap(d + delta) < 0 THEN 0 ELSE Wrap(d + delta)
    PROVE  /\ l \in 0..MaxInt /\ l \leq Longest
           /\ worker.jitter < 100 /\ 2 * MaxBackoff \leq MaxInt => l > 0
  <1> DEFINE j == JitterRange(d)
             m == JitterRange(MaxBackoff)
  <1>1. d \in Nat /\ d > 0 /\ d \leq MaxInt /\ d \leq MaxBackoff /\ MaxBackoff \in Nat /\ MaxInt \in Nat
    BY DEF Corrected
  <1>2. /\ j \in 0..d /\ m \in 0..MaxBackoff /\ j \leq m
        /\ worker.jitter < 100 => j < d
    BY <1>1, Share DEF Corrected, JitterRange
  <1>3. delta \in -j..j
    OBVIOUS
  <1> HIDE DEF j, m
  <1> DEFINE x == d + delta
  <1>4. /\ x \in Nat /\ x \leq 2 * MaxInt /\ x \leq MaxBackoff + m /\ x \leq 2 * MaxBackoff
        /\ worker.jitter < 100 => x > 0
    BY <1>1, <1>2, <1>3
  <1>5. l = IF Wrap(x) < 0 THEN 0 ELSE Wrap(x)
    OBVIOUS
  <1>6. Longest = MaxBackoff + m
    BY DEF Longest, m
  <1> HIDE DEF x
  <1>7. CASE x \leq MaxInt
    <2>1. l = x
      BY <1>4, <1>5, <1>7, Wraps
    <2> QED
      BY <1>1, <1>4, <1>6, <1>7, <2>1
  <1>8. CASE x > MaxInt
    <2>1. l = 0 /\ ~(2 * MaxBackoff \leq MaxInt)
      <3>1. Wrap(x) < 0
        BY <1>4, <1>8, Wraps
      <3> QED
        BY <1>1, <1>4, <1>5, <1>8, <3>1
    <2> QED
      BY <1>1, <1>2, <1>6, <2>1
  <1> QED
    BY <1>1, <1>4, <1>7, <1>8

-----------------------------------------------------------------------------
(* Where withRetry is. *)
PlaceInv ==
    /\ worker \in Configured
    /\ pc \in {"call", "double", "done"}
    /\ attempt \in 1..RetryMaxAttempts
    /\ i \in 1..RetryMaxAttempts
    /\ pc = "double" => attempt < RetryMaxAttempts

(* The delay is between the base and the cap as soon as there is one. *)
DelayInv ==
    /\ delay \in 0..MaxInt
    /\ pc = "double" => delay \in BaseBackoff..MaxBackoff

SleepInv ==
    /\ last \in 0..MaxInt
    /\ slept \in Nat
    /\ slept \leq (attempt - 1) * Longest
    /\ attempt > 1 /\ worker.jitter < 100 /\ 2 * MaxBackoff \leq MaxInt => last > 0

(* The loop has doubled the base so often, or it has just left at the cap, *)
(* which twice the last delay would have reached but for one unit.         *)
DoublingInv ==
    pc = "double" =>
        /\ i \leq attempt
        /\ \/ delay = BaseBackoff * PowerOfTwo[i - 1]
           \/ /\ i = attempt /\ delay = MaxBackoff
              /\ MaxBackoff \leq BaseBackoff * PowerOfTwo[attempt - 1] + 1

Inv == PlaceInv /\ DelayInv /\ SleepInv

(* The corrections depend on the worker only, which stays as it is. *)
LEMMA WorkerStands ==
    ASSUME worker' = worker
    PROVE  BaseBackoff' = BaseBackoff /\ MaxBackoff' = MaxBackoff /\ Longest' = Longest
  <1>1. BaseBackoff' = BaseBackoff
    BY DEF BaseBackoff
  <1>2. MaxBackoff' = MaxBackoff
    BY <1>1 DEF MaxBackoff
  <1> QED
    BY <1>1, <1>2 DEF Longest, JitterRange

(* Nothing has been slept at first. *)
LEMMA InitInv == ASSUME Init PROVE Inv
  <1>1. RetryMaxAttempts \in Nat /\ RetryMaxAttempts \geq 1 /\ MaxInt \in Nat
    BY BackoffAssumption
  <1>2. PlaceInv
    BY <1>1 DEF Init, PlaceInv
  <1>3. DelayInv
    BY <1>1 DEF Init, DelayInv
  <1>4. Corrected
    BY Corrections DEF Init
  <1>5. Longest \in Nat
    BY <1>4, LongestNat
  <1>6. SleepInv
    <2>1. attempt = 1 /\ slept = 0 /\ last = 0
      BY DEF Init
    <2>2. (attempt - 1) * Longest = 0
      BY <1>5, <2>1
    <2> QED
      BY <1>1, <2>1, <2>2 DEF SleepInv
  <1> QED
    BY <1>2, <1>3, <1>6 DEF Inv

(* A step that sleeps nothing. *)
LEMMA SleepFrame ==
    ASSUME SleepInv, UNCHANGED <<worker, attempt, last, slept>>
    PROVE  SleepInv'
  BY WorkerStands DEF SleepInv

(* A failed call starts from the base. *)
LEMMA CallFailsInv == ASSUME Inv, CallFails PROVE Inv'
  <1>1. /\ attempt < RetryMaxAttempts
        /\ pc' = "double" /\ i' = 1 /\ delay' = BaseBackoff
        /\ UNCHANGED <<worker, attempt, last, slept>>
    BY DEF CallFails
  <1>2. Corrected
    BY Corrections DEF Inv, PlaceInv
  <1>3. PlaceInv'
    BY <1>1, BackoffAssumption DEF Inv, PlaceInv
  <1>4. DelayInv'
    BY <1>1, <1>2, WorkerStands DEF Corrected, DelayInv
  <1>5. SleepInv'
    BY <1>1, SleepFrame DEF Inv
  <1> QED
    BY <1>3, <1>4, <1>5 DEF Inv

(* A delay that is doubled stays within its cap, and does not overflow. *)
LEMMA DoubleInv == ASSUME Inv, Double PROVE Inv'
  <1>1. /\ pc = "double" /\ i < attempt
        /\ UNCHANGED <<worker, pc, attempt, last, slept>>
        /\ \/ delay' = MaxBackoff /\ i' = attempt
           \/ /\ delay < MaxBackoff \div 2
              /\ ~(Wrap(delay * 2) > MaxBackoff)
              /\ delay' = Wrap(delay * 2) /\ i' = i + 1
    <2>1. CASE delay \geq MaxBackoff \div 2 \/ Wrap(delay * 2) > MaxBackoff
      BY <2>1 DEF Double
    <2>2. CASE ~(delay \geq MaxBackoff \div 2 \/ Wrap(delay * 2) > MaxBackoff)
      <3>1. Corrected /\ delay \in BaseBackoff..MaxBackoff
        BY Corrections DEF Inv, PlaceInv, DelayInv, Double
      <3>2. delay < MaxBackoff \div 2
        BY <2>2, <3>1 DEF Corrected
      <3> QED
        BY <2>2, <3>2 DEF Double
    <2> QED
      BY <2>1, <2>2
  <1>2. Corrected /\ delay \in BaseBackoff..MaxBackoff
    BY <1>1, Corrections DEF Inv, PlaceInv, DelayInv
  <1>3. delay' \in BaseBackoff..MaxBackoff
    <2>1. CASE delay' = MaxBackoff
      BY <1>2, <2>1 DEF Corrected
    <2>2. CASE delay < MaxBackoff \div 2 /\ delay' = Wrap(delay * 2)
      <3>1. delay * 2 \in Nat /\ delay * 2 \leq MaxBackoff /\ delay * 2 \leq MaxInt /\ delay * 2 \geq BaseBackoff
        BY <1>2, <2>2 DEF Corrected
      <3>2. Wrap(delay * 2) = delay * 2
        BY <1>2, <3>1, Wraps DEF Corrected
      <3> QED
        BY <1>2, <2>2, <3>1, <3>2 DEF Corrected
    <2> QED
      BY <1>1, <2>1, <2>2
  <1>4. PlaceInv'
    BY <1>1, BackoffAssumption DEF Inv, PlaceInv
  <1>5. DelayInv'
    BY <1>1, <1>2, <1>3, WorkerStands DEF Corrected, DelayInv
  <1>6. SleepInv'
    BY <1>1, SleepFrame DEF Inv
  <1> QED
    BY <1>4, <1>5, <1>6 DEF Inv

(* One more delay of at most the longest length. *)
LEMMA OneMore ==
    ASSUME NEW n \in Nat, NEW b \in Nat, NEW s \in Nat, NEW l \in Nat, n \geq 1,
           s \leq (n - 1) * b, l \leq b
    PROVE  s + l \in Nat /\ s + l \leq ((n + 1) - 1) * b
  <1>1. ((n + 1) - 1) * b = (n - 1) * b + b
    OBVIOUS
  <1>2. (n - 1) * b \in Nat
    OBVIOUS
  <1> QED
    BY <1>1, <1>2

(* The jittered delay is slept. *)
LEMMA SleepStepInv == ASSUME Inv, Sleep PROVE Inv'
  <1>1. /\ pc = "double" /\ pc' = "call" /\ attempt' = attempt + 1
        /\ slept' = slept + last'
        /\ UNCHANGED <<worker, i, delay>>
    BY DEF Sleep
  <1>2. PICK delta \in -JitterRange(delay)..JitterRange(delay) :
            last' = IF Wrap(delay + delta) < 0 THEN 0 ELSE Wrap(delay + delta)
    BY DEF Sleep
  <1>3. Corrected /\ delay \in BaseBackoff..MaxBackoff
    BY <1>1, Corrections DEF Inv, PlaceInv, DelayInv
  <1>4. /\ last' \in 0..MaxInt /\ last' \leq Longest
        /\ worker.jitter < 100 /\ 2 * MaxBackoff \leq MaxInt => last' > 0
    BY <1>2, <1>3, Jitters
  <1>5. PlaceInv'
    BY <1>1, BackoffAssumption DEF Inv, PlaceInv
  <1>6. DelayInv'
    BY <1>1 DEF Inv, DelayInv
  <1>7. SleepInv'
    <2>1. Longest \in Nat /\ last' \in Nat /\ MaxInt \in Nat
      BY <1>3, <1>4, LongestNat DEF Corrected
    <2>2. attempt \in Nat /\ attempt \geq 1
      BY BackoffAssumption DEF Inv, PlaceInv
    <2>3. slept \in Nat /\ slept \leq (attempt - 1) * Longest
      BY DEF Inv, SleepInv
    <2>4. slept + last' \leq ((attempt + 1) - 1) * Longest
      BY <1>4, <2>1, <2>2, <2>3, OneMore
    <2>5. slept' \in Nat /\ slept' \leq (attempt' - 1) * Longest'
      <3>1. slept' = slept + last' /\ attempt' = attempt + 1 /\ Longest' = Longest
        BY <1>1, WorkerStands
      <3>2. (attempt' - 1) * Longest' = ((attempt + 1) - 1) * Longest
        BY <3>1
      <3>3. slept + last' \in Nat
        BY <1>4, <2>1, <2>2, <2>3, OneMore
      <3>4. slept' \leq (attempt' - 1) * Longest'
        BY <2>4, <3>1, <3>2, Zenon
      <3> QED
        BY <3>1, <3>3, <3>4, Zenon
    <2>6. worker'.jitter < 100 /\ 2 * MaxBackoff' \leq MaxInt => last' > 0
      BY <1>1, <1>4, WorkerStands
    <2> QED
      BY <1>4, <2>5, <2>6 DEF SleepInv
  <1> QED
    BY <1>5, <1>6, <1>7 DEF Inv

(* What withRetry has come to when it returns. *)
LEMMA ReturnInv == ASSUME Inv, Return \/ Interrupted PROVE Inv'
  <1>1. pc' = "done" /\ UNCHANGED <<worker, attempt, i, delay, last, slept>>
    BY DEF Return, Interrupted
  <1>2. PlaceInv' /\ DelayInv'
    BY <1>1 DEF Inv, PlaceInv, DelayInv
  <1>3. SleepInv'
    BY <1>1, SleepFrame DEF Inv
  <1> QED
    BY <1>2, <1>3 DEF Inv

-----------------------------------------------------------------------------
(* The invariant holds in every reachable state of withRetry. *)
THEOREM BackoffInvariant == Spec => []Inv
  <1>1. Init => Inv
    BY InitInv
  <1>2. Inv /\ [Next]_vars => Inv'
    <2> SUFFICES ASSUME Inv, [Next]_vars PROVE Inv'
      OBVIOUS
    <2>1. CASE UNCHANGED vars
      <3>1. UNCHANGED <<worker, pc, attempt, i, delay, last, slept>>
        BY <2>1 DEF vars
      <3>2. PlaceInv'
        BY <3>1 DEF Inv, PlaceInv
      <3>3. DelayInv'
        BY <3>1, WorkerStands DEF Inv, DelayInv
      <3>4. SleepInv'
        BY <3>1, SleepFrame DEF Inv
      <3> QED
        BY <3>2, <3>3, <3>4 DEF Inv
    <2> QED
      BY <2>1, CallFailsInv, DoubleInv, SleepStepInv, ReturnInv DEF Next
  <1> QED
    BY <1>1, <1>2, PTL DEF Spec

(* TypeOK of RetryBackoff: no delay overflows its width or gets lost       *)
(* while it is doubled and jittered, whatever is configured.               *)
THEOREM BackoffTyped == Spec => []TypeOK
  <1>1. Inv => TypeOK
    BY DEF Inv, PlaceInv, DelayInv, SleepInv, TypeOK
  <1> QED
    BY <1>1, BackoffInvariant, PTL

-----------------------------------------------------------------------------
(* The first delay is the base, times the power with no factor. *)
LEMMA CallFailsDoubling == ASSUME Inv, CallFails PROVE DoublingInv'
  <1>1. i' = 1 /\ delay' = BaseBackoff /\ attempt' = attempt /\ worker' = worker
    BY DEF CallFails
  <1>2. attempt \geq 1 /\ BaseBackoff \in Nat
    BY BackoffAssumption, Corrections DEF Inv, PlaceInv, Corrected
  <1>3. PowerOfTwo[i' - 1] = 1
    BY <1>1, PowerRecursion
  <1>4. delay' = BaseBackoff' * PowerOfTwo[i' - 1]
    BY <1>1, <1>2, <1>3, WorkerStands
  <1> QED
    BY <1>1, <1>2, <1>4 DEF DoublingInv

(* A turn of the loop adds a factor, or leaves because one more would      *)
(* reach the cap.                                                          *)
LEMMA DoubleDoubling == ASSUME Inv, DoublingInv, Double PROVE DoublingInv'
  <1> DEFINE p == PowerOfTwo[i - 1]
             q == PowerOfTwo[i]
             r == PowerOfTwo[attempt - 1]
  <1>1. /\ pc = "double" /\ i < attempt
        /\ UNCHANGED <<worker, pc, attempt>>
    BY DEF Double
  <1>2. Corrected /\ delay \in BaseBackoff..MaxBackoff
    BY <1>1, Corrections DEF Inv, PlaceInv, DelayInv
  <1>3. i \in Nat /\ attempt \in Nat /\ i \geq 1 /\ i \leq attempt - 1
    BY <1>1, BackoffAssumption DEF Inv, PlaceInv
  <1>4. delay = BaseBackoff * p
    BY <1>1, <1>3 DEF DoublingInv
  <1>5. p \in Nat /\ q = 2 * p /\ r \in Nat /\ q \leq r
    <2>1. i - 1 \in Nat /\ attempt - 1 \in Nat /\ i # 0
      BY <1>3
    <2> QED
      BY <1>3, <2>1, PowerRecursion, PowerPositive, PowerMonotone
  <1>6. BaseBackoff \in Nat /\ MaxBackoff \in Nat /\ MaxInt \in Nat /\ MaxBackoff \leq MaxInt
    BY <1>2 DEF Corrected
  <1> HIDE DEF p, q, r
  <1>7. BaseBackoff * q = delay * 2
    BY <1>4, <1>5, <1>6
  <1>8. CASE delay \geq MaxBackoff \div 2
    <2>1. delay' = MaxBackoff /\ i' = attempt
      BY <1>8 DEF Double
    <2>2. MaxBackoff \leq delay * 2 + 1
      BY <1>2, <1>6, <1>8
    <2>3. BaseBackoff * q \leq BaseBackoff * r
      BY <1>5, <1>6
    <2>4. MaxBackoff \leq BaseBackoff * r + 1
      <3>1. BaseBackoff * r \in Nat /\ delay \in Nat
        BY <1>2, <1>5, <1>6
      <3> QED
        BY <1>6, <1>7, <2>2, <2>3, <3>1
    <2>5. MaxBackoff' \leq BaseBackoff' * PowerOfTwo[attempt' - 1] + 1
      BY <1>1, <2>4, WorkerStands DEF r
    <2> QED
      BY <1>1, <1>3, <2>1, <2>5, WorkerStands DEF DoublingInv
  <1>9. CASE ~(delay \geq MaxBackoff \div 2)
    <2>1. delay * 2 \in Nat /\ delay * 2 \leq MaxBackoff /\ delay * 2 \leq MaxInt
      BY <1>2, <1>6, <1>9
    <2>2. Wrap(delay * 2) = delay * 2
      BY <1>6, <2>1, Wraps
    <2>3. delay' = delay * 2 /\ i' = i + 1
      BY <1>6, <1>9, <2>1, <2>2 DEF Double
    <2>4. i' - 1 = i /\ i' \leq attempt
      BY <1>3, <2>3
    <2>5. delay' = BaseBackoff' * PowerOfTwo[i' - 1]
      BY <1>1, <1>7, <2>3, <2>4, WorkerStands DEF q
    <2> QED
      BY <1>1, <2>4, <2>5 DEF DoublingInv
  <1> QED
    BY <1>8, <1>9

(* DoublingInv holds in every reachable state: only these two steps end in *)
(* the loop.                                                               *)
LEMMA DoublingInvariant == Spec => []DoublingInv
  <1>1. Init => DoublingInv
    BY DEF Init, DoublingInv
  <1>2. Inv /\ DoublingInv /\ [Next]_vars => DoublingInv'
    <2> SUFFICES ASSUME Inv, DoublingInv, [Next]_vars PROVE DoublingInv'
      OBVIOUS
    <2>1. CASE Sleep \/ Return \/ Interrupted
      BY <2>1 DEF Sleep, Return, Interrupted, DoublingInv
    <2>2. CASE UNCHANGED vars
      BY <2>2, WorkerStands DEF vars, DoublingInv
    <2> QED
      BY <2>1, <2>2, CallFailsDoubling, DoubleDoubling DEF Next
  <1> QED
    BY <1>1, <1>2, BackoffInvariant, PTL DEF Spec

(* BackoffDoublesToCap: the loop ends with base times a power of two, or   *)
(* with the cap where that is smaller, one unit early where the cap is     *)
(* odd; for every width, base, cap and number of attempts.                 *)
THEOREM BackoffDoubles == Spec => []BackoffDoublesToCap
  <1>1. ASSUME Inv, DoublingInv, pc = "double", i = attempt,
               NEW reference, reference = Smaller(BaseBackoff * PowerOfTwo[attempt - 1], MaxBackoff)
        PROVE  delay \in {reference, Smaller(reference + 1, MaxBackoff)}
    <2> DEFINE d == BaseBackoff * PowerOfTwo[attempt - 1]
    <2>1. delay \in BaseBackoff..MaxBackoff /\ BaseBackoff \in Nat /\ MaxBackoff \in Nat
      BY <1>1, Corrections DEF Inv, PlaceInv, DelayInv, Corrected
    <2>2. attempt - 1 \in Nat
      BY <1>1, BackoffAssumption DEF Inv, PlaceInv
    <2>3. d \in Nat
      BY <2>1, <2>2, PowerPositive
    <2>4. delay = d \/ (delay = MaxBackoff /\ MaxBackoff \leq d + 1)
      BY <1>1 DEF DoublingInv
    <2>5. reference = IF d \leq MaxBackoff THEN d ELSE MaxBackoff
      BY <1>1 DEF Smaller
    <2> HIDE DEF d
    <2> QED
      BY <2>1, <2>3, <2>4, <2>5 DEF Smaller
  <1>2. Inv /\ DoublingInv => BackoffDoublesToCap
    BY <1>1 DEF BackoffDoublesToCap
  <1> QED
    BY <1>2, BackoffInvariant, DoublingInvariant, PTL

(* SleepsAreBounded: an operation sleeps no longer than the jittered cap   *)
(* after each attempt but the last, and unless the jitter may be the whole *)
(* delay no attempt follows at once.                                       *)
THEOREM BackoffBounded == Spec => []SleepsAreBounded
  <1>1. ASSUME Inv PROVE SleepsAreBounded
    <2>1. Corrected
      BY <1>1, Corrections DEF Inv, PlaceInv
    <2>2. Longest \in Nat
      BY <2>1, LongestNat
    <2>3. attempt \in 1..RetryMaxAttempts /\ RetryMaxAttempts \in Nat
      BY <1>1, BackoffAssumption DEF Inv, PlaceInv
    <2>4. slept \in Nat /\ slept \leq (attempt - 1) * Longest
      BY <1>1 DEF Inv, SleepInv
    <2>5. (attempt - 1) * Longest \leq (RetryMaxAttempts - 1) * Longest
      BY <2>2, <2>3
    <2>6. slept \leq (RetryMaxAttempts - 1) * Longest
      BY <2>2, <2>3, <2>4, <2>5
    <2> QED
      BY <1>1, <2>6 DEF Inv, SleepInv, SleepsAreBounded, Longest
  <1> QED
    BY <1>1, BackoffInvariant, PTL
=============================================================================
