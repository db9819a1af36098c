------------------------- MODULE TimingWheelProofs -------------------------
(***************************************************************************)
(* Proofs about the timing wheel of CHRONOS, for any jobs, tick, number    *)
(* and sizes of levels and lag.  That jobs do not fire early and that      *)
(* positions are right needs nothing of the sizes; that no job is stuck    *)
(* needs RotationAssumption, which the shipped sizes satisfy.              *)
(*                                                                         *)
(* The invariant names the tick a copy waits for.  On level 0 it is the    *)
(* next one with the bucket's residue, less than a rotation away           *)
(* (EarlyInv) and in time (LateInv); above, it is a tick that cascades the *)
(* level while the wheel is in the copy's bucket and that comes before the *)
(* copy is due: the last multiple of the level's period up to its target.  *)
(* What the recursive functions powers and wheelDurations hold is shown    *)
(* through the least level at which it would not be so.                    *)
(***************************************************************************)
EXTENDS TimingWheel, NaturalsInduction, WellFoundedInduction, TLAPS

\* A set of naturals that has a member has a least one.
LEMMA LeastExists ==
    ASSUME NEW S, S \subseteq Nat, S # {}
    PROVE  \E i \in S : \A k \in S : i <= k
<1>1. \E R : IsWellFoundedOn(R, Nat) /\ \A i, k \in Nat : k < i => <<k, i>> \in R
  <2>1. \A i, k \in Nat : k < i => <<k, i>> \in OpToRel(<, Nat)
    BY DEF OpToRel
  <2>2. QED
    BY <2>1, NatLessThanWellFounded, Zenon
<1>2. PICK R : IsWellFoundedOn(R, Nat) /\ \A i, k \in Nat : k < i => <<k, i>> \in R
  BY <1>1
<1>3. PICK i \in S : \A k \in S : ~ (<<k, i>> \in R)
  BY <1>2, WFMin
<1>4. \A k \in S : i \in Nat /\ k \in Nat /\ ~ (k < i)
  BY <1>2, <1>3
<1>5. QED
  BY <1>4

\* The levels are numbered from 0 and no size is 0.
LEMMA Sizes ==
    /\ Len(WheelSizes) \in Nat /\ Len(WheelSizes) > 1
    /\ Levels = 0 .. (Len(WheelSizes) - 1) /\ 0 \in Levels
    /\ \A l \in Levels : l \in Nat /\ Size(l) \in Nat \ {0} /\ (l > 0 => l - 1 \in Levels)
    /\ wheelSize \in Nat \ {0} /\ wheelSize = Size(0)
BY WheelAssumption DEF Levels, Size, wheelSize

\* The recursive definition of powers has a solution up to any level.
LEMMA PowersUpTo ==
    \A n \in Levels : \E f : f = [l \in 0 .. n |-> IF l = 0 THEN 1 ELSE f[l - 1] * wheelSize]
<1> DEFINE Solves(f, n) == f = [l \in 0 .. n |-> IF l = 0 THEN 1 ELSE f[l - 1] * wheelSize]
           Bad == {n \in Levels : ~ \E f : Solves(f, n)}
<1>1. SUFFICES ASSUME Bad # {} PROVE FALSE
  OBVIOUS
<1>2. PICK n \in Bad : \A k \in Bad : n <= k
  BY <1>1, LeastExists, Sizes
<1>3. n \in Levels /\ n \in Nat /\ ~ \E f : Solves(f, n)
  BY <1>2, Sizes
<1>4. CASE n = 0
  <2>1. Solves([l \in 0 .. 0 |-> 1], 0)
    OBVIOUS
  <2>2. QED
    BY <2>1, <1>3, <1>4
<1>5. CASE n > 0
  <2>1. n - 1 \in Levels
    BY <1>3, <1>5, Sizes
  <2>a. n - 1 \notin Bad
    <3> HIDE DEF Bad
    <3>1. ~ (n <= n - 1)
      BY <1>3
    <3>2. QED
      BY <1>2, <3>1
  <2>2. PICK f : Solves(f, n - 1)
    BY <2>1, <2>a
  <2> DEFINE g == [l \in 0 .. n |-> IF l = n THEN f[n - 1] * wheelSize ELSE f[l]]
  <2>3. \A l \in 0 .. n : g[l] = IF l = 0 THEN 1 ELSE g[l - 1] * wheelSize
    BY <1>3, <1>5, <2>2
  <2>4. Solves(g, n)
    BY <2>3
  <2>5. QED
    BY <2>4, <1>3
<1>6. QED
  BY <1>3, <1>4, <1>5

\* What powers holds.
LEMMA Powers ==
    /\ powers[0] = 1
    /\ \A l \in Levels : powers[l] \in Nat \ {0}
<1>1. \E f : f = [l \in Levels |-> IF l = 0 THEN 1 ELSE f[l - 1] * wheelSize]
  <2>1. Len(WheelSizes) - 1 \in Levels
    BY Sizes
  <2>2. PICK f : f = [l \in 0 .. (Len(WheelSizes) - 1) |-> IF l = 0 THEN 1 ELSE f[l - 1] * wheelSize]
    BY <2>1, PowersUpTo
  <2>3. QED
    BY <2>2 DEF Levels
<1>2. powers = [l \in Levels |-> IF l = 0 THEN 1 ELSE powers[l - 1] * wheelSize]
  BY <1>1 DEF powers
<1>3. \A l \in Levels : powers[l] = IF l = 0 THEN 1 ELSE powers[l - 1] * wheelSize
  BY <1>2
<1> DEFINE Bad == {l \in Levels : powers[l] \notin Nat \ {0}}
<1>4. SUFFICES ASSUME Bad # {} PROVE FALSE
  BY <1>3, Sizes
<1>5. PICK n \in Bad : \A k \in Bad : n <= k
  BY <1>4, LeastExists, Sizes
<1>6. n \in Nat /\ n \in Levels /\ n # 0
  BY <1>3, <1>5, Sizes
<1>7. n - 1 \in Levels /\ n - 1 \notin Bad
  BY <1>5, <1>6, Sizes
<1>8. powers[n - 1] \in Nat \ {0} /\ powers[n] = powers[n - 1] * wheelSize
  BY <1>3, <1>6, <1>7
<1>9. QED
  BY <1>5, <1>8, Sizes


\* The same for wheelDurations.
LEMMA DurationsUpTo ==
    \A n \in Levels : \E f : f = [l \in 0 .. n |-> IF l = 0 THEN TickDuration ELSE f[l - 1] * Size(l - 1)]
<1> DEFINE Solves(f, n) == f = [l \in 0 .. n |-> IF l = 0 THEN TickDuration ELSE f[l - 1] * Size(l - 1)]
           Bad == {n \in Levels : ~ \E f : Solves(f, n)}
<1>1. SUFFICES ASSUME Bad # {} PROVE FALSE
  OBVIOUS
<1>2. PICK n \in Bad : \A k \in Bad : n <= k
  BY <1>1, LeastExists, Sizes
<1>3. n \in Levels /\ n \in Nat /\ ~ \E f : Solves(f, n)
  BY <1>2, Sizes
<1>4. CASE n = 0
  <2>1. Solves([l \in 0 .. 0 |-> TickDuration], 0)
    OBVIOUS
  <2>2. QED
    BY <2>1, <1>3, <1>4
<1>5. CASE n > 0
  <2>1. n - 1 \in Levels
    BY <1>3, <1>5, Sizes
  <2>2. n - 1 \notin Bad
    <3> HIDE DEF Bad
    <3>1. ~ (n <= n - 1)
      BY <1>3
    <3>2. QED
      BY <1>2, <3>1
  <2>3. PICK f : Solves(f, n - 1)
    BY <2>1, <2>2
  <2> DEFINE g == [l \in 0 .. n |-> IF l = n THEN f[n - 1] * Size(n - 1) ELSE f[l]]
  <2>4. \A l \in 0 .. n : g[l] = IF l = 0 THEN TickDuration ELSE g[l - 1] * Size(l - 1)
    BY <1>3, <1>5, <2>3
  <2>5. Solves(g, n)
    BY <2>4
  <2>6. QED
    BY <2>5, <1>3
<1>6. QED
  BY <1>3, <1>4, <1>5

\* What wheelDurations holds: the span of a level's bucket is that of all the
\* buckets of the level below.
LEMMA Durations ==
    /\ wheelDurations[0] = TickDuration
    /\ \A l \in Levels : l > 0 => wheelDurations[l] = wheelDurations[l - 1] * Size(l - 1)
    /\ \A l \in Levels : wheelDurations[l] \in Nat \ {0}
<1>1. \E f : f = [l \in Levels |-> IF l = 0 THEN TickDuration ELSE f[l - 1] * Size(l - 1)]
  <2>1. Len(WheelSizes) - 1 \in Levels
    BY Sizes
  <2>2. PICK f : f = [l \in 0 .. (Len(WheelSizes) - 1) |-> IF l = 0 THEN TickDuration ELSE f[l - 1] * Size(l - 1)]
    BY <2>1, DurationsUpTo
  <2>3. QED
    BY <2>2 DEF Levels
<1>2. wheelDurations = [l \in Levels |-> IF l = 0 THEN TickDuration ELSE wheelDurations[l - 1] * Size(l - 1)]
  BY <1>1 DEF wheelDurations
<1>3. \A l \in Levels : wheelDurations[l] = IF l = 0 THEN TickDuration ELSE wheelDurations[l - 1] * Size(l - 1)
  BY <1>2
<1>a. wheelDurations[0] = TickDuration
  BY <1>3, Sizes
<1>b. \A l \in Levels : l > 0 => wheelDurations[l] = wheelDurations[l - 1] * Size(l - 1)
  <2>1. \A l \in Levels : l > 0 => l # 0
    BY Sizes
  <2>2. QED
    BY <1>3, <2>1
<1> DEFINE Bad == {l \in Levels : wheelDurations[l] \notin Nat \ {0}}
<1>4. SUFFICES ASSUME Bad # {} PROVE FALSE
  BY <1>a, <1>b
<1>5. PICK n \in Bad : \A k \in Bad : n <= k
  BY <1>4, LeastExists, Sizes
<1>6. n \in Nat /\ n \in Levels /\ n # 0
  BY <1>3, <1>5, Sizes, WheelAssumption
<1>7. n - 1 \in Levels /\ n - 1 \notin Bad
  BY <1>5, <1>6, Sizes
<1>8. wheelDurations[n - 1] \in Nat \ {0} /\ wheelDurations[n] = wheelDurations[n - 1] * Size(n - 1)
  BY <1>3, <1>6, <1>7
<1>9. QED
  BY <1>5, <1>7, <1>8, Sizes

-----------------------------------------------------------------------------
(* Arithmetic.                                                             *)

\* Quotient and remainder.
LEMMA DivMod ==
    ASSUME NEW a \in Nat, NEW n \in Nat \ {0}
    PROVE  /\ a \div n \in Nat /\ a % n \in 0 .. (n - 1)
           /\ a = n * (a \div n) + (a % n)
OBVIOUS

\* They are the only ones.
LEMMA QuotientIs ==
    ASSUME NEW n \in Nat \ {0}, NEW q \in Nat, NEW r \in 0 .. (n - 1)
    PROVE  (n * q + r) \div n = q /\ (n * q + r) % n = r
OBVIOUS

\* Two numbers of the same residue are less than n apart only when equal.
LEMMA SameResidue ==
    ASSUME NEW n \in Nat \ {0}, NEW a \in Nat, NEW b \in Nat, a % n = b % n, b < a + n
    PROVE  b <= a
<1> SUFFICES ASSUME b > a PROVE FALSE
  OBVIOUS
<1>1. /\ a \div n \in Nat /\ b \div n \in Nat
      /\ a = n * (a \div n) + (a % n) /\ b = n * (b \div n) + (b % n)
  BY DivMod
<1> DEFINE x == a \div n
           y == b \div n
           r == a % n
<1>2. x \in Nat /\ y \in Nat /\ r \in Int /\ a = n * x + r /\ b = n * y + r
  BY <1>1, DivMod
<1> HIDE DEF x, y, r
<1>3. n * (y - x) = b - a
  BY <1>2
<1>4. CASE y - x <= 0
  BY <1>2, <1>3, <1>4
<1>5. CASE y - x >= 1
  <2>1. n * (y - x) >= n
    BY <1>2, <1>5
  <2>2. QED
    BY <2>1, <1>3
<1>6. QED
  BY <1>2, <1>4, <1>5

\* Divisibility is transitive.
LEMMA Divides ==
    ASSUME NEW n \in Nat \ {0}, NEW p \in Nat \ {0}, NEW a \in Nat, p % n = 0, a % p = 0
    PROVE  a % n = 0
<1>1. /\ p \div n \in Nat /\ a \div p \in Nat
      /\ p = n * (p \div n) /\ a = p * (a \div p)
  <2>1. p = n * (p \div n) + (p % n) /\ a = p * (a \div p) + (a % p)
    BY DivMod
  <2>2. p \div n \in Nat /\ a \div p \in Nat
    BY DivMod
  <2>3. QED
    BY <2>1, <2>2
<1> DEFINE x == p \div n
           y == a \div p
<1>2. x \in Nat /\ y \in Nat /\ p = n * x /\ a = p * y
  BY <1>1
<1> HIDE DEF x, y
<1>3. a = n * (x * y) + 0 /\ x * y \in Nat
  BY <1>2
<1>4. QED
  BY <1>3, QuotientIs, SMTT(30)

\* The last multiple of p up to a lies in the same span of v as a.
LEMMA LastMultiple ==
    ASSUME NEW p \in Nat \ {0}, NEW v \in Nat \ {0}, v % p = 0, NEW a \in Nat
    PROVE  /\ a - (a % p) \in Nat /\ (a - (a % p)) % p = 0
           /\ a - (a % p) > a - p /\ a - (a % p) <= a
           /\ (a - (a % p)) \div v = a \div v
<1> DEFINE t == a - (a % p)
           k == a \div p
           e == v \div p
           q == a \div v
           s == a % v
<1>1. /\ k \in Nat /\ t = p * k /\ a % p \in 0 .. (p - 1)
  <2>1. k \in Nat /\ a % p \in 0 .. (p - 1) /\ a = p * k + (a % p)
    BY DivMod
  <2> DEFINE r == a % p
             m == p * k
  <2>2. r \in Int /\ m \in Nat /\ a = m + r
    BY <2>1
  <2> HIDE DEF r, m
  <2>3. a - r = m
    BY <2>2
  <2>4. QED
    BY <2>1, <2>3 DEF r, m
<1>2. q \in Nat /\ s \in 0 .. (v - 1) /\ a = v * q + s
  BY DivMod
<1>3. e \in Nat /\ v = p * e
  <2>1. e \in Nat /\ v = p * e + (v % p)
    BY DivMod
  <2>2. QED
    BY <2>1
<1>4. t \in Nat /\ t > a - p /\ t <= a
  BY <1>1
<1>5. t % p = 0
  <2>1. t = p * k + 0
    BY <1>1
  <2>2. QED
    BY <2>1, <1>1, QuotientIs, SMTT(30)
<1> HIDE DEF t, k, e, q, s
<1>6. v * q <= t
  <2> SUFFICES ASSUME t < v * q PROVE FALSE
    BY <1>2, <1>4
  <2>1. v * q = p * (e * q) /\ e * q \in Nat
    BY <1>2, <1>3
  <2>2. p * (e * q - k) > 0 /\ p * (e * q - k) < p
    <3>1. p * (e * q - k) = v * q - t
      BY <2>1, <1>1
    <3>2. v * q <= a
      BY <1>2
    <3>3. QED
      BY <3>1, <3>2, <1>2, <1>4
  <2> DEFINE z == e * q - k
  <2>3. z \in Int /\ p * z > 0 /\ p * z < p
    BY <2>1, <2>2, <1>1
  <2> HIDE DEF z
  <2>4. CASE z >= 1
    <3>1. p * z >= p /\ p * z \in Int
      BY <2>4, <2>3
    <3>2. QED
      BY <3>1, <2>3
  <2>5. CASE z <= 0
    <3>1. p * z <= 0 /\ p * z \in Int
      BY <2>5, <2>3
    <3>2. QED
      BY <3>1, <2>3
  <2>6. QED
    BY <2>3, <2>4, <2>5
<1>7. t = v * q + (t - v * q) /\ t - v * q \in 0 .. (v - 1)
  BY <1>2, <1>4, <1>6
<1>8. t \div v = q
  BY <1>2, <1>7, QuotientIs
<1>9. QED
  BY <1>4, <1>5, <1>8 DEF t, q


-----------------------------------------------------------------------------
(* Where a job is put.                                                     *)

\* The level holds the delay, and all levels below are too short for it.
LEMMA LevelOf ==
    ASSUME NEW delay \in Nat
    PROVE  /\ determineWheelLevel(delay) \in Levels
           /\ determineWheelLevel(delay) = 0 => delay < TickDuration * wheelSize
           /\ determineWheelLevel(delay) > 0 =>
                 delay >= wheelDurations[determineWheelLevel(delay)]
<1> DEFINE fits == {i \in Levels : delay < wheelDurations[i] * Size(i)}
           top == Len(WheelSizes) - 1
           level == determineWheelLevel(delay)
<1>1. fits \subseteq Nat
  BY Sizes
<1>2. level = IF fits = {} THEN top ELSE CHOOSE i \in fits : \A k \in fits : i <= k
  BY DEF determineWheelLevel
<1> HIDE DEF level
<1>3. top \in Levels /\ top > 0
  BY Sizes
<1>4. level \in Levels /\ \A i \in Levels : i < level => i \notin fits
  <2>1. CASE fits = {}
    BY <2>1, <1>2, <1>3
  <2>2. CASE fits # {}
    <3>1. \E i \in fits : \A k \in fits : i <= k
      BY <2>2, <1>1, LeastExists
    <3> HIDE DEF fits
    <3>2. level \in fits /\ \A k \in fits : level <= k
      BY <3>1, <1>2, <2>2
    <3>3. \A i \in Levels : i < level => i \notin fits
      <4>1. level \in Nat
        BY <3>2, <1>1
      <4>2. \A i \in Levels : i \in Nat
        BY Sizes
      <4>3. \A i \in Levels : i < level => ~ (level <= i)
        BY <4>1, <4>2
      <4>4. QED
        BY <3>2, <4>3
    <3>4. QED
      BY <3>2, <3>3 DEF fits
  <2>3. QED
    BY <2>1, <2>2
<1>5. level = 0 => level \in fits
  <2>1. CASE fits = {}
    <3> HIDE DEF fits, top
    <3>1. level = top
      BY <2>1, <1>2
    <3>2. ~ (0 > 0)
      OBVIOUS
    <3>3. QED
      BY <3>1, <3>2, <1>3
  <2>2. CASE fits # {}
    <3>1. \E i \in fits : \A k \in fits : i <= k
      BY <2>2, <1>1, LeastExists
    <3> HIDE DEF fits
    <3>2. QED
      BY <3>1, <1>2, <2>2
  <2>3. QED
    BY <2>1, <2>2
<1>6. level = 0 => delay < TickDuration * wheelSize
  BY <1>5, Durations, Sizes
<1>7. level > 0 => delay >= wheelDurations[level]
  <2> SUFFICES ASSUME level > 0 PROVE delay >= wheelDurations[level]
    OBVIOUS
  <2>1. level - 1 \in Levels /\ level - 1 < level
    BY <1>4, Sizes
  <2>2. ~ (delay < wheelDurations[level - 1] * Size(level - 1))
    BY <2>1, <1>4
  <2>3. wheelDurations[level] = wheelDurations[level - 1] * Size(level - 1)
        /\ wheelDurations[level] \in Nat
    BY <1>4, Durations
  <2>4. QED
    BY <2>2, <2>3
<1>8. QED
  BY <1>4, <1>6, <1>7 DEF level

Copies == Jobs \X Nat \X Nat

\* Types; wheels is a function of levels and buckets.
WheelTypes ==
    /\ sched \in [Jobs -> Nat] /\ clock \in Nat /\ currentTick \in Nat
    /\ copies \in [Jobs -> Nat]
    /\ wheels = [l \in Levels |-> [b \in Buckets[l] |-> wheels[l][b]]]
    /\ \A l \in Levels : \A b \in Buckets[l] : wheels[l][b] \subseteq Copies

\* The scheduler is at most MaxLag ticks behind the clock and never ahead of it.
ClockFits ==
    /\ clock <= (currentTick + MaxLag) * TickDuration
    /\ (currentTick - 1) * TickDuration <= clock

\* A bucket's index lies within its level.
LEMMA BucketIs ==
    ASSUME NEW l \in Levels, NEW t \in Nat
    PROVE  /\ bucketOf(t, l) \in Buckets[l]
           /\ bucketOf(t, 0) = t % wheelSize
<1>1. powers[l] \in Nat \ {0} /\ Size(l) \in Nat \ {0}
  BY Powers, Sizes
<1>2. t \div powers[l] \in Nat
  BY <1>1, DivMod
<1>3. bucketOf(t, l) \in Buckets[l]
  BY <1>1, <1>2, DivMod DEF bucketOf, Buckets
<1>4. t \div powers[0] = t
  BY Powers
<1>5. QED
  BY <1>3, <1>4, Sizes DEF bucketOf

\* addJob puts j where the wheel will be at a tick T: not before its time but for
\* the lag, not after the tick that follows its time, less than a rotation away
\* on level 0 and at least the span of a bucket on the others.
LEMMA PlaceIs ==
    ASSUME WheelTypes, ClockFits, NEW j \in Jobs
    PROVE  \E l \in Levels, T \in Nat :
              /\ place(j) = <<l, bucketOf(T, l)>>
              /\ T >= currentTick
              /\ sched[j] < (T + MaxLag + 1) * TickDuration
              /\ l = 0 => T < currentTick + wheelSize
              /\ l > 0 => (T - currentTick + 1) * TickDuration > wheelDurations[l]
              /\ l > 0 => sched[j] >= clock
              /\ IF sched[j] < clock THEN T = currentTick
                                     ELSE T <= (sched[j] \div TickDuration) + 1
<1> DEFINE delay == IF sched[j] < clock THEN 0 ELSE sched[j] - clock
           l == determineWheelLevel(delay)
           d == delay \div TickDuration
           r == delay % TickDuration
           T == currentTick + d
<1> USE WheelAssumption
<1>1. sched[j] \in Nat /\ clock \in Nat /\ currentTick \in Nat
  BY DEF WheelTypes
<1>2. delay \in Nat /\ sched[j] <= clock + delay
  BY <1>1
<1>3. place(j) = <<l, bucketOf(T, l)>>
  BY DEF place
<1>4. l \in Levels /\ (l = 0 => delay < TickDuration * wheelSize)
                   /\ (l > 0 => delay >= wheelDurations[l])
  BY <1>2, LevelOf
<1>5. d \in Nat /\ r \in 0 .. (TickDuration - 1) /\ delay = TickDuration * d + r
  BY <1>2, DivMod
<1>6. sched[j] < clock => delay = 0
  OBVIOUS
<1>7. sched[j] >= clock => sched[j] = clock + delay
  BY <1>1
<1> HIDE DEF delay, l, d, r
<1>8. T \in Nat /\ T >= currentTick
  BY <1>1, <1>5
<1>9. sched[j] < (T + MaxLag + 1) * TickDuration
  <2>1. (T + MaxLag + 1) * TickDuration
            = (currentTick + MaxLag) * TickDuration + TickDuration * d + TickDuration
    BY <1>1, <1>5
  <2>2. QED
    BY <2>1, <1>1, <1>2, <1>5 DEF ClockFits
<1>10. l = 0 => T < currentTick + wheelSize
  <2> SUFFICES ASSUME l = 0, d >= wheelSize PROVE FALSE
    BY <1>1, <1>5, Sizes
  <2>1. TickDuration * d >= TickDuration * wheelSize
    BY <1>5, Sizes
  <2>2. TickDuration * d \in Int /\ TickDuration * wheelSize \in Int
    BY <1>5, Sizes
  <2>3. delay >= TickDuration * d /\ delay < TickDuration * wheelSize
    BY <2>2, <1>4, <1>5
  <2>4. QED
    BY <2>1, <2>2, <2>3, <1>2
<1>11. l > 0 => (T - currentTick + 1) * TickDuration > wheelDurations[l]
  <2> SUFFICES ASSUME l > 0 PROVE (T - currentTick + 1) * TickDuration > wheelDurations[l]
    OBVIOUS
  <2>1. (T - currentTick + 1) * TickDuration = TickDuration * d + TickDuration
    BY <1>1, <1>5
  <2>2. wheelDurations[l] \in Nat
    BY <1>4, Durations
  <2>3. QED
    BY <2>1, <2>2, <1>4, <1>5
<1>12. l > 0 => sched[j] >= clock
  <2> SUFFICES ASSUME l > 0, sched[j] < clock PROVE FALSE
    BY <1>1
  <2>1. wheelDurations[l] \in Nat \ {0}
    BY <1>4, Durations
  <2>2. QED
    BY <2>1, <1>4, <1>6
<1>13. sched[j] < clock => T = currentTick
  <2> SUFFICES ASSUME sched[j] < clock PROVE d = 0
    BY <1>1
  <2>1. TickDuration * d + r = 0
    BY <1>5, <1>6
  <2>2. CASE d >= 1
    <3>1. TickDuration * d >= TickDuration
      BY <2>2, <1>5
    <3>2. QED
      BY <3>1, <2>1, <1>5
  <2>3. QED
    BY <2>2, <1>5
<1>14. sched[j] >= clock => T <= (sched[j] \div TickDuration) + 1
  <2> SUFFICES ASSUME sched[j] >= clock PROVE T <= (sched[j] \div TickDuration) + 1
    OBVIOUS
  <2> DEFINE q == sched[j] \div TickDuration
             s == sched[j] % TickDuration
  <2>1. q \in Nat /\ s \in 0 .. (TickDuration - 1) /\ sched[j] = TickDuration * q + s
    BY <1>1, DivMod
  <2> HIDE DEF q, s
  <2>2. TickDuration * (T - 1) <= sched[j]
    <3>1. TickDuration * (T - 1) = (currentTick - 1) * TickDuration + TickDuration * d
      BY <1>1, <1>5
    <3>2. QED
      BY <3>1, <1>1, <1>5, <1>7 DEF ClockFits
  <2>3. CASE T - 1 >= q + 1
    <3>1. TickDuration * (T - 1) >= TickDuration * (q + 1)
      <4> DEFINE x == T - 1
                 y == q + 1
      <4>1. x \in Int /\ y \in Int /\ x >= y
        BY <2>3, <2>1, <1>8
      <4> HIDE DEF x, y
      <4>2. TickDuration * x >= TickDuration * y
        BY <4>1
      <4>3. QED
        BY <4>2 DEF x, y
    <3>2. TickDuration * (q + 1) = TickDuration * q + TickDuration
      BY <2>1
    <3>3. TickDuration * (T - 1) \in Int /\ TickDuration * q \in Int
      BY <1>8, <2>1
    <3> HIDE DEF T
    <3>4. QED
      BY <3>1, <3>2, <3>3, <2>1, <2>2, SMTT(30)
  <2>4. QED
    BY <2>1, <2>3, <1>8 DEF q
<1>15. QED
  BY <1>1, <1>3, <1>4, <1>8, <1>9, <1>10, <1>11, <1>12, <1>13, <1>14, SMTT(30)


-----------------------------------------------------------------------------
(* What a tick does.                                                       *)

\* The levels a tick cascades, the buckets it empties and the copies it moves.
Reached == {l \in Levels \ {0} : rotated /\ reaches(l)}

Swept(l, b) ==
    \/ l = 0 /\ b = currentTick % wheelSize
    \/ l \in Reached /\ b = bucketOf(currentTick, l)

Cast == UNION {wheels[l][bucketOf(currentTick, l)] : l \in Reached}

\* Bucket by bucket: what is swept goes, what is cast comes to its place.
LEMMA TickWheels ==
    ASSUME WheelTypes, tick
    PROVE  /\ wheels' = [l \in Levels |-> [b \in Buckets[l] |-> wheels'[l][b]]]
           /\ \A l \in Levels : \A b \in Buckets[l] :
                 wheels'[l][b] = (IF Swept(l, b) THEN {} ELSE wheels[l][b])
                                   \cup {c \in Cast : place(c[1]) = <<l, b>>}
           /\ jobPositions' = positionsAfter(jobsIn(wheels[0][currentTick % wheelSize]), jobsIn(Cast))
<1> DEFINE b0 == currentTick % wheelSize
           left == drained(wheels, 0, b0)
<1>0. 0 \in Levels /\ currentTick \in Nat /\ b0 \in Buckets[0]
  BY Sizes, DivMod DEF WheelTypes, Buckets
<1>1. \A l \in Levels : l # 0 => left[l] = wheels[l]
  BY <1>0 DEF drained, WheelTypes
<1>2. \A b \in Buckets[0] : left[0][b] = IF b = b0 THEN {} ELSE wheels[0][b]
  <2>1. wheels = [l \in Levels |-> [b \in Buckets[l] |-> wheels[l][b]]]
    BY DEF WheelTypes
  <2>2. DOMAIN wheels = Levels /\ DOMAIN wheels[0] = Buckets[0]
    BY <2>1, <1>0
  <2>3. left[0] = [wheels[0] EXCEPT ![b0] = {}]
    BY <2>2, <1>0 DEF drained
  <2>4. QED
    BY <2>2, <2>3
<1>3. left = [l \in Levels |-> [b \in Buckets[l] |-> left[l][b]]]
  <2>1. wheels = [l \in Levels |-> [b \in Buckets[l] |-> wheels[l][b]]]
    BY DEF WheelTypes
  <2>2. DOMAIN wheels = Levels /\ \A l \in Levels : wheels[l] = [b \in Buckets[l] |-> wheels[l][b]]
    BY <2>1
  <2>3. left[0] = [wheels[0] EXCEPT ![b0] = {}] /\ left = [wheels EXCEPT ![0] = left[0]]
    BY <2>2, <1>0 DEF drained
  <2>4. left[0] = [b \in Buckets[0] |-> left[0][b]]
    BY <2>2, <2>3, <1>0
  <2> HIDE DEF left
  <2>5. \A l \in Levels : left[l] = [b \in Buckets[l] |-> left[l][b]]
    BY <2>2, <2>4, <1>1
  <2>6. left = [l \in Levels |-> left[l]]
    BY <2>2, <2>3
  <2>7. QED
    BY <2>5, <2>6
<1>4. CASE rotated
  <2> DEFINE reached == {l \in Levels \ {0} : reaches(l)}
             taken == UNION {left[l][bucketOf(currentTick, l)] : l \in reached}
             rest == [l \in Levels |-> [b \in Buckets[l] |->
                        IF l \in reached /\ b = bucketOf(currentTick, l) THEN {} ELSE left[l][b]]]
  <2>1. /\ wheels' = added(rest, taken)
        /\ jobPositions' = positionsAfter(jobsIn(wheels[0][b0]), jobsIn(taken))
    BY <1>4 DEF tick, cascade
  <2>2. reached = Reached
    BY <1>4 DEF Reached
  <2>3. taken = Cast
    <3>1. \A l \in reached : left[l] = wheels[l]
      BY <1>1
    <3> HIDE DEF left
    <3>2. QED
      BY <3>1, <2>2 DEF Cast
  <2> HIDE DEF left, taken, reached
  <2>4. \A l \in Levels : \A b \in Buckets[l] :
           rest[l][b] = IF Swept(l, b) THEN {} ELSE wheels[l][b]
    BY <1>1, <1>2, <2>2 DEF Swept, Reached
  <2> HIDE DEF rest
  <2>5. QED
    BY <2>1, <2>3, <2>4 DEF added
<1>5. CASE ~ rotated
  <2>1. /\ wheels' = left
        /\ jobPositions' = positionsAfter(jobsIn(wheels[0][b0]), {})
    BY <1>5 DEF tick
  <2>2. Reached = {} /\ Cast = {} /\ jobsIn(Cast) = {}
    BY <1>5 DEF Reached, Cast, jobsIn
  <2> HIDE DEF left
  <2>3. \A l \in Levels : \A b \in Buckets[l] :
           left[l][b] = IF Swept(l, b) THEN {} ELSE wheels[l][b]
    BY <1>1, <1>2, <2>2 DEF Swept
  <2>4. QED
    BY <2>1, <2>2, <2>3, <1>3
<1>6. QED
  BY <1>4, <1>5

\* The rest of a tick.
LEMMA TickRest ==
    ASSUME tick
    PROVE  /\ currentTick' = currentTick + 1 /\ clock >= currentTick * TickDuration
           /\ sched' = sched /\ clock' = clock /\ copies' = copies
           /\ firedTick' = [j \in Jobs |->
                 IF j \in jobsIn(wheels[0][currentTick % wheelSize]) /\ firedTick[j] = Never
                 THEN currentTick ELSE firedTick[j]]
BY DEF tick


-----------------------------------------------------------------------------
(* Positions.                                                              *)

\* A recorded position is a bucket of a level and holds the job.
PosInv ==
    /\ jobPositions = [j \in Jobs |-> jobPositions[j]]
    /\ \A j \in Jobs : jobPositions[j] # Nowhere =>
          \E l \in Levels : \E b \in Buckets[l] :
              jobPositions[j] = <<l, b>> /\ j \in jobsIn(wheels[l][b])

\* addJob adds one copy to one bucket.
LEMMA AddWheels ==
    ASSUME WheelTypes, NEW j \in Jobs, addJob(j)
    PROVE  /\ wheels' = [l \in Levels |-> [b \in Buckets[l] |-> wheels'[l][b]]]
           /\ <<j, copies[j] + 1, currentTick>> \in Copies
           /\ \A l \in Levels : \A b \in Buckets[l] :
                 wheels'[l][b] = wheels[l][b] \cup
                    {c \in {<<j, copies[j] + 1, currentTick>>} : place(c[1]) = <<l, b>>}
<1>1. wheels' = added(wheels, {<<j, copies[j] + 1, currentTick>>})
  BY DEF addJob
<1>2. <<j, copies[j] + 1, currentTick>> \in Copies
  BY DEF Copies, WheelTypes
<1>3. QED
  BY <1>1, <1>2 DEF added

\* removeJob takes the job's copies out of one bucket.
LEMMA RemoveWheels ==
    ASSUME WheelTypes, PosInv, NEW j \in Jobs, removeJob(j)
    PROVE  /\ wheels' = [l \in Levels |-> [b \in Buckets[l] |-> wheels'[l][b]]]
           /\ \A l \in Levels : \A b \in Buckets[l] :
                 /\ wheels'[l][b] \subseteq wheels[l][b]
                 /\ \A c \in wheels[l][b] : c[1] # j => c \in wheels'[l][b]
<1>1. PICK k \in Levels : \E a \in Buckets[k] : jobPositions[j] = <<k, a>>
  BY DEF PosInv, removeJob
<1>2. PICK a \in Buckets[k] : jobPositions[j] = <<k, a>>
  BY <1>1
<1> DEFINE less == {c \in wheels[k][a] : c[1] # j}
           row == [wheels[k] EXCEPT ![a] = less]
<1>3. wheels' = [wheels EXCEPT ![k][a] = less]
  BY <1>2 DEF removeJob
<1>4. wheels = [l \in Levels |-> [b \in Buckets[l] |-> wheels[l][b]]]
  BY DEF WheelTypes
<1>5. DOMAIN wheels = Levels /\ \A l \in Levels : wheels[l] = [b \in Buckets[l] |-> wheels[l][b]]
  BY <1>4
<1>6. wheels' = [wheels EXCEPT ![k] = row]
  BY <1>3
<1>7. /\ row = [b \in Buckets[k] |-> row[b]]
      /\ \A b \in Buckets[k] : row[b] = IF b = a THEN less ELSE wheels[k][b]
  BY <1>5
<1> HIDE DEF row
<1>8. \A l \in Levels : wheels'[l] = IF l = k THEN row ELSE wheels[l]
  BY <1>5, <1>6
<1>9. wheels' = [l \in Levels |-> wheels'[l]]
  BY <1>5, <1>6
<1>10. \A l \in Levels : wheels'[l] = [b \in Buckets[l] |-> wheels'[l][b]]
  BY <1>5, <1>7, <1>8
<1>11. wheels' = [l \in Levels |-> [b \in Buckets[l] |-> wheels'[l][b]]]
  BY <1>9, <1>10
<1>12. QED
  BY <1>7, <1>8, <1>11

\* Where the copies in a bucket come from: they were there and the step does not
\* sweep them away, or addJob or a cascade has just put them there.
StepCopies ==
    /\ sched' = sched
    /\ currentTick' \in {currentTick, currentTick + 1}
    /\ \A l \in Levels : \A b \in Buckets[l] : \A c \in wheels'[l][b] :
          \/ c \in wheels[l][b] /\ (currentTick' = currentTick \/ ~ Swept(l, b))
          \/ /\ currentTick' = currentTick /\ c[1] \in Jobs /\ c[3] = currentTick
             /\ place(c[1]) = <<l, b>>
          \/ currentTick' = currentTick + 1 /\ c \in Cast /\ place(c[1]) = <<l, b>>

\* The parts of a copy.
LEMMA CopyIs == \A c \in Copies : c[1] \in Jobs /\ c[2] \in Nat /\ c[3] \in Nat
BY DEF Copies

\* What a cascade moves are copies.
LEMMA CastIs ==
    ASSUME WheelTypes
    PROVE  Cast \subseteq Copies
<1>1. \A l \in Reached : l \in Levels /\ bucketOf(currentTick, l) \in Buckets[l]
  BY BucketIs DEF Reached, WheelTypes
<1>2. \A l \in Reached : wheels[l][bucketOf(currentTick, l)] \subseteq Copies
  BY <1>1 DEF WheelTypes
<1>3. QED
  BY <1>2, Zenon DEF Cast

\* Every step keeps the types and says where its copies come from.
LEMMA StepIs ==
    ASSUME WheelTypes, ClockFits, PosInv, [Next]_vars
    PROVE  WheelTypes' /\ ClockFits' /\ StepCopies
<1> USE WheelAssumption
<1>1. ASSUME Second PROVE WheelTypes' /\ ClockFits' /\ StepCopies
  <2>1. /\ clock < (currentTick + MaxLag) * TickDuration /\ clock' = clock + 1
        /\ sched' = sched /\ currentTick' = currentTick /\ wheels' = wheels /\ copies' = copies
    BY <1>1 DEF Second
  <2>2. WheelTypes'
    <3>1. clock' \in Nat
      BY <2>1 DEF WheelTypes
    <3>2. /\ wheels' = [l \in Levels |-> [b \in Buckets[l] |-> wheels'[l][b]]]
          /\ \A l \in Levels : \A b \in Buckets[l] : wheels'[l][b] \subseteq Copies
      BY <2>1 DEF WheelTypes
    <3>3. QED
      BY <2>1, <3>1, <3>2 DEF WheelTypes
  <2>3. ClockFits'
    <3> DEFINE x == (currentTick + MaxLag) * TickDuration
               y == (currentTick - 1) * TickDuration
    <3>1. x \in Int /\ y \in Int /\ clock \in Nat
      BY DEF WheelTypes
    <3>2. clock < x /\ y <= clock
      BY <2>1 DEF ClockFits
    <3> HIDE DEF x, y
    <3>3. clock + 1 <= x /\ y <= clock + 1
      BY <3>1, <3>2
    <3>4. QED
      BY <3>3, <2>1 DEF ClockFits, x, y
  <2>4. StepCopies
    BY <2>1 DEF StepCopies
  <2>5. QED
    BY <2>2, <2>3, <2>4
<1>2. ASSUME tick PROVE WheelTypes' /\ ClockFits' /\ StepCopies
  <2>1. /\ currentTick' = currentTick + 1 /\ clock >= currentTick * TickDuration
        /\ sched' = sched /\ clock' = clock /\ copies' = copies
    BY <1>2, TickRest
  <2>2. currentTick \in Nat /\ clock \in Nat
    BY DEF WheelTypes
  <2>3. ClockFits'
    <3>1. (currentTick + MaxLag) * TickDuration <= (currentTick + 1 + MaxLag) * TickDuration
      BY <2>2
    <3>2. (currentTick + 1 - 1) * TickDuration = currentTick * TickDuration
      BY <2>2
    <3>3. /\ (currentTick + MaxLag) * TickDuration \in Int
          /\ (currentTick + 1 + MaxLag) * TickDuration \in Int
      BY <2>2
    <3>4. QED
      BY <2>1, <2>2, <3>1, <3>2, <3>3 DEF ClockFits
  <2>4. WheelTypes'
    <3>1. \A l \in Levels : \A b \in Buckets[l] : wheels'[l][b] \subseteq wheels[l][b] \cup Cast
      BY <1>2, TickWheels
    <3>2. \A l \in Levels : \A b \in Buckets[l] : wheels'[l][b] \subseteq Copies
      BY <3>1, CastIs DEF WheelTypes
    <3>3. wheels' = [l \in Levels |-> [b \in Buckets[l] |-> wheels'[l][b]]]
      BY <1>2, TickWheels
    <3>4. QED
      BY <2>1, <2>2, <3>2, <3>3 DEF WheelTypes
  <2>5. StepCopies
    <3> SUFFICES ASSUME NEW l \in Levels, NEW b \in Buckets[l], NEW c \in wheels'[l][b]
                 PROVE  \/ c \in wheels[l][b] /\ ~ Swept(l, b)
                        \/ c \in Cast /\ place(c[1]) = <<l, b>>
      BY <2>1 DEF StepCopies
    <3>1. c \in (IF Swept(l, b) THEN {} ELSE wheels[l][b])
                  \cup {x \in Cast : place(x[1]) = <<l, b>>}
      BY <1>2, TickWheels
    <3>2. QED
      BY <3>1
  <2>6. QED
    BY <2>3, <2>4, <2>5
<1>3. ASSUME NEW j \in Jobs, addJob(j) PROVE WheelTypes' /\ ClockFits' /\ StepCopies
  <2>1. /\ sched' = sched /\ clock' = clock /\ currentTick' = currentTick
        /\ copies' = [copies EXCEPT ![j] = @ + 1]
    BY <1>3 DEF addJob
  <2> DEFINE n == <<j, copies[j] + 1, currentTick>>
  <2>2. /\ wheels' = [l \in Levels |-> [b \in Buckets[l] |-> wheels'[l][b]]]
        /\ n \in Copies
        /\ \A l \in Levels : \A b \in Buckets[l] :
              wheels'[l][b] = wheels[l][b] \cup {c \in {n} : place(c[1]) = <<l, b>>}
    BY <1>3, AddWheels
  <2>3. n[1] = j /\ n[3] = currentTick
    OBVIOUS
  <2> HIDE DEF n
  <2>4. WheelTypes'
    <3>1. copies' \in [Jobs -> Nat]
      BY <2>1 DEF WheelTypes
    <3>a. \A l \in Levels : \A b \in Buckets[l] : wheels[l][b] \subseteq Copies
      BY DEF WheelTypes
    <3>2. \A l \in Levels : \A b \in Buckets[l] : wheels'[l][b] \subseteq Copies
      BY <2>2, <3>a
    <3>3. QED
      BY <2>1, <2>2, <3>1, <3>2 DEF WheelTypes
  <2>5. ClockFits'
    BY <2>1 DEF ClockFits
  <2>6. StepCopies
    BY <2>1, <2>2, <2>3 DEF StepCopies
  <2>7. QED
    BY <2>4, <2>5, <2>6
<1>4. ASSUME NEW j \in Jobs, removeJob(j) PROVE WheelTypes' /\ ClockFits' /\ StepCopies
  <2>1. /\ sched' = sched /\ clock' = clock /\ currentTick' = currentTick /\ copies' = copies
    BY <1>4 DEF removeJob
  <2>2. /\ wheels' = [l \in Levels |-> [b \in Buckets[l] |-> wheels'[l][b]]]
        /\ \A l \in Levels : \A b \in Buckets[l] : wheels'[l][b] \subseteq wheels[l][b]
    BY <1>4, RemoveWheels
  <2>3. WheelTypes'
    BY <2>1, <2>2 DEF WheelTypes
  <2>4. ClockFits' /\ StepCopies
    BY <2>1, <2>2 DEF ClockFits, StepCopies
  <2>5. QED
    BY <2>3, <2>4
<1>5. ASSUME UNCHANGED vars PROVE WheelTypes' /\ ClockFits' /\ StepCopies
  BY <1>5 DEF vars, WheelTypes, ClockFits, StepCopies
<1>6. QED
  BY <1>1, <1>2, <1>3, <1>4, <1>5 DEF Next


\* Every step keeps the positions right.
LEMMA PosNext ==
    ASSUME WheelTypes, ClockFits, PosInv, [Next]_vars
    PROVE  PosInv'
<1>p. \A j \in Jobs : \E l \in Levels : \E b \in Buckets[l] : place(j) = <<l, b>>
  <2> TAKE j \in Jobs
  <2>1. PICK l \in Levels, T \in Nat : place(j) = <<l, bucketOf(T, l)>>
    BY PlaceIs
  <2>2. QED
    BY <2>1, BucketIs
<1>1. ASSUME tick PROVE PosInv'
  <2> DEFINE fired == jobsIn(wheels[0][currentTick % wheelSize])
             moved == jobsIn(Cast)
  <2>1. jobPositions' = [j \in Jobs |-> IF j \in moved THEN place(j)
                                        ELSE IF j \in fired THEN Nowhere ELSE jobPositions[j]]
    BY <1>1, TickWheels DEF positionsAfter
  <2>2. \A l \in Levels : \A b \in Buckets[l] :
            wheels'[l][b] = (IF Swept(l, b) THEN {} ELSE wheels[l][b])
                              \cup {c \in Cast : place(c[1]) = <<l, b>>}
    BY <1>1, TickWheels
  <2> HIDE DEF fired, moved
  <2> SUFFICES ASSUME NEW j \in Jobs, jobPositions'[j] # Nowhere
               PROVE  \E l \in Levels : \E b \in Buckets[l] :
                          jobPositions'[j] = <<l, b>> /\ j \in jobsIn(wheels'[l][b])
    BY <2>1 DEF PosInv
  <2>3. CASE j \in moved
    <3>1. PICK l \in Levels : \E b \in Buckets[l] : place(j) = <<l, b>>
      BY <1>p
    <3>2. PICK b \in Buckets[l] : place(j) = <<l, b>>
      BY <3>1
    <3>3. PICK c \in Cast : c[1] = j
      BY <2>3 DEF moved, jobsIn
    <3>4. c \in wheels'[l][b]
      BY <2>2, <3>2, <3>3
    <3>5. j \in jobsIn(wheels'[l][b])
      BY <3>3, <3>4 DEF jobsIn
    <3>6. QED
      BY <2>1, <2>3, <3>2, <3>5
  <2>4. CASE j \notin moved
    <3>1. j \notin fired /\ jobPositions'[j] = jobPositions[j] /\ jobPositions[j] # Nowhere
      BY <2>1, <2>4
    <3>2. PICK l \in Levels : \E b \in Buckets[l] :
              jobPositions[j] = <<l, b>> /\ j \in jobsIn(wheels[l][b])
      BY <3>1 DEF PosInv
    <3>3. PICK b \in Buckets[l] : jobPositions[j] = <<l, b>> /\ j \in jobsIn(wheels[l][b])
      BY <3>2
    <3>4. ~ Swept(l, b)
      <4>1. ~ (l = 0 /\ b = currentTick % wheelSize)
        BY <3>1, <3>3 DEF fired
      <4>2. ASSUME l \in Reached, b = bucketOf(currentTick, l) PROVE FALSE
        <5>1. wheels[l][b] \subseteq Cast
          BY <4>2 DEF Cast
        <5>2. QED
          BY <5>1, <2>4, <3>3 DEF moved, jobsIn
      <4>3. QED
        BY <4>1, <4>2 DEF Swept
    <3>5. wheels[l][b] \subseteq wheels'[l][b]
      BY <2>2, <3>4
    <3>6. j \in jobsIn(wheels'[l][b])
      BY <3>3, <3>5 DEF jobsIn
    <3>7. QED
      BY <3>1, <3>3, <3>6
  <2>5. QED
    BY <2>3, <2>4
<1>2. ASSUME NEW i \in Jobs, addJob(i) PROVE PosInv'
  <2>1. jobPositions' = [jobPositions EXCEPT ![i] = place(i)]
    BY <1>2 DEF addJob
  <2> DEFINE n == <<i, copies[i] + 1, currentTick>>
  <2>2. \A l \in Levels : \A b \in Buckets[l] :
            wheels'[l][b] = wheels[l][b] \cup {c \in {n} : place(c[1]) = <<l, b>>}
    BY <1>2, AddWheels
  <2>3. n[1] = i
    OBVIOUS
  <2> HIDE DEF n
  <2>4. \A j \in Jobs : jobPositions'[j] = IF j = i THEN place(i) ELSE jobPositions[j]
    BY <2>1 DEF PosInv
  <2>5. jobPositions' = [j \in Jobs |-> jobPositions'[j]]
    BY <2>1 DEF PosInv
  <2> SUFFICES ASSUME NEW j \in Jobs, jobPositions'[j] # Nowhere
               PROVE  \E l \in Levels : \E b \in Buckets[l] :
                          jobPositions'[j] = <<l, b>> /\ j \in jobsIn(wheels'[l][b])
    BY <2>5 DEF PosInv
  <2>6. CASE j = i
    <3>1. PICK l \in Levels : \E b \in Buckets[l] : place(i) = <<l, b>>
      BY <1>p
    <3>2. PICK b \in Buckets[l] : place(i) = <<l, b>>
      BY <3>1
    <3>3. n \in wheels'[l][b]
      BY <2>2, <2>3, <3>2
    <3>4. i \in jobsIn(wheels'[l][b])
      BY <2>3, <3>3 DEF jobsIn
    <3>5. QED
      BY <2>4, <2>6, <3>2, <3>4
  <2>7. CASE j # i
    <3>1. jobPositions'[j] = jobPositions[j] /\ jobPositions[j] # Nowhere
      BY <2>4, <2>7
    <3>2. PICK l \in Levels : \E b \in Buckets[l] :
              jobPositions[j] = <<l, b>> /\ j \in jobsIn(wheels[l][b])
      BY <3>1 DEF PosInv
    <3>3. PICK b \in Buckets[l] : jobPositions[j] = <<l, b>> /\ j \in jobsIn(wheels[l][b])
      BY <3>2
    <3>4. j \in jobsIn(wheels'[l][b])
      BY <2>2, <3>3 DEF jobsIn
    <3>5. QED
      BY <3>1, <3>3, <3>4
  <2>8. QED
    BY <2>6, <2>7
<1>3. ASSUME NEW i \in Jobs, removeJob(i) PROVE PosInv'
  <2>1. jobPositions' = [jobPositions EXCEPT ![i] = Nowhere]
    BY <1>3 DEF removeJob
  <2>2. \A l \in Levels : \A b \in Buckets[l] :
            \A c \in wheels[l][b] : c[1] # i => c \in wheels'[l][b]
    BY <1>3, RemoveWheels
  <2>3. \A j \in Jobs : jobPositions'[j] = IF j = i THEN Nowhere ELSE jobPositions[j]
    BY <2>1 DEF PosInv
  <2>4. jobPositions' = [j \in Jobs |-> jobPositions'[j]]
    BY <2>1 DEF PosInv
  <2> SUFFICES ASSUME NEW j \in Jobs, jobPositions'[j] # Nowhere
               PROVE  \E l \in Levels : \E b \in Buckets[l] :
                          jobPositions'[j] = <<l, b>> /\ j \in jobsIn(wheels'[l][b])
    BY <2>4 DEF PosInv
  <2>5. j # i /\ jobPositions'[j] = jobPositions[j] /\ jobPositions[j] # Nowhere
    BY <2>3
  <2>6. PICK l \in Levels : \E b \in Buckets[l] :
            jobPositions[j] = <<l, b>> /\ j \in jobsIn(wheels[l][b])
    BY <2>5 DEF PosInv
  <2>7. PICK b \in Buckets[l] : jobPositions[j] = <<l, b>> /\ j \in jobsIn(wheels[l][b])
    BY <2>6
  <2>8. j \in jobsIn(wheels'[l][b])
    BY <2>2, <2>5, <2>7 DEF jobsIn
  <2>9. QED
    BY <2>5, <2>7, <2>8
<1>4. ASSUME UNCHANGED <<wheels, jobPositions>> PROVE PosInv'
  BY <1>4 DEF PosInv
<1>5. QED
  BY <1>1, <1>2, <1>3, <1>4 DEF Next, Second, vars


-----------------------------------------------------------------------------
(* Never early.                                                            *)

\* A copy on level 0 waits for a tick less than a rotation away that is not
\* before its time, but for the lag.
EarlyInv ==
    /\ firedTick = [j \in Jobs |-> firedTick[j]]
    /\ \A j \in Jobs : firedTick[j] \in Nat \cup {Never}
    /\ \A b \in Buckets[0] : \A c \in wheels[0][b] : \E T \in Nat :
          /\ T % wheelSize = b /\ T < currentTick + wheelSize
          /\ sched[c[1]] < (T + MaxLag + 1) * TickDuration

\* A copy put on level 0 does.
LEMMA PlacedEarly ==
    ASSUME WheelTypes, ClockFits, NEW j \in Jobs, NEW b, place(j) = <<0, b>>
    PROVE  \E T \in Nat : /\ T % wheelSize = b /\ T < currentTick + wheelSize
                          /\ sched[j] < (T + MaxLag + 1) * TickDuration
<1>1. PICK l \in Levels, T \in Nat :
          /\ place(j) = <<l, bucketOf(T, l)>>
          /\ sched[j] < (T + MaxLag + 1) * TickDuration
          /\ l = 0 => T < currentTick + wheelSize
  BY PlaceIs
<1>2. l = 0 /\ bucketOf(T, l) = b
  BY <1>1
<1>3. bucketOf(T, 0) = T % wheelSize
  BY <1>1, BucketIs
<1>4. QED
  BY <1>1, <1>2, <1>3

\* A tick fires only copies whose tick has come.
LEMMA EarlyNext ==
    ASSUME WheelTypes, ClockFits, PosInv, EarlyInv, NeverEarly, [Next]_vars
    PROVE  EarlyInv' /\ NeverEarly'
<1>0. StepCopies
  BY StepIs
<1>1. currentTick \in Nat /\ currentTick' \in Nat /\ currentTick <= currentTick' /\ sched' = sched
  BY <1>0 DEF StepCopies, WheelTypes
<1>2. ASSUME NEW b \in Buckets[0], NEW c \in wheels'[0][b]
      PROVE  \E T \in Nat : /\ T % wheelSize = b /\ T < currentTick' + wheelSize
                            /\ sched'[c[1]] < (T + MaxLag + 1) * TickDuration
  <2>1. 0 \in Levels
    BY Sizes
  <2>2. c \in wheels[0][b] \/ (c[1] \in Jobs /\ place(c[1]) = <<0, b>>)
    BY <1>0, <2>1, CastIs, CopyIs DEF StepCopies
  <2>3. PICK T \in Nat : /\ T % wheelSize = b /\ T < currentTick + wheelSize
                         /\ sched[c[1]] < (T + MaxLag + 1) * TickDuration
    BY <2>2, PlacedEarly DEF EarlyInv
  <2>4. T < currentTick' + wheelSize
    BY <2>3, <1>1, Sizes
  <2>5. QED
    BY <2>3, <2>4, <1>1
<1>3. ASSUME tick PROVE EarlyInv' /\ NeverEarly'
  <2> DEFINE fired == jobsIn(wheels[0][currentTick % wheelSize])
  <2>1. firedTick' = [j \in Jobs |-> IF j \in fired /\ firedTick[j] = Never
                                     THEN currentTick ELSE firedTick[j]]
    BY <1>3, TickRest
  <2>2. ASSUME NEW j \in fired
        PROVE  sched[j] < (currentTick + MaxLag + 1) * TickDuration
    <3>1. PICK c \in wheels[0][currentTick % wheelSize] : c[1] = j
      BY <2>2 DEF jobsIn
    <3>2. currentTick % wheelSize \in Buckets[0]
      BY <1>1, Sizes, DivMod DEF Buckets
    <3>3. PICK T \in Nat : /\ T % wheelSize = currentTick % wheelSize
                           /\ T < currentTick + wheelSize
                           /\ sched[j] < (T + MaxLag + 1) * TickDuration
      BY <3>1, <3>2 DEF EarlyInv
    <3>4. T <= currentTick
      BY <3>3, <1>1, Sizes, SameResidue
    <3>5. (T + MaxLag + 1) * TickDuration <= (currentTick + MaxLag + 1) * TickDuration
      <4> DEFINE x == T + MaxLag + 1
                 y == currentTick + MaxLag + 1
      <4>1. x \in Nat /\ y \in Nat /\ x <= y
        BY <3>4, <1>1, WheelAssumption
      <4> HIDE DEF x, y
      <4>2. x * TickDuration <= y * TickDuration
        BY <4>1, WheelAssumption
      <4>3. QED
        BY <4>2 DEF x, y
    <3>6. j \in Jobs
      <4>1. wheels[0][currentTick % wheelSize] \subseteq Copies
        BY <3>2, Sizes DEF WheelTypes
      <4>2. QED
        BY <3>1, <4>1, CopyIs
    <3>7. /\ sched[j] \in Nat
          /\ (T + MaxLag + 1) * TickDuration \in Int
          /\ (currentTick + MaxLag + 1) * TickDuration \in Int
      <4>1. sched[j] \in Nat
        BY <3>6 DEF WheelTypes
      <4>2. QED
        BY <4>1, <1>1, WheelAssumption
    <3>8. QED
      BY <3>3, <3>5, <3>7
  <2> HIDE DEF fired
  <2>3. \A j \in Jobs : firedTick'[j] = IF j \in fired /\ firedTick[j] = Never
                                        THEN currentTick ELSE firedTick[j]
    BY <2>1
  <2>4. NeverEarly'
    <3> SUFFICES ASSUME NEW j \in Jobs, firedTick'[j] # Never
                 PROVE  sched[j] < (firedTick'[j] + MaxLag + 1) * TickDuration
      BY <1>1 DEF NeverEarly
    <3>1. CASE j \in fired /\ firedTick[j] = Never
      BY <3>1, <2>2, <2>3
    <3>2. CASE ~ (j \in fired /\ firedTick[j] = Never)
      BY <3>2, <2>3 DEF NeverEarly
    <3>3. QED
      BY <3>1, <3>2
  <2>5. /\ firedTick' = [j \in Jobs |-> firedTick'[j]]
        /\ \A j \in Jobs : firedTick'[j] \in Nat \cup {Never}
    BY <2>1, <2>3, <1>1 DEF EarlyInv
  <2>6. QED
    BY <1>2, <2>4, <2>5 DEF EarlyInv
<1>4. ASSUME firedTick' = firedTick PROVE EarlyInv' /\ NeverEarly'
  BY <1>1, <1>2, <1>4 DEF EarlyInv, NeverEarly
<1>5. QED
  BY <1>3, <1>4 DEF Next, Second, addJob, removeJob, vars


-----------------------------------------------------------------------------
(* Never stuck.                                                            *)

\* Tick t cascades level l.
Cascades(t, l) ==
    /\ t > 0 /\ t % wheelSize = 0
    /\ \A k \in 1 .. (l - 1) : t % (wheelSize * Size(k)) = 0

\* The last tick that may come after a job's time without it having fired.
Due(j) == (sched[j] \div TickDuration) + 1

\* A copy waits for a tick that takes it: one that drains its bucket, at most a
\* rotation after it is due or was added, or one that cascades its bucket, at the
\* latest when it is due.
LateInv ==
    /\ \A b \in Buckets[0] : \A c \in wheels[0][b] : \E T \in Nat :
          /\ T % wheelSize = b /\ T >= currentTick
          /\ T <= Due(c[1]) + wheelSize \/ T <= c[3] + wheelSize
    /\ \A l \in Levels \ {0} : \A b \in Buckets[l] : \A c \in wheels[l][b] : \E t \in Nat :
          /\ Cascades(t, l) /\ bucketOf(t, l) = b
          /\ t >= currentTick /\ t <= Due(c[1])

\* The second a job is due is a number.
LEMMA DueIs ==
    ASSUME WheelTypes, NEW j \in Jobs
    PROVE  Due(j) \in Nat
<1>1. sched[j] \in Nat /\ TickDuration \in Nat \ {0}
  BY WheelAssumption DEF WheelTypes
<1>2. sched[j] \div TickDuration \in Nat
  BY <1>1, DivMod
<1>3. QED
  BY <1>2 DEF Due

\* A job put on level 0 is drained when it is due.
LEMMA PlacedLow ==
    ASSUME WheelTypes, ClockFits, NEW j \in Jobs, NEW b, place(j) = <<0, b>>
    PROVE  \E T \in Nat : /\ T % wheelSize = b /\ T >= currentTick
                          /\ T = currentTick \/ T <= Due(j)
<1>1. PICK l \in Levels, T \in Nat :
          /\ place(j) = <<l, bucketOf(T, l)>>
          /\ T >= currentTick
          /\ IF sched[j] < clock THEN T = currentTick ELSE T <= (sched[j] \div TickDuration) + 1
  BY PlaceIs
<1>2. l = 0 /\ bucketOf(T, l) = b
  BY <1>1
<1>3. bucketOf(T, 0) = T % wheelSize
  BY <1>1, BucketIs
<1>4. QED
  BY <1>1, <1>2, <1>3 DEF Due

\* A job put on a higher level is cascaded, after this tick and before it is due.
LEMMA PlacedHigh ==
    ASSUME WheelTypes, ClockFits, NEW j \in Jobs, NEW k \in Levels \ {0}, NEW b, place(j) = <<k, b>>
    PROVE  \E t \in Nat : /\ Cascades(t, k) /\ bucketOf(t, k) = b
                          /\ t > currentTick /\ t <= Due(j)
<1>1. PICK l \in Levels, T \in Nat :
          /\ place(j) = <<l, bucketOf(T, l)>>
          /\ T >= currentTick
          /\ l > 0 => (T - currentTick + 1) * TickDuration > wheelDurations[l]
          /\ l > 0 => sched[j] >= clock
          /\ IF sched[j] < clock THEN T = currentTick ELSE T <= (sched[j] \div TickDuration) + 1
  BY PlaceIs
<1>2. l = k /\ bucketOf(T, k) = b /\ k > 0 /\ k \in Nat
  BY <1>1, Sizes
<1>3. currentTick \in Nat /\ clock \in Nat /\ sched[j] \in Nat
  BY DEF WheelTypes
<1>4. T <= Due(j)
  BY <1>1, <1>2, <1>3 DEF Due
<1>5. PICK p \in 1 .. powers[k] :
          /\ p * TickDuration <= wheelDurations[k]
          /\ powers[k] % p = 0
          /\ p % wheelSize = 0
          /\ \A i \in 1 .. (k - 1) : p % (wheelSize * Size(i)) = 0
  BY RotationAssumption
<1>6. powers[k] \in Nat \ {0} /\ wheelDurations[k] \in Nat
  BY Powers, Durations
<1>7. p \in Nat \ {0}
  BY <1>5, <1>6
<1>8. p <= T - currentTick
  <2> DEFINE x == T - currentTick + 1
  <2>1. x \in Nat /\ p * TickDuration < x * TickDuration
    <3>1. p * TickDuration \in Int /\ (T - currentTick + 1) * TickDuration \in Int
      BY <1>7, <1>3, WheelAssumption
    <3>2. p * TickDuration < (T - currentTick + 1) * TickDuration
      BY <3>1, <1>1, <1>2, <1>5, <1>6
    <3>3. QED
      BY <3>2, <1>1, <1>3
  <2> HIDE DEF x
  <2>2. ASSUME p >= x PROVE FALSE
    <3>1. p * TickDuration >= x * TickDuration
      BY <2>1, <2>2, <1>7, WheelAssumption
    <3>2. p * TickDuration \in Int /\ x * TickDuration \in Int
      BY <2>1, <1>7, WheelAssumption
    <3>3. QED
      BY <3>1, <3>2, <2>1
  <2>3. p < x
    BY <2>1, <2>2, <1>7
  <2>4. QED
    BY <2>3, <1>1, <1>3, <1>7 DEF x
<1> DEFINE t == T - (T % p)
<1>9. t \in Nat /\ t % p = 0 /\ t > T - p /\ t <= T /\ t \div powers[k] = T \div powers[k]
  BY <1>5, <1>6, <1>7, LastMultiple
<1> HIDE DEF t
<1>10. t > currentTick /\ t <= Due(j)
  <2>1. Due(j) \in Nat
    BY DueIs
  <2>2. QED
    BY <2>1, <1>1, <1>3, <1>4, <1>7, <1>8, <1>9
<1>11. bucketOf(t, k) = b
  BY <1>2, <1>9 DEF bucketOf
<1>12. t % wheelSize = 0
  BY <1>5, <1>7, <1>9, Sizes, Divides
<1>13. ASSUME NEW i \in 1 .. (k - 1) PROVE t % (wheelSize * Size(i)) = 0
  <2>1. i \in Levels
    BY <1>2, Sizes
  <2>2. wheelSize * Size(i) \in Nat \ {0}
    BY <2>1, Sizes
  <2>3. p % (wheelSize * Size(i)) = 0
    BY <1>5
  <2>4. QED
    BY <2>2, <2>3, <1>7, <1>9, Divides
<1>14. Cascades(t, k)
  BY <1>3, <1>9, <1>10, <1>12, <1>13 DEF Cascades
<1>15. QED
  BY <1>9, <1>10, <1>11, <1>14

\* Every step leaves each copy a tick to wait for.
LEMMA LateNext ==
    ASSUME WheelTypes, ClockFits, PosInv, LateInv, [Next]_vars
    PROVE  LateInv'
<1>0. StepCopies /\ WheelTypes'
  BY StepIs
<1>1. currentTick \in Nat /\ currentTick' \in {currentTick, currentTick + 1} /\ sched' = sched
  BY <1>0 DEF StepCopies, WheelTypes
<1>2. \A j : Due(j)' = Due(j)
  BY <1>1 DEF Due
<1>3. wheelSize \in Nat \ {0} /\ 0 \in Levels
  BY Sizes
<1>4. ASSUME NEW b \in Buckets[0], NEW c \in wheels'[0][b]
      PROVE  \E T \in Nat : /\ T % wheelSize = b /\ T >= currentTick'
                            /\ T <= Due(c[1]) + wheelSize \/ T <= c[3] + wheelSize
  <2>0. c[1] \in Jobs /\ c[3] \in Nat /\ Due(c[1]) \in Nat
    <3>1. c \in Copies
      BY <1>0, <1>3, <1>4 DEF WheelTypes
    <3>2. QED
      BY <3>1, CopyIs, DueIs
  <2>1. CASE c \in wheels[0][b] /\ (currentTick' = currentTick \/ ~ Swept(0, b))
    <3>1. PICK T \in Nat : /\ T % wheelSize = b /\ T >= currentTick
                           /\ T <= Due(c[1]) + wheelSize \/ T <= c[3] + wheelSize
      BY <2>1 DEF LateInv
    <3>2. T >= currentTick'
      BY <2>1, <3>1, <1>1 DEF Swept
    <3>3. QED
      BY <3>1, <3>2
  <2>2. CASE currentTick' = currentTick /\ c[3] = currentTick /\ place(c[1]) = <<0, b>>
    <3>1. PICK T \in Nat : /\ T % wheelSize = b /\ T >= currentTick
                           /\ T = currentTick \/ T <= Due(c[1])
      BY <2>0, <2>2, PlacedLow
    <3>2. T <= Due(c[1]) + wheelSize \/ T <= c[3] + wheelSize
      BY <2>0, <2>2, <3>1, <1>1, <1>3
    <3>3. QED
      BY <2>2, <3>1, <3>2
  <2>3. CASE currentTick' = currentTick + 1 /\ c \in Cast /\ place(c[1]) = <<0, b>>
    <3>1. PICK T \in Nat : /\ T % wheelSize = b /\ T >= currentTick
                           /\ T = currentTick \/ T <= Due(c[1])
      BY <2>0, <2>3, PlacedLow
    <3>2. currentTick <= Due(c[1])
      <4>1. PICK l \in Reached : c \in wheels[l][bucketOf(currentTick, l)]
        BY <2>3 DEF Cast
      <4>2. l \in Levels \ {0} /\ bucketOf(currentTick, l) \in Buckets[l]
        BY <1>1, BucketIs DEF Reached
      <4>3. PICK t \in Nat : t >= currentTick /\ t <= Due(c[1])
        BY <4>1, <4>2 DEF LateInv
      <4>4. QED
        BY <4>3, <1>1, <2>0
    <3>3. CASE T = currentTick
      <4>1. (T + wheelSize) % wheelSize = T % wheelSize
        <5> DEFINE q == T \div wheelSize
                   r == T % wheelSize
        <5>1. q \in Nat /\ r \in 0 .. (wheelSize - 1) /\ T = wheelSize * q + r
          BY <1>3, DivMod
        <5> HIDE DEF q, r
        <5>2. T + wheelSize = wheelSize * (q + 1) + r /\ q + 1 \in Nat
          BY <5>1, <1>3
        <5>3. (wheelSize * (q + 1) + r) % wheelSize = r
          BY <5>1, <5>2, <1>3, QuotientIs
        <5>4. QED
          BY <5>2, <5>3 DEF r
      <4>2. /\ T + wheelSize \in Nat /\ T + wheelSize >= currentTick + 1
            /\ T + wheelSize <= Due(c[1]) + wheelSize
        BY <3>2, <3>3, <1>1, <1>3, <2>0
      <4>3. QED
        BY <4>1, <4>2, <3>1, <2>3
    <3>4. CASE T # currentTick
      <4>1. T >= currentTick + 1 /\ T <= Due(c[1]) + wheelSize
        BY <3>1, <3>4, <1>1, <1>3, <2>0
      <4>2. QED
        BY <4>1, <3>1, <2>3
    <3>5. QED
      BY <3>3, <3>4
  <2>4. QED
    BY <2>1, <2>2, <2>3, <1>0, <1>3 DEF StepCopies
<1>5. ASSUME NEW l \in Levels \ {0}, NEW b \in Buckets[l], NEW c \in wheels'[l][b]
      PROVE  \E t \in Nat : /\ Cascades(t, l) /\ bucketOf(t, l) = b
                            /\ t >= currentTick' /\ t <= Due(c[1])
  <2>0. c[1] \in Jobs /\ Due(c[1]) \in Nat
    <3>1. c \in Copies
      BY <1>0, <1>5 DEF WheelTypes
    <3>2. QED
      BY <3>1, CopyIs, DueIs
  <2>1. CASE c \in wheels[l][b] /\ (currentTick' = currentTick \/ ~ Swept(l, b))
    <3>1. PICK t \in Nat : /\ Cascades(t, l) /\ bucketOf(t, l) = b
                           /\ t >= currentTick /\ t <= Due(c[1])
      BY <2>1 DEF LateInv
    <3>2. t = currentTick => Swept(l, b)
      BY <3>1 DEF Swept, Reached, Cascades, rotated, reaches
    <3>3. t >= currentTick'
      BY <2>1, <3>1, <3>2, <1>1
    <3>4. QED
      BY <3>1, <3>3
  <2>2. CASE place(c[1]) = <<l, b>>
    <3>1. PICK t \in Nat : /\ Cascades(t, l) /\ bucketOf(t, l) = b
                           /\ t > currentTick /\ t <= Due(c[1])
      BY <2>0, <2>2, PlacedHigh
    <3>2. t >= currentTick'
      BY <3>1, <1>1
    <3>3. QED
      BY <3>1, <3>2
  <2>3. QED
    BY <2>1, <2>2, <1>0 DEF StepCopies
<1>6. QED
  BY <1>2, <1>4, <1>5 DEF LateInv


-----------------------------------------------------------------------------
(* The theorems.                                                           *)

\* What holds for any sizes.
WheelInv == WheelTypes /\ ClockFits /\ PosInv /\ EarlyInv /\ NeverEarly

\* An empty wheel satisfies the invariant.
LEMMA WheelInit == Init => WheelInv /\ LateInv
<1> SUFFICES ASSUME Init PROVE WheelInv /\ LateInv
  OBVIOUS
<1> USE DEF Init
<1>1. \A l \in Levels : \A b \in Buckets[l] : wheels[l][b] = {}
  OBVIOUS
<1>2. WheelTypes
  <2>1. wheels = [l \in Levels |-> [b \in Buckets[l] |-> wheels[l][b]]]
    BY <1>1
  <2>2. sched \in [Jobs -> Nat]
    BY WheelAssumption
  <2>3. QED
    BY <1>1, <2>1, <2>2 DEF WheelTypes
<1>3. ClockFits
  <2>1. (0 + MaxLag) * TickDuration \in Nat /\ (0 - 1) * TickDuration <= 0
    BY WheelAssumption
  <2>2. QED
    BY <2>1 DEF ClockFits
<1>4. PosInv
  BY DEF PosInv
<1>5. EarlyInv /\ NeverEarly
  BY <1>1, Sizes DEF EarlyInv, NeverEarly
<1>6. LateInv
  BY <1>1, Sizes DEF LateInv
<1>7. QED
  BY <1>2, <1>3, <1>4, <1>5, <1>6 DEF WheelInv

\* Every step keeps it.
LEMMA WheelNext == WheelInv /\ [Next]_vars => WheelInv'
<1> SUFFICES ASSUME WheelInv, [Next]_vars PROVE WheelInv'
  OBVIOUS
<1>1. WheelTypes /\ ClockFits /\ PosInv /\ EarlyInv /\ NeverEarly
  BY DEF WheelInv
<1>2. WheelTypes' /\ ClockFits'
  BY <1>1, StepIs
<1>3. PosInv'
  BY <1>1, PosNext
<1>4. EarlyInv' /\ NeverEarly'
  BY <1>1, EarlyNext
<1>5. QED
  BY <1>2, <1>3, <1>4 DEF WheelInv

\* Every reachable state satisfies the inductive invariant, whatever is added and
\* removed between the ticks and however late these come.
THEOREM WheelInvariance == Spec => []WheelInv
BY WheelInit, WheelNext, PTL DEF Spec

\* No job fires before the tick of its time, but for the lag of the scheduler:
\* addJob puts it on level 0 only for the rotation that reaches that tick.
THEOREM FiresInTime == Spec => []NeverEarly
<1>1. WheelInv => NeverEarly
  BY DEF WheelInv
<1>2. QED
  BY <1>1, WheelInvariance, PTL

\* Every copy leaves the wheel within a rotation of its time or of its addition:
\* a cascade always reaches its bucket before, on every level.
THEOREM LeavesInTime == Spec => []NeverStuck
<1>1. WheelInv /\ LateInv => NeverStuck
  <2> SUFFICES ASSUME WheelInv, LateInv, NEW c \in Held
               PROVE  \/ currentTick <= (sched[c[1]] \div TickDuration) + 1 + wheelSize
                      \/ currentTick <= c[3] + wheelSize
    BY DEF NeverStuck
  <2>0. WheelTypes /\ LateInv
    BY DEF WheelInv
  <2>1. PICK l \in Levels : c \in UNION {wheels[l][b] : b \in Buckets[l]}
    BY DEF Held
  <2>2. PICK b \in Buckets[l] : c \in wheels[l][b]
    BY <2>1
  <2>3. c[1] \in Jobs /\ c[3] \in Nat /\ Due(c[1]) \in Nat
    <3>1. c \in Copies
      BY <2>0, <2>2 DEF WheelTypes
    <3>2. QED
      BY <2>0, <3>1, CopyIs, DueIs
  <2>4. currentTick \in Nat /\ wheelSize \in Nat
    BY <2>0, Sizes DEF WheelTypes
  <2>5. currentTick <= Due(c[1]) + wheelSize \/ currentTick <= c[3] + wheelSize
    <3>1. CASE l = 0
      <4>1. PICK T \in Nat : /\ T >= currentTick
                             /\ T <= Due(c[1]) + wheelSize \/ T <= c[3] + wheelSize
        BY <3>1, <2>0, <2>2 DEF LateInv
      <4>2. QED
        BY <4>1, <2>3, <2>4
    <3>2. CASE l # 0
      <4>1. PICK t \in Nat : t >= currentTick /\ t <= Due(c[1])
        BY <3>2, <2>0, <2>2 DEF LateInv
      <4>2. QED
        BY <4>1, <2>3, <2>4
    <3>3. QED
      BY <3>1, <3>2
  <2>6. QED
    BY <2>5 DEF Due
<1>2. WheelInv /\ LateInv /\ [Next]_vars => LateInv'
  BY LateNext DEF WheelInv
<1>3. QED
  BY <1>1, <1>2, WheelInit, WheelInvariance, PTL DEF Spec

\* A recorded position names a bucket that holds the job, whatever addJob, tick,
\* cascade and removeJob do, so that removeJob finds it.
THEOREM PositionsRight == Spec => []PositionsSound
<1>1. WheelInv => PositionsSound
  <2> SUFFICES ASSUME WheelInv, NEW j \in Jobs, jobPositions[j] # Nowhere
               PROVE  j \in jobsIn(wheels[jobPositions[j][1]][jobPositions[j][2]])
    BY DEF PositionsSound
  <2>1. PICK l \in Levels : \E b \in Buckets[l] :
            jobPositions[j] = <<l, b>> /\ j \in jobsIn(wheels[l][b])
    BY DEF WheelInv, PosInv
  <2>2. PICK b \in Buckets[l] : jobPositions[j] = <<l, b>> /\ j \in jobsIn(wheels[l][b])
    BY <2>1
  <2>3. jobPositions[j][1] = l /\ jobPositions[j][2] = b
    BY <2>2
  <2>4. QED
    BY <2>2, <2>3
<1>2. QED
  BY <1>1, WheelInvariance, PTL
=============================================================================
