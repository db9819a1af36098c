---------------------------- MODULE FluxProofs ----------------------------
(***************************************************************************)
(* Proofs about FLUX's token bucket and circuit breaker.                   *)
(*                                                                         *)
(* The token bucket keeps to its rate, for any number of threads, any rate *)
(* and any time: tokens handed out and tokens left never exceed the first  *)
(* fill and the refills up to last_refill.  For a window that starts at    *)
(* any moment the bucket may be behind: it holds what it held before, and  *)
(* threads that read the clock before the window began may still take or   *)
(* refill.  Each of them does so once; the first refill from within the    *)
(* window ends that phase with a bucket that is at most full.              *)
(*                                                                         *)
(* The circuit breaker keeps its fields consistent, for any number of      *)
(* threads and any threshold.  A thread that holds a lock relies on what   *)
(* the lock protects: the inductive invariant says what that is at each    *)
(* place where a guard lives across a step.                                *)
(***************************************************************************)
EXTENDS TokenBucket, CircuitBreaker, FiniteSetTheorems, TLAPS

-----------------------------------------------------------------------------
(* The token bucket.                                                       *)

Balance ==
    /\ granted + tokens <= capacity + refill_rate * last_refill
    /\ last_refill <= clock
    /\ \A t \in Threads : now[t] <= clock

BucketInv == TypeOK /\ Balance

\* The rate over two stretches of time is the rate over both.
LEMMA Stretch ==
    ASSUME NEW r \in Nat, NEW a \in Nat, NEW b \in Nat, a <= b
    PROVE  /\ (b - a) * r + r * a = r * b
           /\ r * a <= r * b
           /\ (b - a) * r \in Nat
<1>1. (b - a) * r = b * r - a * r
  BY SMT
<1>2. r * a = a * r /\ r * b = b * r
  BY SMT
<1>3. (b - a) * r \in Nat
  <2>1. b - a \in Nat
    OBVIOUS
  <2>2. QED
    BY <2>1
<1>4. a * r \in Int /\ b * r \in Int
  OBVIOUS
<1>5. QED
  BY <1>1, <1>2, <1>3, <1>4

\* The capacity and the rate are whole numbers.
LEMMA Constants == capacity \in Nat /\ refill_rate \in Nat
BY BucketAssumption DEF capacity, refill_rate

\* A full bucket at the start.
LEMMA BucketInit == Init => BucketInv
<1> SUFFICES ASSUME Init PROVE BucketInv
  OBVIOUS
<1>1. TypeOK
  BY Constants DEF Init, TypeOK
<1>2. refill_rate * 0 = 0
  BY Constants
<1>3. Balance
  BY Constants, <1>2 DEF Init, Balance
<1>4. QED
  BY <1>1, <1>3 DEF BucketInv

\* refill adds no more than the rate since last_refill, and moves that on.
LEMMA RefillKeeps ==
    ASSUME BucketInv, NEW t \in Threads, refill(t)
    PROVE  BucketInv'
<1>1. /\ pc' = [pc EXCEPT ![t] = "taking"]
      /\ clock' = clock /\ now' = now /\ granted' = granted /\ window' = window
  BY DEF refill
<1>2. /\ tokens \in 0 .. capacity /\ last_refill \in Nat /\ clock \in Nat
      /\ now[t] \in Nat /\ granted \in Nat
  BY DEF BucketInv, TypeOK
<1>3. CASE now[t] > last_refill
  <2> DEFINE more == (now[t] - last_refill) * refill_rate
  <2>1. /\ tokens' = Least(tokens + more, capacity)
        /\ last_refill' = now[t]
    BY <1>3 DEF refill, refillTime
  <2>2. /\ more \in Nat
        /\ more + refill_rate * last_refill = refill_rate * now[t]
    BY <1>2, <1>3, Constants, Stretch
  <2>3. refill_rate * last_refill \in Int /\ refill_rate * now[t] \in Int
    BY <1>2, Constants
  <2> HIDE DEF more
  <2>4. tokens' \in 0 .. capacity /\ tokens' <= tokens + more
    BY <2>1, <2>2, <1>2, Constants DEF Least
  <2>5. TypeOK'
    BY <1>1, <1>2, <2>1, <2>4 DEF BucketInv, TypeOK
  <2>6. granted + tokens' <= capacity + refill_rate * now[t]
    BY <1>2, <2>2, <2>3, <2>4, Constants DEF BucketInv, Balance
  <2>7. Balance'
    BY <1>1, <2>1, <2>6 DEF BucketInv, Balance
  <2>8. QED
    BY <2>5, <2>7 DEF BucketInv
<1>4. CASE ~ (now[t] > last_refill)
  <2>1. tokens' = tokens /\ last_refill' = last_refill
    BY <1>4 DEF refill
  <2>2. QED
    BY <1>1, <2>1 DEF BucketInv, TypeOK, Balance
<1>5. QED
  BY <1>3, <1>4

\* A token taken is a token granted.
LEMMA TakeKeeps ==
    ASSUME BucketInv, NEW t \in Threads, take(t)
    PROVE  BucketInv'
<1>1. /\ pc' = [pc EXCEPT ![t] = "idle"]
      /\ last_refill' = last_refill /\ clock' = clock /\ now' = now
  BY DEF take
<1>2. CASE available
  <2>1. /\ tokens' = tokens - 1
        /\ granted' = granted + 1
        /\ window' = [window EXCEPT !.granted = window.granted + 1]
    BY <1>2 DEF take
  <2>2. TypeOK'
    BY <1>1, <1>2, <2>1, Constants DEF BucketInv, TypeOK, available
  <2>3. granted' + tokens' = granted + tokens
    BY <2>1, Constants DEF BucketInv, TypeOK
  <2>4. Balance'
    BY <1>1, <2>3 DEF BucketInv, Balance
  <2>5. QED
    BY <2>2, <2>4 DEF BucketInv
<1>3. CASE ~ available
  BY <1>1, <1>3 DEF take, BucketInv, TypeOK, Balance
<1>4. QED
  BY <1>2, <1>3

\* Every step keeps the balance.
LEMMA BucketNext == BucketInv /\ [Next]_vars => BucketInv'
<1> SUFFICES ASSUME BucketInv, [Next]_vars PROVE BucketInv'
  OBVIOUS
<1>1. CASE Second
  BY <1>1 DEF Second, BucketInv, TypeOK, Balance
<1>2. CASE Observe
  BY <1>2 DEF Observe, BucketInv, TypeOK, Balance
<1>3. ASSUME NEW t \in Threads, try_acquire(t) PROVE BucketInv'
  BY <1>3 DEF try_acquire, BucketInv, TypeOK, Balance
<1>4. ASSUME NEW t \in Threads, refill(t) PROVE BucketInv'
  BY <1>4, RefillKeeps
<1>5. ASSUME NEW t \in Threads, take(t) PROVE BucketInv'
  BY <1>5, TakeKeeps
<1>6. CASE UNCHANGED vars
  BY <1>6 DEF vars, BucketInv, TypeOK, Balance
<1>7. QED
  BY <1>1, <1>2, <1>3, <1>4, <1>5, <1>6 DEF Next

\* allow_request never lets more requests through than the bucket's capacity
\* and its rate since the start, whatever clocks the threads refill with.
THEOREM RateKept == Spec => []RateBound
<1>1. BucketInv => RateBound
  <2> SUFFICES ASSUME BucketInv PROVE RateBound
    OBVIOUS
  <2>1. refill_rate * last_refill <= refill_rate * clock
    BY Stretch, Constants DEF BucketInv, TypeOK, Balance
  <2>2. refill_rate * last_refill \in Int /\ refill_rate * clock \in Int
    BY Constants DEF BucketInv, TypeOK
  <2>3. QED
    BY <2>1, <2>2, Constants DEF BucketInv, TypeOK, Balance, RateBound
<1>2. QED
  BY <1>1, BucketInit, BucketNext, PTL DEF Spec

-----------------------------------------------------------------------------
(* The requests allowed since any moment.                                  *)

\* The threads that read their clock before the window began.
Early == {t \in Threads : pc[t] # "idle" /\ now[t] < window.start}

\* As long as nobody refilled from within the window, only early threads have
\* taken a token in it, each at most one.
BeforeRefill ==
    last_refill < window.start => window.granted + Cardinality(Early) <= Cardinality(Threads)

AfterRefill ==
    last_refill >= window.start =>
        window.granted + tokens <= capacity + Cardinality(Threads)
                                   + refill_rate * (last_refill - window.start)

\* A thread that is about to take has refilled.
Refilled == \A t \in Threads : pc[t] = "taking" => now[t] <= last_refill

WindowInv ==
    /\ window.start <= clock
    /\ BeforeRefill
    /\ AfterRefill
    /\ Refilled

\* The threads and the early ones among them are finitely many.
LEMMA EarlyFinite ==
    /\ IsFiniteSet(Threads) /\ Cardinality(Threads) \in Nat
    /\ IsFiniteSet(Early) /\ Cardinality(Early) \in Nat
    /\ Cardinality(Early) <= Cardinality(Threads)
<1>1. IsFiniteSet(Threads) /\ Early \subseteq Threads
  BY BucketAssumption DEF BucketAssumption, Early
<1>2. QED
  BY <1>1, FS_Subset, FS_CardinalityType

\* Nothing is granted yet.
LEMMA WindowInit == Init => WindowInv
<1> SUFFICES ASSUME Init PROVE WindowInv
  OBVIOUS
<1>1. window.start = 0 /\ window.granted = 0 /\ last_refill = 0 /\ tokens = capacity /\ clock = 0
  BY DEF Init
<1>2. refill_rate * (0 - 0) = 0
  BY Constants
<1>3. BeforeRefill /\ Refilled
  BY <1>1 DEF Init, BeforeRefill, Refilled
<1>4. AfterRefill
  BY <1>1, <1>2, EarlyFinite, Constants DEF AfterRefill
<1>5. QED
  BY <1>1, <1>3, <1>4 DEF WindowInv

\* An observer starts a window: the tokens are at most the capacity, and the
\* early threads are some of the threads.
LEMMA ObserveWindow ==
    ASSUME BucketInv, WindowInv, Observe
    PROVE  WindowInv'
<1>1. /\ window'.start = clock /\ window'.granted = 0
      /\ UNCHANGED <<tokens, last_refill, clock, now, pc>>
  BY DEF Observe
<1>2. tokens \in 0 .. capacity /\ last_refill \in Nat /\ clock \in Nat /\ last_refill <= clock
  BY DEF BucketInv, TypeOK, Balance
<1>3. Early' \subseteq Threads /\ Cardinality(Early') <= Cardinality(Threads) /\ Cardinality(Early') \in Nat
  <2>1. IsFiniteSet(Threads) /\ Early' \subseteq Threads
    BY BucketAssumption DEF BucketAssumption, Early
  <2>2. QED
    BY <2>1, FS_Subset, FS_CardinalityType
<1>4. BeforeRefill'
  BY <1>1, <1>3 DEF BeforeRefill
<1>5. AfterRefill'
  <2> SUFFICES ASSUME last_refill >= clock
               PROVE  0 + tokens <= capacity + Cardinality(Threads) + refill_rate * (last_refill - clock)
    BY <1>1 DEF AfterRefill
  <2>1. last_refill - clock = 0 /\ refill_rate * 0 = 0
    BY <1>2, Constants
  <2>2. QED
    BY <2>1, <1>2, Constants, EarlyFinite
<1>6. QED
  BY <1>1, <1>2, <1>4, <1>5 DEF WindowInv, Refilled

\* A thread that reads the clock now is not an early one.
LEMMA AcquireWindow ==
    ASSUME BucketInv, WindowInv, NEW t \in Threads, try_acquire(t)
    PROVE  WindowInv'
<1>1. /\ pc[t] = "idle" /\ pc' = [pc EXCEPT ![t] = "refilling"] /\ now' = [now EXCEPT ![t] = clock]
      /\ UNCHANGED <<tokens, last_refill, clock, window>>
  BY DEF try_acquire
<1>2. Early' = Early
  <2>1. window.start <= clock /\ window.start \in Nat /\ clock \in Nat
    BY DEF BucketInv, TypeOK, WindowInv
  <2>2. t \notin Early /\ t \notin Early'
    BY <1>1, <2>1 DEF Early, BucketInv, TypeOK
  <2>3. \A u \in Threads : u # t => (u \in Early <=> u \in Early')
    BY <1>1 DEF Early, BucketInv, TypeOK
  <2>4. QED
    BY <2>2, <2>3 DEF Early
<1>3. Refilled'
  BY <1>1 DEF Refilled, WindowInv, BucketInv, TypeOK
<1>4. QED
  BY <1>1, <1>2, <1>3 DEF WindowInv, BeforeRefill, AfterRefill

\* A refill from before the window leaves it in its first phase; the first
\* one from within ends it with at most a full bucket; a later one adds the
\* rate since the one before.
LEMMA RefillWindow ==
    ASSUME BucketInv, WindowInv, NEW t \in Threads, refill(t)
    PROVE  WindowInv'
<1>1. /\ pc[t] = "refilling" /\ pc' = [pc EXCEPT ![t] = "taking"]
      /\ UNCHANGED <<clock, now, window>>
  BY DEF refill
<1>2. /\ tokens \in 0 .. capacity /\ last_refill \in Nat /\ clock \in Nat /\ now[t] \in Nat
      /\ window.start \in Nat /\ window.granted \in Nat
  BY DEF BucketInv, TypeOK
<1>3. Early' = Early
  BY <1>1 DEF Early, BucketInv, TypeOK
<1>4. CASE now[t] > last_refill
  <2> DEFINE more == (now[t] - last_refill) * refill_rate
  <2>1. tokens' = Least(tokens + more, capacity) /\ last_refill' = now[t]
    BY <1>4 DEF refill, refillTime
  <2>2. more \in Nat
    BY <1>2, <1>4, Constants, Stretch
  <2> HIDE DEF more
  <2>3. tokens' \in 0 .. capacity /\ tokens' <= tokens + more
    BY <2>1, <2>2, <1>2, Constants DEF Least
  <2>4. BeforeRefill'
    BY <1>1, <1>2, <1>3, <1>4, <2>1 DEF WindowInv, BeforeRefill
  <2>5. AfterRefill'
    <3> SUFFICES ASSUME now[t] >= window.start
                 PROVE  window.granted + tokens' <= capacity + Cardinality(Threads)
                                                    + refill_rate * (now[t] - window.start)
      BY <1>1, <2>1 DEF AfterRefill
    <3>1. /\ now[t] - window.start \in Nat
          /\ refill_rate * (now[t] - window.start) \in Nat
      BY <1>2, Constants
    <3>2. CASE last_refill < window.start
      <4>1. window.granted <= Cardinality(Threads)
        BY <3>2, <1>2, EarlyFinite DEF WindowInv, BeforeRefill
      <4>2. QED
        BY <4>1, <3>1, <2>3, <1>2, Constants, EarlyFinite
    <3>3. CASE last_refill >= window.start
      <4> DEFINE a == last_refill - window.start
                 b == now[t] - window.start
      <4>1. a \in Nat /\ b \in Nat /\ a <= b /\ b - a = now[t] - last_refill
        BY <3>3, <1>2, <1>4
      <4>2. (b - a) * refill_rate + refill_rate * a = refill_rate * b
        BY <4>1, Constants, Stretch
      <4>3. more + refill_rate * a = refill_rate * b
        BY <4>1, <4>2 DEF more
      <4>4. refill_rate * a \in Int /\ refill_rate * b \in Int
        BY <4>1, Constants
      <4>5. window.granted + tokens <= capacity + Cardinality(Threads) + refill_rate * a
        BY <3>3 DEF WindowInv, AfterRefill
      <4> HIDE DEF a
      <4>6. QED
        BY <4>3, <4>4, <4>5, <2>2, <2>3, <1>2, Constants, EarlyFinite
    <3>4. QED
      BY <3>2, <3>3, <1>2
  <2>6. Refilled'
    BY <1>1, <1>2, <1>4, <2>1 DEF WindowInv, Refilled, BucketInv, TypeOK
  <2>7. QED
    BY <1>1, <2>4, <2>5, <2>6 DEF WindowInv
<1>5. CASE ~ (now[t] > last_refill)
  <2>1. tokens' = tokens /\ last_refill' = last_refill
    BY <1>5 DEF refill
  <2>2. Refilled'
    BY <1>1, <1>2, <1>5, <2>1 DEF WindowInv, Refilled, BucketInv, TypeOK
  <2>3. QED
    BY <1>1, <1>3, <2>1, <2>2 DEF WindowInv, BeforeRefill, AfterRefill
<1>6. QED
  BY <1>4, <1>5

\* A token taken before the first refill of the window is an early thread's,
\* which is early no longer; a later one comes out of the bucket.
LEMMA TakeWindow ==
    ASSUME BucketInv, WindowInv, NEW t \in Threads, take(t)
    PROVE  WindowInv'
<1>1. /\ pc[t] = "taking" /\ pc' = [pc EXCEPT ![t] = "idle"]
      /\ UNCHANGED <<last_refill, clock, now>>
  BY DEF take
<1>2. /\ tokens \in 0 .. capacity /\ last_refill \in Nat /\ now[t] \in Nat
      /\ window.start \in Nat /\ window.granted \in Nat
  BY DEF BucketInv, TypeOK
<1>3. /\ window'.start = window.start
      /\ \/ tokens' = tokens /\ window'.granted = window.granted
         \/ tokens' = tokens - 1 /\ window'.granted = window.granted + 1
  BY DEF take, BucketInv, TypeOK
<1>4. Early' = Early \ {t}
  BY <1>1, <1>3 DEF Early, BucketInv, TypeOK
<1>5. BeforeRefill'
  <2> SUFFICES ASSUME last_refill < window.start
               PROVE  window'.granted + Cardinality(Early') <= Cardinality(Threads)
    BY <1>1, <1>3 DEF BeforeRefill
  <2>1. t \in Early
    BY <1>1, <1>2 DEF Early, WindowInv, Refilled
  <2>2. Cardinality(Early') = Cardinality(Early) - 1
    BY <1>4, <2>1, EarlyFinite, FS_RemoveElement
  <2>3. window.granted + Cardinality(Early) <= Cardinality(Threads)
    BY DEF WindowInv, BeforeRefill
  <2>4. QED
    BY <1>2, <1>3, <2>2, <2>3, EarlyFinite
<1>6. AfterRefill'
  <2> SUFFICES ASSUME last_refill >= window.start
               PROVE  window'.granted + tokens' <= capacity + Cardinality(Threads)
                                                   + refill_rate * (last_refill - window.start)
    BY <1>1, <1>3 DEF AfterRefill
  <2>1. window'.granted + tokens' = window.granted + tokens
    BY <1>2, <1>3
  <2>2. QED
    BY <2>1 DEF WindowInv, AfterRefill
<1>7. Refilled'
  BY <1>1 DEF WindowInv, Refilled, BucketInv, TypeOK
<1>8. QED
  BY <1>1, <1>3, <1>5, <1>6, <1>7 DEF WindowInv

\* Every step keeps the count of the window.
LEMMA WindowNext == BucketInv /\ WindowInv /\ [Next]_vars => WindowInv'
<1> SUFFICES ASSUME BucketInv, WindowInv, [Next]_vars PROVE WindowInv'
  OBVIOUS
<1>1. CASE Second
  <2>1. clock' = clock + 1 /\ UNCHANGED <<tokens, last_refill, now, pc, window>>
    BY <1>1 DEF Second
  <2>2. clock \in Nat /\ window.start \in Nat
    BY DEF BucketInv, TypeOK
  <2>3. QED
    BY <2>1, <2>2 DEF WindowInv, BeforeRefill, AfterRefill, Refilled, Early
<1>2. CASE UNCHANGED vars
  BY <1>2 DEF vars, WindowInv, BeforeRefill, AfterRefill, Refilled, Early
<1>3. QED
  BY <1>1, <1>2, ObserveWindow, AcquireWindow, RefillWindow, TakeWindow DEF Next

\* From any moment on, allow_request lets through at most a full bucket, the
\* rate since then, and one request for each thread.
THEOREM WindowKept == Spec => []WindowBound
<1>1. BucketInv /\ WindowInv => WindowBound
  <2> SUFFICES ASSUME BucketInv, WindowInv PROVE WindowBound
    OBVIOUS
  <2>1. /\ tokens \in 0 .. capacity /\ last_refill \in Nat /\ clock \in Nat
        /\ window.start \in Nat /\ window.granted \in Nat
        /\ last_refill <= clock /\ window.start <= clock
    BY DEF BucketInv, TypeOK, Balance, WindowInv
  <2>2. refill_rate * (clock - window.start) \in Nat
    BY <2>1, Constants
  <2>3. CASE last_refill < window.start
    BY <2>1, <2>2, <2>3, Constants, EarlyFinite DEF WindowInv, BeforeRefill, WindowBound
  <2>4. CASE last_refill >= window.start
    <3> DEFINE a == last_refill - window.start
               b == clock - window.start
    <3>1. a \in Nat /\ b \in Nat /\ a <= b
      BY <2>1, <2>4
    <3>2. refill_rate * a <= refill_rate * b
      BY <3>1, Constants, Stretch
    <3>3. refill_rate * a \in Int /\ refill_rate * b \in Int
      BY <3>1, Constants
    <3>4. window.granted + tokens <= capacity + Cardinality(Threads) + refill_rate * a
      BY <2>4 DEF WindowInv, AfterRefill
    <3>5. WindowBound <=> window.granted <= capacity + refill_rate * b + Cardinality(Threads)
      BY DEF WindowBound
    <3> HIDE DEF a, b
    <3>6. QED
      BY <2>1, <3>2, <3>3, <3>4, <3>5, Constants, EarlyFinite
  <2>5. QED
    BY <2>1, <2>3, <2>4
<1>2. QED
  BY <1>1, BucketInit, BucketNext, WindowInit, WindowNext, PTL DEF Spec

-----------------------------------------------------------------------------
(* The circuit breaker.                                                    *)

\* What a thread knows while it holds a guard.
HeldFacts ==
    \A t \in Callers :
        /\ breaker_pc[t] = "half_opening" => state = "HalfOpen"
        /\ breaker_pc[t] = "closing" => state = "Closed"
        /\ breaker_pc[t] = "tripping" => /\ failure_count >= failure_threshold
                                 /\ last_failure_time # "none"

BreakerInv == BreakerTypeOK /\ HeldFacts /\ OpenIsEarned /\ TripIsComplete

\* The invariant holds when the breaker is made.
LEMMA BreakerStarts == BreakerInit => BreakerInv
<1> SUFFICES ASSUME BreakerInit PROVE BreakerInv
  OBVIOUS
<1>1. BreakerTypeOK
  BY DEF BreakerInit, BreakerTypeOK, PCs
<1>2. HeldFacts /\ OpenIsEarned /\ TripIsComplete
  BY BreakerAssumption DEF BreakerInit, HeldFacts, OpenIsEarned, TripIsComplete
<1>3. QED
  BY <1>1, <1>2 DEF BreakerInv

\* Every step keeps the invariant.
LEMMA BreakerSteps == BreakerInv /\ [BreakerNext]_breakerVars => BreakerInv'
<1> SUFFICES ASSUME BreakerInv, [BreakerNext]_breakerVars PROVE BreakerInv'
  OBVIOUS
<1> USE BreakerAssumption
<1>1. ASSUME NEW t \in Callers, can_attempt(t) PROVE BreakerInv'
  <2>1. BreakerTypeOK'
    BY <1>1 DEF BreakerInv, BreakerTypeOK, can_attempt, Goto, PCs
  <2>2. HeldFacts'
    BY <1>1 DEF BreakerInv, BreakerTypeOK, HeldFacts, can_attempt, Goto
  <2>3. OpenIsEarned' /\ TripIsComplete'
    BY <1>1 DEF BreakerInv, BreakerTypeOK, OpenIsEarned, TripIsComplete, At, can_attempt, Goto
  <2>4. QED
    BY <2>1, <2>2, <2>3 DEF BreakerInv
<1>2. ASSUME NEW t \in Callers, check_timeout(t) PROVE BreakerInv'
  <2>1. BreakerTypeOK'
    BY <1>2 DEF BreakerInv, BreakerTypeOK, check_timeout, Goto, PCs
  <2>2. HeldFacts'
    BY <1>2 DEF BreakerInv, BreakerTypeOK, HeldFacts, check_timeout, Goto
  <2>3. OpenIsEarned' /\ TripIsComplete'
    BY <1>2 DEF BreakerInv, BreakerTypeOK, OpenIsEarned, TripIsComplete, At, check_timeout, Goto
  <2>4. QED
    BY <2>1, <2>2, <2>3 DEF BreakerInv
<1>3. ASSUME NEW t \in Callers, half_open(t) PROVE BreakerInv'
  <2>1. BreakerTypeOK'
    BY <1>3 DEF BreakerInv, BreakerTypeOK, half_open, Goto, PCs
  <2>2. HeldFacts'
    BY <1>3 DEF BreakerInv, BreakerTypeOK, HeldFacts, half_open, Goto, state_locked, At
  <2>3. OpenIsEarned' /\ TripIsComplete'
    BY <1>3 DEF BreakerInv, BreakerTypeOK, OpenIsEarned, TripIsComplete, At, half_open, Goto
  <2>4. QED
    BY <2>1, <2>2, <2>3 DEF BreakerInv
<1>4. ASSUME NEW t \in Callers, reset_count(t) PROVE BreakerInv'
  <2>1. BreakerTypeOK'
    BY <1>4 DEF BreakerInv, BreakerTypeOK, reset_count, Goto, PCs
  <2>2. HeldFacts'
    BY <1>4 DEF BreakerInv, BreakerTypeOK, HeldFacts, reset_count, Goto, failure_count_locked, At
  <2>3. OpenIsEarned' /\ TripIsComplete'
    BY <1>4 DEF BreakerInv, BreakerTypeOK, HeldFacts, OpenIsEarned, TripIsComplete, At, reset_count, Goto
  <2>4. QED
    BY <2>1, <2>2, <2>3 DEF BreakerInv
<1>5. ASSUME NEW t \in Callers, Call(t) PROVE BreakerInv'
  <2>1. BreakerTypeOK'
    BY <1>5 DEF BreakerInv, BreakerTypeOK, Call, Goto, PCs
  <2>2. HeldFacts'
    BY <1>5 DEF BreakerInv, BreakerTypeOK, HeldFacts, Call, Goto
  <2>3. OpenIsEarned' /\ TripIsComplete'
    BY <1>5 DEF BreakerInv, BreakerTypeOK, OpenIsEarned, TripIsComplete, At, Call, Goto
  <2>4. QED
    BY <2>1, <2>2, <2>3 DEF BreakerInv
<1>6. ASSUME Elapse PROVE BreakerInv'
  BY <1>6 DEF BreakerInv, BreakerTypeOK, HeldFacts, OpenIsEarned, TripIsComplete, At, Elapse
<1>7. ASSUME NEW t \in Callers, record_success(t) PROVE BreakerInv'
  <2>1. BreakerTypeOK'
    BY <1>7 DEF BreakerInv, BreakerTypeOK, record_success, Goto, PCs
  <2>2. HeldFacts'
    BY <1>7 DEF BreakerInv, BreakerTypeOK, HeldFacts, record_success, Goto, state_locked, At
  <2>3. OpenIsEarned' /\ TripIsComplete'
    BY <1>7 DEF BreakerInv, BreakerTypeOK, OpenIsEarned, TripIsComplete, At, record_success, Goto
  <2>4. QED
    BY <2>1, <2>2, <2>3 DEF BreakerInv
<1>8. ASSUME NEW t \in Callers, clear_count(t) PROVE BreakerInv'
  <2>1. BreakerTypeOK'
    BY <1>8 DEF BreakerInv, BreakerTypeOK, clear_count, Goto, PCs
  <2>2. HeldFacts'
    BY <1>8 DEF BreakerInv, BreakerTypeOK, HeldFacts, clear_count, Goto, failure_count_locked, At
  <2>3. OpenIsEarned' /\ TripIsComplete'
    BY <1>8 DEF BreakerInv, BreakerTypeOK, HeldFacts, OpenIsEarned, TripIsComplete, At, clear_count, Goto
  <2>4. QED
    BY <2>1, <2>2, <2>3 DEF BreakerInv
<1>9. ASSUME NEW t \in Callers, record_failure(t) PROVE BreakerInv'
  <2>1. BreakerTypeOK'
    BY <1>9 DEF BreakerInv, BreakerTypeOK, record_failure, Goto, PCs
  <2>2. HeldFacts'
    BY <1>9 DEF BreakerInv, BreakerTypeOK, HeldFacts, record_failure, Goto, failure_count_locked, At
  <2>3. OpenIsEarned' /\ TripIsComplete'
    BY <1>9 DEF BreakerInv, BreakerTypeOK, OpenIsEarned, TripIsComplete, At, record_failure, Goto
  <2>4. QED
    BY <2>1, <2>2, <2>3 DEF BreakerInv
<1>10. ASSUME NEW t \in Callers, stamp(t) PROVE BreakerInv'
  <2>1. BreakerTypeOK'
    BY <1>10 DEF BreakerInv, BreakerTypeOK, stamp, Goto, PCs
  <2>2. HeldFacts'
    BY <1>10 DEF BreakerInv, BreakerTypeOK, HeldFacts, stamp, Goto, reached
  <2>3. OpenIsEarned' /\ TripIsComplete'
    BY <1>10 DEF BreakerInv, BreakerTypeOK, OpenIsEarned, TripIsComplete, At, stamp, Goto, reached
  <2>4. QED
    BY <2>1, <2>2, <2>3 DEF BreakerInv
<1>11. ASSUME NEW t \in Callers, trip(t) PROVE BreakerInv'
  <2>1. BreakerTypeOK'
    BY <1>11 DEF BreakerInv, BreakerTypeOK, trip, Goto, PCs
  <2>2. HeldFacts'
    BY <1>11 DEF BreakerInv, BreakerTypeOK, HeldFacts, trip, Goto, state_locked, At
  <2>3. OpenIsEarned' /\ TripIsComplete'
    BY <1>11 DEF BreakerInv, BreakerTypeOK, HeldFacts, OpenIsEarned, TripIsComplete, At, trip, Goto
  <2>4. QED
    BY <2>1, <2>2, <2>3 DEF BreakerInv
<1>12. CASE UNCHANGED breakerVars
  BY <1>12 DEF BreakerInv, BreakerTypeOK, HeldFacts, OpenIsEarned, TripIsComplete, At, breakerVars
<1>13. QED
  BY <1>1, <1>2, <1>3, <1>4, <1>5, <1>6, <1>7, <1>8, <1>9, <1>10, <1>11, <1>12
     DEF BreakerNext, Step

\* The breaker's fields keep their types and its invariant holds throughout.
THEOREM BreakerInvariance == BreakerSpec => []BreakerInv
BY BreakerStarts, BreakerSteps, PTL DEF BreakerSpec

\* An Open breaker has its threshold of failures on record and the time of
\* one, for every interleaving of can_attempt, record_success and
\* record_failure.
THEOREM BreakerConsistent == BreakerSpec => []OpenIsEarned
<1>1. BreakerInv => OpenIsEarned
  BY DEF BreakerInv
<1>2. QED
  BY <1>1, BreakerInvariance, PTL

\* A count at the threshold has an Open breaker, or a thread of
\* record_failure, record_success or can_attempt that is about to open it or
\* to reset the count.
THEOREM TripCompletes == BreakerSpec => []TripIsComplete
<1>1. BreakerInv => TripIsComplete
  BY DEF BreakerInv
<1>2. QED
  BY <1>1, BreakerInvariance, PTL
=============================================================================
