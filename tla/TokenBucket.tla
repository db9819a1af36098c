---------------------------- MODULE TokenBucket ----------------------------
(***************************************************************************)
(* The rate limiter of FLUX (prog5): one token bucket shared by the        *)
(* threads that call allow_request.  refill reads the clock first and then *)
(* takes the lock of last_refill and, inside it, that of tokens;           *)
(* try_acquire takes the lock of tokens again for the token.  Tokens and   *)
(* time are whole units; the code's f64 fractions lie between them.        *)
(***************************************************************************)
EXTENDS Integers, FiniteSets

CONSTANTS
    Threads,
    requests_per_sec,
    MaxClock            \* bound: seconds explored

ASSUME BucketAssumption == requests_per_sec \in Nat /\ IsFiniteSet(Threads)

capacity == requests_per_sec * 2
refill_rate == requests_per_sec

VARIABLES
    tokens, last_refill,
    clock,              \* Instant::now()
    now,                \* thread: the local of refill
    pc,
    granted,            \* history: requests allowed
    window              \* history: a moment, and the requests allowed since

vars == <<tokens, last_refill, clock, now, pc, granted, window>>

Init ==
    /\ tokens = capacity
    /\ last_refill = 0
    /\ clock = 0
    /\ now = [t \in Threads |-> 0]
    /\ pc = [t \in Threads |-> "idle"]
    /\ granted = 0
    /\ window = [start |-> 0, granted |-> 0]

Least(a, b) == IF a <= b THEN a ELSE b

Second ==
    /\ clock < MaxClock
    /\ clock' = clock + 1
    /\ UNCHANGED <<tokens, last_refill, now, pc, granted, window>>

\* An observer starts to count the requests that are allowed.
Observe ==
    /\ window' = [start |-> clock, granted |-> 0]
    /\ UNCHANGED <<tokens, last_refill, clock, now, pc, granted>>

\* allow_request and try_acquire are called, and refill reads the clock.
try_acquire(t) ==
    /\ pc[t] = "idle"
    /\ pc' = [pc EXCEPT ![t] = "refilling"]
    /\ now' = [now EXCEPT ![t] = clock]
    /\ UNCHANGED <<tokens, last_refill, clock, granted, window>>

\* Mutation: the time of the refill is not kept.
refillTimeKept(t) == last_refill

\* last_refill after the refill of a thread.
refillTime(t) == now[t]

\* duration_since is zero when now is the earlier of the two.
refill(t) ==
    /\ pc[t] = "refilling"
    /\ pc' = [pc EXCEPT ![t] = "taking"]
    /\ IF now[t] > last_refill
       THEN /\ tokens' = Least(tokens + (now[t] - last_refill) * refill_rate,
                               capacity)
            /\ last_refill' = refillTime(t)
       ELSE UNCHANGED <<tokens, last_refill>>
    /\ UNCHANGED <<clock, now, granted, window>>

available == tokens >= 1

take(t) ==
    /\ pc[t] = "taking"
    /\ pc' = [pc EXCEPT ![t] = "idle"]
    /\ IF available
       THEN /\ tokens' = tokens - 1
            /\ granted' = granted + 1
            /\ window' = [window EXCEPT !.granted = @ + 1]
       ELSE UNCHANGED <<tokens, granted, window>>
    /\ UNCHANGED <<last_refill, clock, now>>

Next ==
    \/ Second
    \/ Observe
    \/ \E t \in Threads : try_acquire(t) \/ refill(t) \/ take(t)

Spec == Init /\ [][Next]_vars

-----------------------------------------------------------------------------
TypeOK ==
    /\ tokens \in 0 .. capacity
    /\ last_refill \in Nat
    /\ clock \in Nat
    /\ now \in [Threads -> Nat]
    /\ pc \in [Threads -> {"idle", "refilling", "taking"}]
    /\ granted \in Nat
    /\ window \in [start : Nat, granted : Nat]

\* Since the start no more requests were allowed than the bucket held and the
\* rate added, although threads refill with clocks they read at any earlier
\* time and in any order.
RateBound == granted <= capacity + refill_rate * clock

\* From any moment on, no more requests are allowed than a full bucket and the
\* rate since then, and one for each thread that had read its clock before.
WindowBound ==
    window.granted <= capacity + refill_rate * (clock - window.start)
                      + Cardinality(Threads)
=============================================================================
