--------------------------- MODULE CircuitBreaker ---------------------------
(***************************************************************************)
(* The circuit breaker of FLUX (prog5): one breaker shared by the threads  *)
(* that call a backend.  Its three fields sit behind three locks of their  *)
(* own, taken one inside the other and in different orders, so that every  *)
(* acquisition is a step.  Who holds a lock follows from where the callers *)
(* are.  A caller asks can_attempt, calls the backend if it may, and       *)
(* records how the call went.                                              *)
(***************************************************************************)
EXTENDS Integers, FiniteSets

CONSTANTS
    Callers,             \* the threads
    failure_threshold

ASSUME BreakerAssumption == failure_threshold \in Nat \ {0}

VARIABLES
    state, failure_count,
    last_failure_time,   \* "none", "recent", or "elapsed": older than timeout
    breaker_pc

breakerVars == <<state, failure_count, last_failure_time, breaker_pc>>

BreakerInit ==
    /\ state = "Closed"
    /\ failure_count = 0
    /\ last_failure_time = "none"
    /\ breaker_pc = [t \in Callers |-> "idle"]

PCs == {"idle", "found_open", "reopening", "half_opening", "calling",
        "succeeded", "closing", "failed", "stamping", "tripping"}

At(pcs) == {t \in Callers : breaker_pc[t] \in pcs}
Goto(t, where) == breaker_pc' = [breaker_pc EXCEPT ![t] = where]

\* The guards that live across a step: state_lock, the one that the "if let"
\* keeps on last_failure_time, and count.
state_locked == At({"half_opening", "closing"}) # {}
last_failure_time_read == At({"reopening", "half_opening"}) # {}
failure_count_locked == At({"stamping", "tripping"}) # {}

-----------------------------------------------------------------------------
(* can_attempt.                                                            *)

\* The first match reads the state and lets go of it.
can_attempt(t) ==
    /\ breaker_pc[t] = "idle"
    /\ ~ state_locked
    /\ Goto(t, IF state = "Open" THEN "found_open" ELSE "calling")
    /\ UNCHANGED <<state, failure_count, last_failure_time>>

\* Open: is the last failure old enough?
check_timeout(t) ==
    /\ breaker_pc[t] = "found_open"
    /\ Goto(t, IF last_failure_time = "elapsed" THEN "reopening" ELSE "idle")
    /\ UNCHANGED <<state, failure_count, last_failure_time>>

half_open(t) ==
    /\ breaker_pc[t] = "reopening"
    /\ ~ state_locked
    /\ state' = "HalfOpen"
    /\ Goto(t, "half_opening")
    /\ UNCHANGED <<failure_count, last_failure_time>>

reset_count(t) ==
    /\ breaker_pc[t] = "half_opening"
    /\ ~ failure_count_locked
    /\ failure_count' = 0
    /\ Goto(t, "calling")
    /\ UNCHANGED <<state, last_failure_time>>

\* The call of the backend ends.
Call(t) ==
    /\ breaker_pc[t] = "calling"
    /\ \E outcome \in {"succeeded", "failed"} : Goto(t, outcome)
    /\ UNCHANGED <<state, failure_count, last_failure_time>>

\* Time passes beyond the timeout.
Elapse ==
    /\ last_failure_time = "recent"
    /\ last_failure_time' = "elapsed"
    /\ UNCHANGED <<state, failure_count, breaker_pc>>

-----------------------------------------------------------------------------
(* record_success: state, then failure_count inside it.                    *)

\* Mutation: the state lock is let go before the count is reset.
record_successSplit(t) ==
    /\ breaker_pc[t] = "succeeded"
    /\ ~ state_locked
    /\ state' = "Closed"
    /\ Goto(t, "idle")
    /\ UNCHANGED <<failure_count, last_failure_time>>

record_success(t) ==
    /\ breaker_pc[t] = "succeeded"
    /\ ~ state_locked
    /\ state' = "Closed"
    /\ Goto(t, "closing")
    /\ UNCHANGED <<failure_count, last_failure_time>>

clear_count(t) ==
    /\ breaker_pc[t] = "closing"
    /\ ~ failure_count_locked
    /\ failure_count' = 0
    /\ Goto(t, "idle")
    /\ UNCHANGED <<state, last_failure_time>>

-----------------------------------------------------------------------------
(* record_failure: failure_count, then the others inside it.               *)

record_failure(t) ==
    /\ breaker_pc[t] = "failed"
    /\ ~ failure_count_locked
    /\ failure_count' = failure_count + 1
    /\ Goto(t, "stamping")
    /\ UNCHANGED <<state, last_failure_time>>

\* Mutation: the breaker trips one failure early.
reachedEarly == failure_count + 1 >= failure_threshold

reached == failure_count >= failure_threshold

stamp(t) ==
    /\ breaker_pc[t] = "stamping"
    /\ ~ last_failure_time_read
    /\ last_failure_time' = "recent"
    /\ Goto(t, IF reached THEN "tripping" ELSE "idle")
    /\ UNCHANGED <<state, failure_count>>

trip(t) ==
    /\ breaker_pc[t] = "tripping"
    /\ ~ state_locked
    /\ state' = "Open"
    /\ Goto(t, "idle")
    /\ UNCHANGED <<failure_count, last_failure_time>>

-----------------------------------------------------------------------------
Step(t) ==
    \/ check_timeout(t) \/ half_open(t) \/ reset_count(t)
    \/ Call(t)
    \/ record_success(t) \/ clear_count(t)
    \/ record_failure(t) \/ stamp(t) \/ trip(t)

BreakerNext ==
    \/ Elapse
    \/ \E t \in Callers : can_attempt(t) \/ Step(t)

BreakerSpec == BreakerInit /\ [][BreakerNext]_breakerVars

-----------------------------------------------------------------------------
BreakerTypeOK ==
    /\ state \in {"Closed", "Open", "HalfOpen"}
    /\ failure_count \in Nat
    /\ last_failure_time \in {"none", "recent", "elapsed"}
    /\ breaker_pc \in [Callers -> PCs]

\* The breaker is never Open with fewer failures on record than the threshold
\* asks for, nor without the time of one, whatever resets run in between.
OpenIsEarned ==
    state = "Open" => failure_count >= failure_threshold
                      /\ last_failure_time # "none"

\* A count at the threshold means that the breaker is Open, unless a thread
\* is on its way to open it or to reset the count: no interleaving of
\* record_success, record_failure and can_attempt leaves it Closed or HalfOpen
\* with the failures of an open one.
TripIsComplete ==
    failure_count >= failure_threshold =>
        \/ state = "Open"
        \/ At({"stamping", "tripping", "closing", "half_opening"}) # {}
=============================================================================
