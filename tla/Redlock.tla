------------------------------ MODULE Redlock ------------------------------
(***************************************************************************)
(* RedlockManager of PANOPTICON (prog6): one lock name over several Redis  *)
(* instances.  A call of acquire_lock sends SET NX PX to every instance,   *)
(* counts the answers, and undoes what it got when they are no majority or *)
(* came too late.  A call is named by its lock_value, which is its own and *)
(* the same in all its attempts.  Answers and commands may be lost, and a  *)
(* command given up by the client may still be executed later.  Instances  *)
(* keep a key until it expires.                                            *)
(***************************************************************************)
EXTENDS Integers, FiniteSets

CONSTANTS
    Calls,              \* the calls of acquire_lock, by lock_value
    Instances,          \* redis_clients
    NoKey,
    timeout, margin,    \* timeout_ms, and the 100 ms taken off the validity
    retry_count,
    MaxClock,           \* bound: time explored
    MaxLost,            \* bound: commands or answers lost
    MaxActive           \* bound: calls under way at a time

ASSUME RedlockAssumption ==
    /\ IsFiniteSet(Instances)
    /\ NoKey \notin Calls
    /\ timeout \in Nat /\ margin \in Nat
    /\ retry_count \in Nat \ {0}
    /\ MaxClock \in Nat /\ MaxLost \in Nat /\ MaxActive \in Nat

VARIABLES
    value, expires,     \* per instance: the key and when it expires
    pc, attempt, start_time,
    pending,            \* per call: the instances that have not answered
    got,                \* per call: those that answered True in this attempt
    late,               \* commands given up and not executed yet
    clock, lost

callVars == <<pc, attempt, start_time, pending, got>>
vars == <<value, expires, callVars, late, clock, lost>>

\* len(redis_clients) // 2 + 1
quorum == Cardinality(Instances) \div 2 + 1

Init ==
    /\ value = [i \in Instances |-> NoKey]
    /\ expires = [i \in Instances |-> 0]
    /\ pc = [c \in Calls |-> "idle"]
    /\ attempt = [c \in Calls |-> 0]
    /\ start_time = [c \in Calls |-> 0]
    /\ pending = [c \in Calls |-> {}]
    /\ got = [c \in Calls |-> {}]
    /\ late = {}
    /\ clock = 0 /\ lost = 0

\* What NX asks.
Free(i) == value[i] = NoKey

SetKey(c, i) ==
    /\ value' = [value EXCEPT ![i] = c]
    /\ expires' = [expires EXCEPT ![i] = clock + timeout]

Lose ==
    /\ lost < MaxLost
    /\ lost' = lost + 1

-----------------------------------------------------------------------------
(* acquire_lock.                                                           *)

Goto(c, where, ask) ==
    /\ pc' = [pc EXCEPT ![c] = where]
    /\ pending' = [pending EXCEPT ![c] = ask]

\* The variables of an attempt that is over.
Forget(c) ==
    /\ start_time' = [start_time EXCEPT ![c] = 0]
    /\ got' = [got EXCEPT ![c] = {}]

Attempt(c) ==
    /\ Goto(c, "acquire", Instances)
    /\ attempt' = [attempt EXCEPT ![c] = @ + 1]
    /\ start_time' = [start_time EXCEPT ![c] = clock]
    /\ UNCHANGED got

acquire_lock(c) ==
    /\ pc[c] = "idle"
    /\ Cardinality({d \in Calls : pc[d] \notin {"idle", "done"}}) < MaxActive
    /\ Attempt(c)
    /\ UNCHANGED <<value, expires, late, clock, lost>>

Answered(c, i) ==
    /\ pending' = [pending EXCEPT ![c] = @ \ {i}]
    /\ UNCHANGED <<pc, attempt, start_time>>

\* An instance executes the command and its answer arrives.
acquire_single_lock(c, i) ==
    /\ pc[c] = "acquire" /\ i \in pending[c]
    /\ Answered(c, i)
    /\ IF Free(i)
       THEN SetKey(c, i) /\ got' = [got EXCEPT ![c] = @ \cup {i}]
       ELSE UNCHANGED <<value, expires, got>>
    /\ UNCHANGED <<late, clock, lost>>

\* The client sees an exception, which counts as False: the command was
\* executed, or never, or will be.
AcquireLost(c, i) ==
    /\ pc[c] = "acquire" /\ i \in pending[c]
    /\ Lose
    /\ Answered(c, i)
    /\ \/ Free(i) /\ SetKey(c, i) /\ UNCHANGED late
       \/ late' = late \cup {<<c, i>>} /\ UNCHANGED <<value, expires>>
       \/ UNCHANGED <<value, expires, late>>
    /\ UNCHANGED <<got, clock>>

LateCommand(c, i) ==
    /\ <<c, i>> \in late
    /\ late' = late \ {<<c, i>>}
    /\ IF Free(i) THEN SetKey(c, i) ELSE UNCHANGED <<value, expires>>
    /\ UNCHANGED <<callVars, clock, lost>>

Acquired(c) ==
    /\ Cardinality(got[c]) >= quorum
    /\ timeout - (clock - start_time[c]) - margin > 0

\* Mutation: what a failed attempt got is left to expire.
UndoNothing == {}

UndoAll == Instances

Count(c) ==
    /\ pc[c] = "acquire" /\ pending[c] = {}
    /\ IF Acquired(c)
       THEN Goto(c, "held", {}) /\ UNCHANGED <<start_time, got>>
       ELSE Goto(c, "undo", UndoAll) /\ Forget(c)
    /\ UNCHANGED <<value, expires, attempt, late, clock, lost>>

Again(c) ==
    /\ pc[c] = "undo" /\ pending[c] = {}
    /\ attempt[c] < retry_count
    /\ Attempt(c)
    /\ UNCHANGED <<value, expires, late, clock, lost>>

\* acquire_lock returns None.
GiveUp(c) ==
    /\ pc[c] = "undo" /\ pending[c] = {}
    /\ attempt[c] = retry_count
    /\ Goto(c, "done", {})
    /\ attempt' = [attempt EXCEPT ![c] = 0]
    /\ UNCHANGED <<value, expires, start_time, got, late, clock, lost>>

-----------------------------------------------------------------------------
(* release_lock.                                                           *)

\* Mutation: the key is deleted whoever set it.
OwnsAny(c, i) == TRUE

\* The test of the script.
Owns(c, i) == value[i] = c

release_lock(c) ==
    /\ pc[c] = "held"
    /\ Goto(c, "release", Instances)
    /\ Forget(c)
    /\ UNCHANGED <<value, expires, attempt, late, clock, lost>>

ReleaseKey(c, i) ==
    /\ pc[c] \in {"undo", "release"} /\ i \in pending[c]
    /\ Answered(c, i)
    /\ IF Owns(c, i)
       THEN value' = [value EXCEPT ![i] = NoKey] /\ expires' = [expires EXCEPT ![i] = 0]
       ELSE UNCHANGED <<value, expires>>
    /\ UNCHANGED <<got, late, clock, lost>>

\* return_exceptions: a release that fails is not noticed.
ReleaseLost(c, i) ==
    /\ pc[c] \in {"undo", "release"} /\ i \in pending[c]
    /\ Lose
    /\ Answered(c, i)
    /\ UNCHANGED <<value, expires, got, late, clock>>

Released(c) ==
    /\ pc[c] = "release" /\ pending[c] = {}
    /\ Goto(c, "done", {})
    /\ attempt' = [attempt EXCEPT ![c] = 0]
    /\ UNCHANGED <<value, expires, start_time, got, late, clock, lost>>

\* Time passes, and keys expire with it.
Tick ==
    /\ clock < MaxClock
    /\ clock' = clock + 1
    /\ value' = [i \in Instances |-> IF expires[i] <= clock' THEN NoKey ELSE value[i]]
    /\ expires' = [i \in Instances |-> IF expires[i] <= clock' THEN 0 ELSE expires[i]]
    /\ UNCHANGED <<callVars, late, lost>>

Quiet ==
    /\ \A c \in Calls : pc[c] = "done"
    /\ UNCHANGED vars

Next ==
    \/ \E c \in Calls :
         \/ acquire_lock(c) \/ Count(c) \/ Again(c) \/ GiveUp(c) \/ release_lock(c) \/ Released(c)
         \/ \E i \in Instances :
              \/ acquire_single_lock(c, i) \/ AcquireLost(c, i) \/ LateCommand(c, i)
              \/ ReleaseKey(c, i) \/ ReleaseLost(c, i)
    \/ Tick
    \/ Quiet

Spec == Init /\ [][Next]_vars

-----------------------------------------------------------------------------
(* Properties.                                                             *)

\* Types; only an instance that has answered is counted.
TypeOK ==
    /\ value \in [Instances -> Calls \cup {NoKey}]
    /\ expires \in [Instances -> Nat]
    /\ pc \in [Calls -> {"idle", "acquire", "undo", "held", "release", "done"}]
    /\ attempt \in [Calls -> 0..retry_count]
    /\ start_time \in [Calls -> Nat]
    /\ pending \in [Calls -> SUBSET Instances]
    /\ got \in [Calls -> SUBSET Instances]
    /\ \A c \in Calls : pc[c] = "acquire" => got[c] \cap pending[c] = {}
    /\ late \subseteq Calls \X Instances
    /\ clock \in Nat /\ lost \in Nat

\* A caller that was given the lock and is still inside its timeout.
Holds(c) == pc[c] = "held" /\ clock < start_time[c] + timeout

\* acquire_lock: whatever answers are lost and whatever late commands are
\* executed, two callers never hold the lock inside their timeouts.
MutualExclusion == \A c, d \in Calls : Holds(c) /\ Holds(d) => c = d

\* release_lock, after a failed attempt and after the critical section:
\* unless something was lost, a call that is over leaves no key behind.
NothingLeft ==
    lost = 0 => \A c \in Calls : pc[c] = "done" => \A i \in Instances : value[i] # c
=============================================================================
