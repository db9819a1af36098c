---------------------------- MODULE TimingWheel ----------------------------
(***************************************************************************)
(* The hierarchical timing wheel of CHRONOS (prog9).  Unlike ChronosJobs,  *)
(* which lets a copy fire at any time, this module keeps the buckets, the  *)
(* tick counter and the clock in seconds, and asks when a job fires.       *)
(*                                                                         *)
(* scheduleAtFixedRate runs tick number k at second k * TickDuration of    *)
(* the node's life, or up to MaxLag ticks later; jobs are added at any     *)
(* moment between two ticks, and more than once, since every fetch returns *)
(* the rows that are still PENDING.                                        *)
(***************************************************************************)
EXTENDS Integers, Sequences, FiniteSets

CONSTANTS
    Jobs,
    TickDuration,   \* timingwheel.tick.seconds
    WheelSizes,     \* buckets of each level; the first is wheelSize
    MaxLag,         \* ticks the scheduler may be behind the clock
    MaxCopies,      \* bound: how often one job is added
    Times,          \* bound: the values of scheduled_at explored
    MaxTick         \* bound: ticks explored

wheelSize == WheelSizes[1]
Levels == 0 .. (Len(WheelSizes) - 1)
Size(level) == WheelSizes[level + 1]

ASSUME WheelAssumption ==
    /\ TickDuration \in Nat \ {0} /\ MaxLag \in Nat /\ MaxCopies \in Nat /\ MaxTick \in Nat
    /\ WheelSizes \in Seq(Nat \ {0}) /\ Len(WheelSizes) > 1
    /\ Times \subseteq Nat

Never == -1
Nowhere == <<>>

VARIABLES
    sched,          \* scheduled_at of each job, in seconds
    clock,          \* Instant.now(), in seconds
    currentTick,
    wheels,         \* level -> bucket -> copies <<job, number, tick>>
    jobPositions,   \* job -> <<level, bucket>> or Nowhere
    copies,         \* how often the job was added
    firedTick       \* history: the tick in which it first fired

vars == <<sched, clock, currentTick, wheels, jobPositions, copies,
          firedTick>>

Buckets == [level \in Levels |-> 0 .. (Size(level) - 1)]

Init ==
    /\ sched \in [Jobs -> Times]
    /\ clock = 0
    /\ currentTick = 0
    /\ wheels = [level \in Levels |-> [b \in Buckets[level] |-> {}]]
    /\ jobPositions = [j \in Jobs |-> Nowhere]
    /\ copies = [j \in Jobs |-> 0]
    /\ firedTick = [j \in Jobs |-> Never]

-----------------------------------------------------------------------------
\* Seconds a bucket of each level spans.
wheelDurations[level \in Levels] ==
    IF level = 0 THEN TickDuration
                 ELSE wheelDurations[level - 1] * Size(level - 1)

\* Mutation: a delay of a whole rotation is taken into the level.
determineWheelLevelInclusive(delay) ==
    LET fits == {i \in Levels : delay <= wheelDurations[i] * Size(i)} IN
    IF fits = {} THEN Len(WheelSizes) - 1
                 ELSE CHOOSE i \in fits : \A k \in fits : i <= k

\* The lowest level whose window holds the delay, or else the highest.
determineWheelLevel(delay) ==
    LET fits == {i \in Levels : delay < wheelDurations[i] * Size(i)} IN
    IF fits = {} THEN Len(WheelSizes) - 1
                 ELSE CHOOSE i \in fits : \A k \in fits : i <= k

\* Math.pow(wheelSize, level)
powers[level \in Levels] == IF level = 0 THEN 1 ELSE powers[level - 1] * wheelSize

bucketOf(tick, level) == (tick \div powers[level]) % Size(level)

\* Where addJob puts a job now.
place(j) ==
    LET delay == IF sched[j] < clock THEN 0 ELSE sched[j] - clock
        level == determineWheelLevel(delay) IN
    <<level, bucketOf(currentTick + (delay \div TickDuration), level)>>

\* The cascades of a level come in a period that divides the span of a bucket,
\* and a job is put there at least a period before its time.  The sizes the
\* code ships with, 60, 60, 24 and 7, have the periods 60, 3600 and 7200.
ASSUME RotationAssumption ==
    \A level \in Levels \ {0} : \E period \in 1 .. powers[level] :
        /\ period * TickDuration <= wheelDurations[level]
        /\ powers[level] % period = 0
        /\ period % wheelSize = 0
        /\ \A l \in 1 .. (level - 1) : period % (wheelSize * Size(l)) = 0

jobsIn(cs) == {c[1] : c \in cs}

\* The wheels with the copies added.
added(ws, cs) ==
    [level \in Levels |-> [b \in Buckets[level] |->
        ws[level][b] \cup {c \in cs : place(c[1]) = <<level, b>>}]]

drained(ws, level, b) == [ws EXCEPT ![level][b] = {}]

\* Whether cascade(1) calls itself up to the level.
reaches(level) ==
    \A l \in 1 .. (level - 1) : currentTick % (wheelSize * Size(l)) = 0

\* cascade(1) with the calls it makes for the levels above: each drains the
\* bucket its level has reached and adds the jobs anew.  A job put into a bucket
\* that a later call drains comes back to the same place, so all may be added at
\* the end.  The result is the wheels and the jobs that were moved.
cascade(ws) ==
    LET reached == {level \in Levels \ {0} : reaches(level)}
        taken == UNION {ws[level][bucketOf(currentTick, level)] : level \in reached}
        left == [level \in Levels |-> [b \in Buckets[level] |->
                  IF level \in reached /\ b = bucketOf(currentTick, level)
                  THEN {} ELSE ws[level][b]]] IN
    [wheels |-> added(left, taken), moved |-> jobsIn(taken)]

-----------------------------------------------------------------------------
\* The clock moves on, at most MaxLag ticks ahead of the scheduler.
Second ==
    /\ clock < (currentTick + MaxLag) * TickDuration
    /\ clock' = clock + 1
    /\ UNCHANGED <<sched, currentTick, wheels, jobPositions, copies,
                   firedTick>>

addJob(j) ==
    /\ copies[j] < MaxCopies
    /\ copies' = [copies EXCEPT ![j] = @ + 1]
    /\ wheels' = added(wheels, {<<j, copies[j] + 1, currentTick>>})
    /\ jobPositions' = [jobPositions EXCEPT ![j] = place(j)]
    /\ UNCHANGED <<sched, clock, currentTick, firedTick>>

\* Mutation: the cascade comes one tick late, when its bucket is past.
rotatedLate == currentTick > 1 /\ currentTick % wheelSize = 1

\* Whether a tick that is not the first completes a rotation.
rotated == currentTick > 0 /\ currentTick % wheelSize = 0

\* Mutation: a tick that forgets to drop the positions of the jobs it fires.
positionsKept(fired, moved) ==
    [j \in Jobs |-> IF j \in moved THEN place(j) ELSE jobPositions[j]]

\* The positions after a tick: the fired jobs have none, those the cascade
\* moved have their new one.
positionsAfter(fired, moved) ==
    [j \in Jobs |-> IF j \in moved THEN place(j)
                    ELSE IF j \in fired THEN Nowhere ELSE jobPositions[j]]

\* The bucket of level 0 is drained, then a completed rotation pulls the next
\* bucket of level 1 down, then the tick is counted.
tick ==
    LET b == currentTick % wheelSize
        ready == wheels[0][b]
        left == drained(wheels, 0, b)
        next == IF rotated THEN cascade(left)
                           ELSE [wheels |-> left, moved |-> {}] IN
    /\ currentTick < MaxTick
    /\ clock >= currentTick * TickDuration
    /\ wheels' = next.wheels
    /\ jobPositions' = positionsAfter(jobsIn(ready), next.moved)
    /\ firedTick' = [j \in Jobs |->
          IF j \in jobsIn(ready) /\ firedTick[j] = Never THEN currentTick
                                                         ELSE firedTick[j]]
    /\ currentTick' = currentTick + 1
    /\ UNCHANGED <<sched, clock, copies>>

\* Only the bucket of the recorded position is searched.
removeJob(j) ==
    /\ jobPositions[j] # Nowhere
    /\ jobPositions' = [jobPositions EXCEPT ![j] = Nowhere]
    /\ LET level == jobPositions[j][1]
           b == jobPositions[j][2] IN
       wheels' = [wheels EXCEPT ![level][b] = {c \in wheels[level][b] : c[1] # j}]
    /\ UNCHANGED <<sched, clock, currentTick, copies, firedTick>>

Next ==
    \/ Second
    \/ tick
    \/ \E j \in Jobs : addJob(j) \/ removeJob(j)

Spec == Init /\ [][Next]_vars

-----------------------------------------------------------------------------
(* Properties.                                                             *)

Held == UNION {UNION {wheels[l][b] : b \in Buckets[l]} : l \in Levels}

\* A job never fires before the tick its second falls into by more than the
\* scheduler lags behind, on whatever level it was put and however often it was
\* moved (determineWheelLevel, cascade).
NeverEarly ==
    \A j \in Jobs : firedTick[j] # Never =>
        sched[j] < (firedTick[j] + MaxLag + 1) * TickDuration

\* No job is lost or stuck in the wheel: it is gone at the latest one rotation
\* after the tick that follows its time, or after it was added (cascade).
NeverStuck ==
    \A c \in Held :
        \/ currentTick <= (sched[c[1]] \div TickDuration) + 1 + wheelSize
        \/ currentTick <= c[3] + wheelSize

\* A recorded position names a bucket that holds the job, so that removeJob
\* finds it (addJob, tick and cascade keep wheels and jobPositions in step).
PositionsSound ==
    \A j \in Jobs : jobPositions[j] # Nowhere =>
        j \in jobsIn(wheels[jobPositions[j][1]][jobPositions[j][2]])
=============================================================================
