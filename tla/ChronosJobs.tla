---------------------------- MODULE ChronosJobs ----------------------------
(***************************************************************************)
(* The life of a job in CHRONOS (prog9): the jobs and failed_jobs tables   *)
(* shared by all nodes, and on every node the timing wheel's content, the  *)
(* executor threads with their heartbeats and tenant permits, the zombie   *)
(* reaper, orderly shutdown, crash and restart.                            *)
(*                                                                         *)
(* Every SQL statement is one step: between two of them any other thread   *)
(* of any node may run.  Timestamps are kept as what the code compares     *)
(* them with: a heartbeat is NULL, fresh, or older than the timeout, and   *)
(* scheduled_at is ahead of the clock or in the past.  All jobs belong to  *)
(* one tenant, so that a node has one semaphore.  A wheel holds copies of  *)
(* the rows it read; where in the wheel a copy sits is TimingWheel's       *)
(* matter, here a copy may fire at any time.                               *)
(***************************************************************************)
EXTENDS Integers, FiniteSets, FiniteSetsExt

CONSTANTS
    Nodes, Jobs,
    Tasks,             \* virtual threads that may exist at the same time
    NoOwner,           \* SQL NULL in column owner
    NoTask,            \* no entry in the map heartbeatTasks
    Shard,             \* Shard[n]: jobs with id % 10 in n's shard range
    MaxRetries,        \* column max_retries
    MaxConcurrent,     \* executor.max.concurrent.per.tenant
    FetchBatchSize,    \* fetch.batch.size
    MaxCopies,         \* bound: equal copies of a row in one wheel
    MaxAcquired,       \* bound: acquisitions of one job
    MaxErrors,         \* bound: SQL statements that throw
    MaxCrashes         \* bound: crashes and shutdowns

ASSUME ChronosAssumption ==
    /\ IsFiniteSet(Tasks)
    /\ NoOwner \notin Nodes
    /\ NoTask \notin Tasks
    /\ Shard \in [Nodes -> SUBSET Jobs]
    /\ MaxRetries \in Nat
    /\ MaxConcurrent \in Nat
    /\ FetchBatchSize \in Nat
    /\ MaxCopies \in Nat
    /\ MaxAcquired \in Nat
    /\ MaxErrors \in Nat
    /\ MaxCrashes \in Nat

Statuses == {"ABSENT", "PENDING", "LOCKED", "RUNNING", "COMPLETED", "DEAD"}

\* A Job object: the row as it was when it was read.
Snapshots == [job : Jobs, retry : Nat]
Copies == [job : Jobs, retry : Nat, copy : 1 .. MaxCopies]

VARIABLES
    status, owner, heartbeat, retry_count,  \* columns of table jobs
    due,              \* scheduled_at against the clock: "ahead" or "past"
    failed_jobs,      \* rows of table failed_jobs for the job
    mode,             \* node: "up", "stopping", "draining" or "down"
    wheel,            \* node: copies of rows waiting in the timing wheel
    task,             \* executor threads
    permits,          \* node: permits of the tenant's semaphore
    heartbeatTasks,   \* node: map from job to the future that beats for it
    beating,          \* node: scheduled futures, by their thread and job
    zombies,          \* node: rows the reaper selected and has not processed
    burying,          \* node: rows inserted in failed_jobs, not yet DEAD
    acquired,         \* history: successful acquireJob statements
    runs,             \* history: executions of the payload begun
    errors, crashes   \* used up budget of the bounds

rowVars == <<status, owner, heartbeat, retry_count>>
nodeVars == <<mode, wheel, zombies, burying>>
taskVars == <<task, permits, heartbeatTasks, beating>>
history == <<acquired, runs>>
bounds == <<errors, crashes>>
vars == <<rowVars, due, failed_jobs, nodeVars, taskVars, history, bounds>>

PCs == {"idle", "waiting", "starting", "running", "ran", "failed", "dlq",
        "finally"}

Idle == [pc |-> "idle"]
Thread == [pc : PCs \ {"idle"}, node : Nodes, job : Jobs,
           retry : Nat]

Alive(n) == mode[n] # "down"
On(t, n) == task[t] # Idle /\ task[t].node = n

\* A thread's name is free again when its future is cancelled too.
FreeTasks == {t \in Tasks : /\ task[t] = Idle
                            /\ \A n \in Nodes, j \in Jobs : <<t, j>> \notin beating[n]}

Init ==
    /\ status = [j \in Jobs |-> "ABSENT"]
    /\ owner = [j \in Jobs |-> NoOwner]
    /\ heartbeat = [j \in Jobs |-> "null"]
    /\ retry_count = [j \in Jobs |-> 0]
    /\ due = [j \in Jobs |-> "ahead"]
    /\ failed_jobs = [j \in Jobs |-> 0]
    /\ mode = [n \in Nodes |-> "up"]
    /\ wheel = [n \in Nodes |-> {}]
    /\ task = [t \in Tasks |-> Idle]
    /\ permits = [n \in Nodes |-> MaxConcurrent]
    /\ heartbeatTasks = [n \in Nodes |-> [j \in Jobs |-> NoTask]]
    /\ beating = [n \in Nodes |-> {}]
    /\ zombies = [n \in Nodes |-> {}]
    /\ burying = [n \in Nodes |-> {}]
    /\ acquired = [j \in Jobs |-> 0]
    /\ runs = [j \in Jobs |-> 0]
    /\ errors = 0
    /\ crashes = 0

-----------------------------------------------------------------------------
(* The clock.                                                              *)

\* The clock passes scheduled_at.
BecomeDue(j) ==
    /\ due[j] = "ahead"
    /\ due' = [due EXCEPT ![j] = "past"]
    /\ UNCHANGED <<rowVars, failed_jobs, nodeVars, taskVars, history, bounds>>

\* heartbeatTimeoutSeconds pass since the heartbeat was written.
HeartbeatExpires(j) ==
    /\ heartbeat[j] = "fresh"
    /\ heartbeat' = [heartbeat EXCEPT ![j] = "expired"]
    /\ UNCHANGED <<status, owner, retry_count, due, failed_jobs, nodeVars,
                   taskVars, history, bounds>>

-----------------------------------------------------------------------------
(* JobRepository: the statements.  A statement that throws has either not  *)
(* been executed ("error") or been committed with its answer lost ("lost").*)

Outcomes == {"ok"} \cup (IF errors < MaxErrors THEN {"error", "lost"} ELSE {})

Spend(o) == errors' = IF o = "ok" THEN errors ELSE errors + 1

\* UPDATE jobs SET status = s WHERE id = j: whatever the row holds.
updateJobStatus(j, s, o) ==
    /\ status' = IF o = "error" THEN status ELSE [status EXCEPT ![j] = s]
    /\ UNCHANGED <<owner, heartbeat, retry_count>>

\* UPDATE jobs SET status = 'PENDING', ... retry_count + 1 WHERE id = j.
resetZombieJob(j, o) ==
    IF o = "error"
    THEN UNCHANGED <<status, owner, heartbeat, retry_count>>
    ELSE /\ status' = [status EXCEPT ![j] = "PENDING"]
         /\ owner' = [owner EXCEPT ![j] = NoOwner]
         /\ heartbeat' = [heartbeat EXCEPT ![j] = "null"]
         /\ retry_count' = [retry_count EXCEPT ![j] = @ + 1]

\* Mutation: the WHERE clause of acquireJob without the test of the status.
acquirableAnyStatus(n, j) == status[j] # "ABSENT" /\ j \in Shard[n]

\* The WHERE clause of acquireJob.
acquirable(n, j) == status[j] = "PENDING" /\ j \in Shard[n]

\* The update of acquireJob when its WHERE clause matches.
acquireJob(n, j, o) ==
    IF o = "error"
    THEN UNCHANGED <<rowVars, acquired>>
    ELSE /\ status' = [status EXCEPT ![j] = "LOCKED"]
         /\ owner' = [owner EXCEPT ![j] = n]
         /\ heartbeat' = [heartbeat EXCEPT ![j] = "fresh"]
         /\ acquired' = [acquired EXCEPT ![j] = @ + 1]
         /\ UNCHANGED retry_count

\* The row fetchPendingJobs may return to node n.
fetchable(n, j) ==
    /\ status[j] = "PENDING"
    /\ due[j] = "ahead"
    /\ j \in Shard[n]

\* Mutation: a scan that looks for LOCKED rows.
findZombieJobsLocked ==
    {[job |-> j, retry |-> retry_count[j]] :
        j \in {k \in Jobs : status[k] = "LOCKED" /\ heartbeat[k] = "expired"}}

\* The rows findZombieJobs returns (a NULL heartbeat is older than nothing).
findZombieJobs ==
    {[job |-> j, retry |-> retry_count[j]] :
        j \in {k \in Jobs : status[k] = "RUNNING" /\ heartbeat[k] = "expired"}}

\* Inserted by a client; the columns not named take their defaults.
insertJob(j) ==
    /\ status[j] = "ABSENT"
    /\ status' = [status EXCEPT ![j] = "PENDING"]
    /\ UNCHANGED <<owner, heartbeat, retry_count, due, failed_jobs, nodeVars,
                   taskVars, history, bounds>>

-----------------------------------------------------------------------------
(* ChronosNode: fetching, firing, starting and stopping.                   *)

\* A copy of row j for a wheel that may hold earlier copies of it.  When
\* MaxCopies equal ones are there, one more would add nothing.
NewCopy(n, j) ==
    {[job |-> j, retry |-> retry_count[j], copy |-> c] : c \in
        {c \in 1 .. MaxCopies :
            /\ [job |-> j, retry |-> retry_count[j], copy |-> c] \notin wheel[n]
            /\ \A d \in 1 .. (c - 1) :
                  [job |-> j, retry |-> retry_count[j], copy |-> d] \in wheel[n]}}

\* The node reads at most a batch of the rows due later and adds a copy of
\* each to the wheel, whether the wheel holds the job already or not.
fetchJobsFromDatabase(n) ==
    LET rows == {j \in Jobs : fetchable(n, j)} IN
    /\ mode[n] = "up"
    /\ \E batch \in SUBSET rows :
          /\ Cardinality(batch) = Min({FetchBatchSize, Cardinality(rows)})
          /\ wheel' = [wheel EXCEPT
                         ![n] = @ \cup UNION {NewCopy(n, j) : j \in batch}]
    /\ UNCHANGED <<rowVars, due, failed_jobs, mode, zombies, burying,
                   taskVars, history, bounds>>

\* One ready job of a tick: acquire the row and hand the copy to a thread.
tick(n, c) ==
    /\ mode[n] = "up"
    /\ c \in wheel[n]
    /\ acquired[c.job] < MaxAcquired
    /\ wheel' = [wheel EXCEPT ![n] = @ \ {c}]
    /\ IF acquirable(n, c.job)
       THEN \E t \in FreeTasks :
               /\ acquireJob(n, c.job, "ok")
               /\ task' = [task EXCEPT ![t] = [pc |-> "waiting", node |-> n,
                                               job |-> c.job,
                                               retry |-> c.retry]]
       ELSE UNCHANGED <<rowVars, acquired, task>>
    /\ UNCHANGED <<due, failed_jobs, mode, zombies, burying, permits,
                   heartbeatTasks, beating, runs, bounds>>

\* acquireJob throws for one ready job: the handler around the loop drops
\* the ready jobs that come after it, which have left the wheel already.
tickThrows(n, c) ==
    /\ mode[n] = "up"
    /\ c \in wheel[n]
    /\ acquired[c.job] < MaxAcquired
    /\ \E o \in Outcomes \ {"ok"}, rest \in SUBSET (wheel[n] \ {c}) :
          /\ wheel' = [wheel EXCEPT ![n] = (@ \ {c}) \ rest]
          /\ IF acquirable(n, c.job) THEN acquireJob(n, c.job, o)
                                     ELSE UNCHANGED <<rowVars, acquired>>
          /\ Spend(o)
    /\ UNCHANGED <<due, failed_jobs, mode, zombies, burying, taskVars, runs,
                   crashes>>

\* stop(), first half: the reaper and the scheduler start nothing new.
stop(n) ==
    /\ mode[n] = "up"
    /\ crashes < MaxCrashes
    /\ crashes' = crashes + 1
    /\ mode' = [mode EXCEPT ![n] = "stopping"]
    /\ wheel' = [wheel EXCEPT ![n] = {}]
    /\ UNCHANGED <<rowVars, due, failed_jobs, zombies, burying, taskVars,
                   history, errors>>

\* stop(), second half: JobExecutor.shutdown cancels the heartbeats first
\* and lets the running threads go on.
shutdown(n) ==
    /\ mode[n] = "stopping"
    /\ mode' = [mode EXCEPT ![n] = "draining"]
    /\ beating' = [beating EXCEPT ![n] = {}]
    /\ UNCHANGED <<rowVars, due, failed_jobs, wheel, zombies, burying, task,
                   permits, heartbeatTasks, history, bounds>>

\* The process is gone, with everything it kept in memory.
Gone(n) ==
    /\ mode' = [mode EXCEPT ![n] = "down"]
    /\ wheel' = [wheel EXCEPT ![n] = {}]
    /\ zombies' = [zombies EXCEPT ![n] = {}]
    /\ burying' = [burying EXCEPT ![n] = {}]
    /\ task' = [t \in Tasks |-> IF On(t, n) THEN Idle ELSE task[t]]
    /\ beating' = [beating EXCEPT ![n] = {}]
    /\ heartbeatTasks' = [heartbeatTasks EXCEPT ![n] = [j \in Jobs |-> NoTask]]
    /\ UNCHANGED <<rowVars, due, failed_jobs, permits, history, errors>>

Crash(n) ==
    /\ mode[n] \in {"up", "stopping"}
    /\ crashes < MaxCrashes
    /\ crashes' = crashes + 1
    /\ Gone(n)

\* The end of stop(): repository.close() and the process exits, whatever
\* threads are left.
Exit(n) ==
    /\ mode[n] = "draining"
    /\ Gone(n)
    /\ UNCHANGED crashes

\* The constructor and start(): a new process under the configured node id.
start(n) ==
    /\ mode[n] = "down"
    /\ mode' = [mode EXCEPT ![n] = "up"]
    /\ permits' = [permits EXCEPT ![n] = MaxConcurrent]
    /\ UNCHANGED <<rowVars, due, failed_jobs, wheel, zombies, burying, task,
                   heartbeatTasks, beating, history, bounds>>

-----------------------------------------------------------------------------
(* JobExecutor: one thread from executeAsync to the end of its finally.    *)

Goto(t, pc) == task' = [task EXCEPT ![t].pc = pc]

\* Mutation: the thread goes on whether a permit is left or not.
acquirePermitUnchecked(t) ==
    /\ task[t].pc = "waiting"
    /\ permits' = [permits EXCEPT ![task[t].node] = @ - 1]
    /\ Goto(t, "starting")
    /\ heartbeatTasks' =
         [heartbeatTasks EXCEPT
                    ![task[t].node] = [@ EXCEPT ![task[t].job] = t]]
    /\ beating' = [beating EXCEPT
                     ![task[t].node] = @ \cup {<<t, task[t].job>>}]
    /\ UNCHANGED <<rowVars, due, failed_jobs, nodeVars, history, bounds>>

\* semaphore.acquire() and startHeartbeat(): the map keeps one future for a
\* job, and an earlier one it held stays scheduled.  Once shutdown() has run
\* the heartbeat executor rejects the future and the job fails.
acquirePermit(t) ==
    /\ task[t].pc = "waiting"
    /\ permits[task[t].node] > 0
    /\ permits' = [permits EXCEPT ![task[t].node] = @ - 1]
    /\ IF mode[task[t].node] = "draining"
       THEN Goto(t, "failed") /\ UNCHANGED <<heartbeatTasks, beating>>
       ELSE /\ Goto(t, "starting")
            /\ heartbeatTasks' =
                 [heartbeatTasks EXCEPT
                    ![task[t].node] = [@ EXCEPT ![task[t].job] = t]]
            /\ beating' = [beating EXCEPT
                            ![task[t].node] = @ \cup {<<t, task[t].job>>}]
    /\ UNCHANGED <<rowVars, due, failed_jobs, nodeVars, history, bounds>>

\* shutdownNow() interrupts a thread that waits for a permit.
interrupted(t) ==
    /\ task[t].pc = "waiting"
    /\ mode[task[t].node] = "draining"
    /\ Goto(t, "failed")
    /\ UNCHANGED <<rowVars, due, failed_jobs, nodeVars, permits,
                   heartbeatTasks, beating, history, bounds>>

\* A future scheduled on node n writes the heartbeat of its job's row if that
\* is RUNNING, whoever runs it.
updateHeartbeat(n, j) ==
    /\ \E t \in Tasks : <<t, j>> \in beating[n]
    /\ status[j] = "RUNNING"
    /\ heartbeat[j] # "fresh"
    /\ heartbeat' = [heartbeat EXCEPT ![j] = "fresh"]
    /\ UNCHANGED <<status, owner, retry_count, due, failed_jobs, nodeVars,
                   taskVars, history, bounds>>

\* execute(), first statement: the row is RUNNING and the payload starts.
beginExecute(t) ==
    /\ task[t].pc = "starting"
    /\ \E o \in Outcomes :
          /\ updateJobStatus(task[t].job, "RUNNING", o)
          /\ Spend(o)
          /\ IF o = "ok"
             THEN /\ Goto(t, "running")
                  /\ runs' = [runs EXCEPT ![task[t].job] = @ + 1]
             ELSE Goto(t, "failed") /\ UNCHANGED runs
    /\ UNCHANGED <<due, failed_jobs, nodeVars, permits, heartbeatTasks,
                   beating, acquired, crashes>>

\* executeWebhook, executeInternal or executeGrpc returns or throws.  The
\* webhook's own attempts are one execution.
runPayload(t) ==
    /\ task[t].pc = "running"
    /\ \E pc \in {"ran", "failed"} : Goto(t, pc)
    /\ UNCHANGED <<rowVars, due, failed_jobs, nodeVars, permits,
                   heartbeatTasks, beating, history, bounds>>

\* execute(), last statement.
endExecute(t) ==
    /\ task[t].pc = "ran"
    /\ \E o \in Outcomes :
          /\ updateJobStatus(task[t].job, "COMPLETED", o)
          /\ Spend(o)
          /\ Goto(t, IF o = "ok" THEN "finally" ELSE "failed")
    /\ UNCHANGED <<due, failed_jobs, nodeVars, permits, heartbeatTasks,
                   beating, history, crashes>>

\* Mutation: the row is marked DEAD before its record is inserted.
handleFailureDeadFirst(t) ==
    /\ task[t].pc = "failed"
    /\ IF task[t].retry + 1 >= MaxRetries
       THEN /\ updateJobStatus(task[t].job, "DEAD", "ok")
            /\ Goto(t, "dlq")
       ELSE /\ resetZombieJob(task[t].job, "ok")
            /\ Goto(t, "finally")
    /\ UNCHANGED <<due, failed_jobs, nodeVars, permits, heartbeatTasks,
                   beating, history, bounds>>

\* handleFailure() counts in the copy the thread was given, and swallows
\* what its own statements throw.
handleFailure(t) ==
    /\ task[t].pc = "failed"
    /\ \E o \in Outcomes :
          /\ Spend(o)
          /\ IF task[t].retry + 1 >= MaxRetries
             THEN /\ failed_jobs' = IF o = "error" THEN failed_jobs
                                    ELSE [failed_jobs EXCEPT ![task[t].job] = @ + 1]
                  /\ Goto(t, IF o = "ok" THEN "dlq" ELSE "finally")
                  /\ UNCHANGED <<status, owner, heartbeat, retry_count>>
             ELSE /\ resetZombieJob(task[t].job, o)
                  /\ Goto(t, "finally")
                  /\ UNCHANGED failed_jobs
    /\ UNCHANGED <<due, nodeVars, permits, heartbeatTasks, beating, history,
                   crashes>>

\* moveToDeadLetterQueue, second statement.
markDead(t) ==
    /\ task[t].pc = "dlq"
    /\ \E o \in Outcomes :
          /\ updateJobStatus(task[t].job, "DEAD", o)
          /\ Spend(o)
    /\ Goto(t, "finally")
    /\ UNCHANGED <<due, failed_jobs, nodeVars, permits, heartbeatTasks,
                   beating, history, crashes>>

\* The finally block: stopHeartbeat cancels the future the map holds for the
\* job, which may be another thread's, and a permit is released.
finish(t) ==
    LET n == task[t].node
        j == task[t].job IN
    /\ task[t].pc = "finally"
    /\ heartbeatTasks' = [heartbeatTasks EXCEPT
                          ![n] = [@ EXCEPT ![j] = NoTask]]
    /\ beating' = [beating EXCEPT ![n] = @ \ {<<heartbeatTasks[n][j], j>>}]
    /\ permits' = [permits EXCEPT ![n] = @ + 1]
    /\ task' = [task EXCEPT ![t] = Idle]
    /\ UNCHANGED <<rowVars, due, failed_jobs, nodeVars, history, bounds>>

-----------------------------------------------------------------------------
(* ZombieReaper: a scan, then one statement after the other on rows that   *)
(* may have changed since.                                                 *)

\* The SELECT of reapZombies; scheduleAtFixedRate never overlaps two scans.
scanZombies(n) ==
    /\ mode[n] = "up"
    /\ zombies[n] = {} /\ burying[n] = {}
    /\ zombies' = [zombies EXCEPT ![n] = findZombieJobs]
    /\ UNCHANGED <<rowVars, due, failed_jobs, mode, wheel, burying, taskVars,
                   history, bounds>>

\* One selected row: reset, or the first half of moveToDeadLetterQueue.  The
\* loop goes on after a statement that throws.
reapZombie(n, z) ==
    /\ Alive(n)
    /\ z \in zombies[n] /\ burying[n] = {}
    /\ zombies' = [zombies EXCEPT ![n] = @ \ {z}]
    /\ \E o \in Outcomes :
          /\ Spend(o)
          /\ IF z.retry >= MaxRetries
             THEN /\ failed_jobs' = IF o = "error" THEN failed_jobs
                                    ELSE [failed_jobs EXCEPT ![z.job] = @ + 1]
                  /\ burying' = IF o = "ok" THEN [burying EXCEPT ![n] = {z}]
                                            ELSE burying
                  /\ UNCHANGED <<status, owner, heartbeat, retry_count>>
             ELSE /\ resetZombieJob(z.job, o)
                  /\ UNCHANGED <<failed_jobs, burying>>
    /\ UNCHANGED <<due, mode, wheel, taskVars, history, crashes>>

\* moveToDeadLetterQueue, second statement.
buryZombie(n, z) ==
    /\ Alive(n)
    /\ z \in burying[n]
    /\ burying' = [burying EXCEPT ![n] = {}]
    /\ \E o \in Outcomes :
          /\ updateJobStatus(z.job, "DEAD", o)
          /\ Spend(o)
    /\ UNCHANGED <<due, failed_jobs, mode, wheel, zombies, taskVars, history,
                   crashes>>

-----------------------------------------------------------------------------
Clock == \E j \in Jobs : BecomeDue(j) \/ HeartbeatExpires(j) \/ insertJob(j)

TaskStep(t) ==
    /\ task[t] # Idle
    /\ \/ acquirePermit(t) \/ interrupted(t) \/ beginExecute(t)
       \/ runPayload(t) \/ endExecute(t) \/ handleFailure(t) \/ markDead(t)
       \/ finish(t)

NodeStep(n) ==
    \/ fetchJobsFromDatabase(n)
    \/ \E c \in wheel[n] : tick(n, c) \/ tickThrows(n, c)
    \/ stop(n) \/ shutdown(n) \/ Crash(n) \/ Exit(n) \/ start(n)
    \/ \E j \in Jobs : updateHeartbeat(n, j)
    \/ scanZombies(n)
    \/ \E z \in zombies[n] : reapZombie(n, z)
    \/ \E z \in burying[n] : buryZombie(n, z)

Next ==
    \/ Clock
    \/ \E t \in Tasks : TaskStep(t)
    \/ \E n \in Nodes : NodeStep(n)

Spec == Init /\ [][Next]_vars

\* What the schedulers of a running node repeat for ever: the fetch, the
\* ticks, the heartbeats, the reaper; and its threads go on.
Fairness ==
    /\ \A t \in Tasks : WF_vars(TaskStep(t))
    /\ \A n \in Nodes :
          /\ WF_vars(fetchJobsFromDatabase(n))
          /\ WF_vars(\E c \in wheel[n] : tick(n, c))
          /\ WF_vars(scanZombies(n))
          /\ WF_vars(\E z \in zombies[n] : reapZombie(n, z))
          /\ WF_vars(\E z \in burying[n] : buryZombie(n, z))

FairSpec == Spec /\ Fairness

-----------------------------------------------------------------------------
(* Properties.                                                             *)

TypeOK ==
    /\ status \in [Jobs -> Statuses]
    /\ owner \in [Jobs -> Nodes \cup {NoOwner}]
    /\ heartbeat \in [Jobs -> {"null", "fresh", "expired"}]
    /\ retry_count \in [Jobs -> Nat]
    /\ due \in [Jobs -> {"ahead", "past"}]
    /\ failed_jobs \in [Jobs -> Nat]
    /\ mode \in [Nodes -> {"up", "stopping", "draining", "down"}]
    /\ wheel \in [Nodes -> SUBSET Copies]
    /\ task \in [Tasks -> Thread \cup {Idle}]
    /\ permits \in [Nodes -> Nat]
    /\ heartbeatTasks \in [Nodes -> [Jobs -> Tasks \cup {NoTask}]]
    /\ beating \in [Nodes -> SUBSET (Tasks \X Jobs)]
    /\ zombies \in [Nodes -> SUBSET Snapshots]
    /\ burying \in [Nodes -> SUBSET Snapshots]
    /\ acquired \in [Jobs -> Nat]
    /\ runs \in [Jobs -> Nat]
    /\ errors \in Nat
    /\ crashes \in Nat

\* The payload of a job is executed at most once more than the row records
\* retries: with every late write, duplicate copy in a wheel, lost answer and
\* restart, a second execution needs a reset (acquireJob's WHERE clause
\* against the unconditional updates of the executor and the reaper).
ExecutionsRecorded ==
    \A j \in Jobs : runs[j] <= retry_count[j] + 1

\* A row marked DEAD has its record in failed_jobs, although the two
\* statements of moveToDeadLetterQueue are no transaction and two threads may
\* be in it for one job.
DeadIsRecorded ==
    \A j \in Jobs : status[j] = "DEAD" => failed_jobs[j] > 0

\* A row marked COMPLETED has had its payload executed, also when the thread
\* that writes it lost the row to another node long ago (JobExecutor.execute).
CompletedWasRun ==
    \A j \in Jobs : status[j] = "COMPLETED" => runs[j] > 0

\* A PENDING row carries no lease: no owner, and no heartbeat the reaper could
\* judge the next owner by; a LOCKED row names its owner and has a heartbeat
\* (acquireJob, resetZombieJob and the writes that leave both columns alone).
LeaseColumns ==
    \A j \in Jobs :
        /\ status[j] = "PENDING" => owner[j] = NoOwner /\ heartbeat[j] = "null"
        /\ status[j] = "LOCKED" => owner[j] # NoOwner /\ heartbeat[j] # "null"

\* The jobs table implements the lease that JobLease describes.
phaseOf ==
    [j \in Jobs |-> CASE status[j] = "ABSENT" -> "absent"
                      [] status[j] = "PENDING" -> "offered"
                      [] OTHER -> "taken"]

Lease == INSTANCE JobLease WITH phase <- phaseOf, grants <- acquired,
                                resets <- retry_count

\* Every behaviour of the cluster is one of JobLease: a job is granted only
\* while it is offered, and offered again only by a recorded retry.
LeaseSpec == Lease!Spec

\* A RUNNING row with an expired heartbeat is reset, buried or beaten for
\* again as long as some node stays up to reap it (ZombieReaper).
ZombieReaped ==
    \A j \in Jobs :
        (status[j] = "RUNNING" /\ heartbeat[j] = "expired")
            ~> \/ ~ (status[j] = "RUNNING" /\ heartbeat[j] = "expired")
               \/ \A n \in Nodes : mode[n] # "up"
=============================================================================
