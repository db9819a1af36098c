------------------------- MODULE ChronosJobsProofs -------------------------
(***************************************************************************)
(* Proofs about ChronosJobs for any number of nodes, jobs and threads and  *)
(* any bounds: the types, the bookkeeping of leases and executions, and    *)
(* that the jobs table implements JobLease.                                *)
(***************************************************************************)
EXTENDS ChronosJobs, FiniteSetTheorems, TLAPS

-----------------------------------------------------------------------------
(* The inductive invariant.                                                *)

\* The row alone: its lease columns, and the acquisitions against the
\* retries, a PENDING row having one acquisition to come.
RowInv ==
    \A j \in Jobs :
        /\ status[j] = "ABSENT" =>
              /\ acquired[j] = 0 /\ retry_count[j] = 0
              /\ owner[j] = NoOwner /\ heartbeat[j] = "null"
        /\ acquired[j] <= retry_count[j] + 1
        /\ status[j] = "PENDING" => acquired[j] <= retry_count[j]
        /\ status[j] = "PENDING" => owner[j] = NoOwner /\ heartbeat[j] = "null"
        /\ status[j] = "LOCKED" => owner[j] # NoOwner /\ heartbeat[j] # "null"

\* Threads and reapers only hold jobs that are in the table.
KnownInv ==
    /\ \A t \in Tasks : task[t] # Idle => status[task[t].job] # "ABSENT"
    /\ \A n \in Nodes : \A z \in zombies[n] \cup burying[n] :
          status[z.job] # "ABSENT"

\* Whoever may write COMPLETED has run the payload.
RunInv ==
    /\ \A t \in Tasks : task[t].pc \in {"running", "ran"} =>
          task[t] # Idle /\ runs[task[t].job] > 0
    /\ CompletedWasRun

\* Whoever may write DEAD has inserted the record.
DeadInv ==
    /\ \A t \in Tasks : task[t].pc = "dlq" =>
          task[t] # Idle /\ failed_jobs[task[t].job] > 0
    /\ \A n \in Nodes : \A z \in burying[n] : failed_jobs[z.job] > 0
    /\ DeadIsRecorded

\* Threads that hold an acquisition of j they have not used.
NotRun(j) ==
    {t \in Tasks : /\ task[t] # Idle
                   /\ task[t].job = j
                   /\ task[t].pc \in {"waiting", "starting"}}

\* An acquisition is used for at most one execution.
CountInv ==
    \A j \in Jobs : runs[j] + Cardinality(NotRun(j)) <= acquired[j]

-----------------------------------------------------------------------------
\* What the two shapes of a thread's value are.
LEMMA ThreadCases ==
    ASSUME TypeOK, NEW t \in Tasks, task[t] # Idle
    PROVE  /\ task[t] \in Thread
           /\ task[t].node \in Nodes /\ task[t].job \in Jobs
           /\ task[t].retry \in Nat /\ task[t].pc \in PCs \ {"idle"}
BY DEF TypeOK, Thread

\* A thread that moves on keeps its node, job and copy.
LEMMA GotoType ==
    ASSUME TypeOK, NEW t \in Tasks, task[t] # Idle,
           NEW pc \in PCs \ {"idle"}, Goto(t, pc)
    PROVE  /\ task' \in [Tasks -> Thread \cup {Idle}]
           /\ task'[t] # Idle
           /\ task'[t].pc = pc
           /\ task'[t].job = task[t].job
           /\ task'[t].node = task[t].node
           /\ \A u \in Tasks \ {t} : task'[u] = task[u]
<1>1. task[t] \in Thread
  BY ThreadCases
<1>2. task' = [task EXCEPT ![t] = [task[t] EXCEPT !.pc = pc]]
  BY <1>1 DEF Goto, TypeOK, Thread
<1>3. [task[t] EXCEPT !.pc = pc] \in Thread
  BY <1>1 DEF Thread
<1>4. [task[t] EXCEPT !.pc = pc] # Idle
  BY <1>1 DEF Thread, Idle, PCs
<1> QED
  BY <1>1, <1>2, <1>3, <1>4 DEF TypeOK, Thread

\* Spending the budget of errors keeps its type.
LEMMA SpendType ==
    ASSUME TypeOK, NEW o \in Outcomes, Spend(o)
    PROVE  errors' \in Nat
BY DEF TypeOK, Spend

\* The statements keep the types of the columns.
LEMMA UpdateType ==
    ASSUME TypeOK, NEW j \in Jobs, NEW s \in Statuses, NEW o,
           updateJobStatus(j, s, o)
    PROVE  /\ status' \in [Jobs -> Statuses]
           /\ owner' = owner /\ heartbeat' = heartbeat
           /\ retry_count' = retry_count
BY DEF TypeOK, updateJobStatus

\* resetZombieJob keeps the types of the row's columns.
LEMMA ResetType ==
    ASSUME TypeOK, NEW j \in Jobs, NEW o, resetZombieJob(j, o)
    PROVE  /\ status' \in [Jobs -> Statuses]
           /\ owner' \in [Jobs -> Nodes \cup {NoOwner}]
           /\ heartbeat' \in [Jobs -> {"null", "fresh", "expired"}]
           /\ retry_count' \in [Jobs -> Nat]
<1>1. CASE o = "error"
  BY <1>1 DEF TypeOK, resetZombieJob, rowVars
<1>2. CASE o # "error"
  <2>1. status' \in [Jobs -> Statuses]
    BY <1>2 DEF TypeOK, resetZombieJob, Statuses
  <2>2. owner' \in [Jobs -> Nodes \cup {NoOwner}]
    BY <1>2 DEF TypeOK, resetZombieJob
  <2>3. heartbeat' \in [Jobs -> {"null", "fresh", "expired"}]
    BY <1>2 DEF TypeOK, resetZombieJob
  <2>4. retry_count' \in [Jobs -> Nat]
    BY <1>2 DEF TypeOK, resetZombieJob
  <2> QED
    BY <2>1, <2>2, <2>3, <2>4
<1> QED
  BY <1>1, <1>2

\* acquireJob keeps the types of the row's columns and of acquired.
LEMMA AcquireType ==
    ASSUME TypeOK, NEW n \in Nodes, NEW j \in Jobs, NEW o, acquireJob(n, j, o)
    PROVE  /\ status' \in [Jobs -> Statuses]
           /\ owner' \in [Jobs -> Nodes \cup {NoOwner}]
           /\ heartbeat' \in [Jobs -> {"null", "fresh", "expired"}]
           /\ retry_count' \in [Jobs -> Nat]
           /\ acquired' \in [Jobs -> Nat]
<1>1. CASE o = "error"
  BY <1>1 DEF TypeOK, acquireJob, rowVars
<1>2. CASE o # "error"
  <2>1. status' \in [Jobs -> Statuses]
    BY <1>2 DEF TypeOK, acquireJob, Statuses
  <2>2. owner' \in [Jobs -> Nodes \cup {NoOwner}]
    BY <1>2 DEF TypeOK, acquireJob
  <2>3. heartbeat' \in [Jobs -> {"null", "fresh", "expired"}]
    BY <1>2 DEF TypeOK, acquireJob
  <2>4. acquired' \in [Jobs -> Nat] /\ retry_count' = retry_count
    BY <1>2 DEF TypeOK, acquireJob
  <2> QED
    BY <2>1, <2>2, <2>3, <2>4 DEF TypeOK
<1> QED
  BY <1>1, <1>2

-----------------------------------------------------------------------------
(* The type invariant.                                                     *)

\* The initial state is well typed.
LEMMA TypeInit == Init => TypeOK
BY ChronosAssumption DEF Init, TypeOK, Statuses, Thread

\* A step of the clock or of a client keeps the types.
LEMMA TypeClock == ASSUME TypeOK, Clock PROVE TypeOK'
<1> USE DEF rowVars, nodeVars, taskVars, history, bounds
<1>1. PICK j \in Jobs : BecomeDue(j) \/ HeartbeatExpires(j) \/ insertJob(j)
  BY DEF Clock
<1>2. CASE BecomeDue(j)
  BY <1>2 DEF TypeOK, BecomeDue
<1>3. CASE HeartbeatExpires(j)
  BY <1>3 DEF TypeOK, HeartbeatExpires
<1>4. CASE insertJob(j)
  BY <1>4 DEF TypeOK, insertJob, Statuses
<1> QED
  BY <1>1, <1>2, <1>3, <1>4

\* A step of a thread keeps the types.
LEMMA TypeTask == ASSUME TypeOK, NEW t \in Tasks, TaskStep(t) PROVE TypeOK'
<1> USE DEF rowVars, nodeVars, taskVars, history, bounds
<1>0. task[t] # Idle /\ task[t] \in Thread /\ task[t].node \in Nodes
      /\ task[t].job \in Jobs /\ task[t].retry \in Nat
  BY ThreadCases DEF TaskStep
<1>a. {"failed", "starting", "running", "ran", "dlq", "finally"} \subseteq PCs \ {"idle"}
  BY DEF PCs
<1>1. CASE acquirePermit(t)
  <2>1. task' \in [Tasks -> Thread \cup {Idle}]
    BY <1>0, <1>1, <1>a, GotoType DEF acquirePermit
  <2>2. permits' \in [Nodes -> Nat]
    BY <1>0, <1>1 DEF acquirePermit, TypeOK
  <2>3. heartbeatTasks' \in [Nodes -> [Jobs -> Tasks \cup {NoTask}]]
    <3>1. [heartbeatTasks[task[t].node] EXCEPT ![task[t].job] = t]
            \in [Jobs -> Tasks \cup {NoTask}]
      BY <1>0 DEF TypeOK
    <3> QED
      BY <1>0, <1>1, <3>1 DEF acquirePermit, TypeOK
  <2>4. beating' \in [Nodes -> SUBSET (Tasks \X Jobs)]
    <3>1. beating[task[t].node] \cup {<<t, task[t].job>>} \in SUBSET (Tasks \X Jobs)
      BY <1>0 DEF TypeOK
    <3> QED
      BY <1>0, <1>1, <3>1 DEF acquirePermit, TypeOK
  <2> QED
    BY <1>1, <2>1, <2>2, <2>3, <2>4 DEF acquirePermit, TypeOK
<1>2. CASE interrupted(t)
  <2>1. task' \in [Tasks -> Thread \cup {Idle}]
    BY <1>0, <1>2, <1>a, GotoType DEF interrupted
  <2> QED
    BY <1>2, <2>1 DEF interrupted, TypeOK
<1>3. CASE beginExecute(t)
  <2>1. PICK o \in Outcomes :
          /\ updateJobStatus(task[t].job, "RUNNING", o)
          /\ Spend(o)
          /\ \/ Goto(t, "running") /\ runs' = [runs EXCEPT ![task[t].job] = @ + 1]
             \/ Goto(t, "failed") /\ UNCHANGED runs
    BY <1>3 DEF beginExecute
  <2>2. task' \in [Tasks -> Thread \cup {Idle}]
    BY <1>0, <1>a, <2>1, GotoType
  <2>3. status' \in [Jobs -> Statuses] /\ owner' = owner
        /\ heartbeat' = heartbeat /\ retry_count' = retry_count
    BY <1>0, <2>1, UpdateType DEF Statuses
  <2>4. errors' \in Nat /\ runs' \in [Jobs -> Nat]
    BY <1>0, <2>1, SpendType DEF TypeOK
  <2> QED
    BY <1>3, <2>2, <2>3, <2>4 DEF beginExecute, TypeOK
<1>4. CASE runPayload(t)
  <2>1. task' \in [Tasks -> Thread \cup {Idle}]
    BY <1>0, <1>4, <1>a, GotoType DEF runPayload
  <2> QED
    BY <1>4, <2>1 DEF runPayload, TypeOK
<1>5. CASE endExecute(t)
  <2>1. PICK o \in Outcomes :
          /\ updateJobStatus(task[t].job, "COMPLETED", o)
          /\ Spend(o)
          /\ Goto(t, "finally") \/ Goto(t, "failed")
    BY <1>5 DEF endExecute
  <2>2. task' \in [Tasks -> Thread \cup {Idle}]
    BY <1>0, <1>a, <2>1, GotoType
  <2>3. status' \in [Jobs -> Statuses] /\ owner' = owner
        /\ heartbeat' = heartbeat /\ retry_count' = retry_count
    BY <1>0, <2>1, UpdateType DEF Statuses
  <2>4. errors' \in Nat
    BY <2>1, SpendType
  <2> QED
    BY <1>5, <2>2, <2>3, <2>4 DEF endExecute, TypeOK
<1>6. CASE handleFailure(t)
  <2>1. PICK o \in Outcomes :
          /\ Spend(o)
          /\ \/ /\ failed_jobs' = failed_jobs
                   \/ failed_jobs' = [failed_jobs EXCEPT ![task[t].job] = @ + 1]
                /\ Goto(t, "dlq") \/ Goto(t, "finally")
                /\ UNCHANGED <<status, owner, heartbeat, retry_count>>
             \/ /\ resetZombieJob(task[t].job, o)
                /\ Goto(t, "finally")
                /\ UNCHANGED failed_jobs
    BY <1>6 DEF handleFailure
  <2>2. task' \in [Tasks -> Thread \cup {Idle}]
    BY <1>0, <1>a, <2>1, GotoType
  <2>3. /\ status' \in [Jobs -> Statuses]
        /\ owner' \in [Jobs -> Nodes \cup {NoOwner}]
        /\ heartbeat' \in [Jobs -> {"null", "fresh", "expired"}]
        /\ retry_count' \in [Jobs -> Nat]
    BY <1>0, <2>1, ResetType DEF TypeOK
  <2>4. errors' \in Nat /\ failed_jobs' \in [Jobs -> Nat]
    BY <1>0, <2>1, SpendType DEF TypeOK
  <2> QED
    BY <1>6, <2>2, <2>3, <2>4 DEF handleFailure, TypeOK
<1>7. CASE markDead(t)
  <2>1. task' \in [Tasks -> Thread \cup {Idle}]
    BY <1>0, <1>7, <1>a, GotoType DEF markDead
  <2>2. PICK o \in Outcomes : updateJobStatus(task[t].job, "DEAD", o) /\ Spend(o)
    BY <1>7 DEF markDead
  <2>3. status' \in [Jobs -> Statuses] /\ owner' = owner
        /\ heartbeat' = heartbeat /\ retry_count' = retry_count
    BY <1>0, <2>2, UpdateType DEF Statuses
  <2>4. errors' \in Nat
    BY <2>2, SpendType
  <2> QED
    BY <1>7, <2>1, <2>3, <2>4 DEF markDead, TypeOK
<1>8. CASE finish(t)
  BY <1>0, <1>8 DEF finish, TypeOK
<1> QED
  BY <1>1, <1>2, <1>3, <1>4, <1>5, <1>6, <1>7, <1>8 DEF TaskStep

\* A process that is gone leaves well-typed state behind.
LEMMA TypeGone == ASSUME TypeOK, NEW n \in Nodes, Gone(n), crashes' \in Nat
                  PROVE  TypeOK'
<1> USE DEF rowVars, history
<1>1. task' \in [Tasks -> Thread \cup {Idle}]
  BY DEF Gone, TypeOK
<1>2. heartbeatTasks' \in [Nodes -> [Jobs -> Tasks \cup {NoTask}]]
  BY DEF Gone, TypeOK
<1>3. /\ wheel' \in [Nodes -> SUBSET Copies]
      /\ zombies' \in [Nodes -> SUBSET Snapshots]
      /\ burying' \in [Nodes -> SUBSET Snapshots]
      /\ beating' \in [Nodes -> SUBSET (Tasks \X Jobs)]
  BY DEF Gone, TypeOK
<1>4. mode' \in [Nodes -> {"up", "stopping", "draining", "down"}]
  BY DEF Gone, TypeOK
<1> QED
  BY <1>1, <1>2, <1>3, <1>4 DEF Gone, TypeOK

\* A step of a node keeps the types.
LEMMA TypeNode == ASSUME TypeOK, NEW n \in Nodes, NodeStep(n) PROVE TypeOK'
<1> USE DEF rowVars, nodeVars, taskVars, history, bounds
<1>1. CASE fetchJobsFromDatabase(n)
  <2>1. \A j \in Jobs : NewCopy(n, j) \subseteq Copies
    <3> SUFFICES ASSUME NEW j \in Jobs, NEW x \in NewCopy(n, j)
                 PROVE  x \in Copies
      OBVIOUS
    <3>1. PICK c \in 1 .. MaxCopies :
            x = [job |-> j, retry |-> retry_count[j], copy |-> c]
      BY Zenon DEF NewCopy
    <3>2. retry_count[j] \in Nat
      BY DEF TypeOK
    <3> QED
      BY <3>1, <3>2 DEF Copies
  <2>2. PICK batch \in SUBSET Jobs :
          wheel' = [wheel EXCEPT ![n] = @ \cup UNION {NewCopy(n, j) : j \in batch}]
    BY <1>1 DEF fetchJobsFromDatabase
  <2>3. wheel[n] \cup UNION {NewCopy(n, j) : j \in batch} \in SUBSET Copies
    BY <2>1 DEF TypeOK
  <2>4. wheel' \in [Nodes -> SUBSET Copies]
    BY <2>2, <2>3 DEF TypeOK
  <2> QED
    BY <1>1, <2>4 DEF fetchJobsFromDatabase, TypeOK
<1>2. ASSUME NEW c \in wheel[n], tick(n, c) PROVE TypeOK'
  <2>1. c \in Copies /\ c.job \in Jobs /\ c.retry \in Nat
    BY DEF TypeOK, Copies
  <2>2. wheel' \in [Nodes -> SUBSET Copies]
    BY <1>2 DEF tick, TypeOK
  <2>3. CASE ~ acquirable(n, c.job)
    BY <1>2, <2>2, <2>3 DEF tick, TypeOK
  <2>4. CASE acquirable(n, c.job)
    <3>1. PICK t \in Tasks :
            /\ acquireJob(n, c.job, "ok")
            /\ task' = [task EXCEPT ![t] = [pc |-> "waiting", node |-> n,
                                            job |-> c.job, retry |-> c.retry]]
      BY <1>2, <2>4 DEF tick, FreeTasks
    <3>2. [pc |-> "waiting", node |-> n, job |-> c.job, retry |-> c.retry] \in Thread
      BY <2>1 DEF Thread, PCs
    <3>3. task' \in [Tasks -> Thread \cup {Idle}]
      BY <3>1, <3>2 DEF TypeOK
    <3>4. /\ status' \in [Jobs -> Statuses]
          /\ owner' \in [Jobs -> Nodes \cup {NoOwner}]
          /\ heartbeat' \in [Jobs -> {"null", "fresh", "expired"}]
          /\ retry_count' \in [Jobs -> Nat]
          /\ acquired' \in [Jobs -> Nat]
      BY <2>1, <3>1, AcquireType
    <3> QED
      BY <1>2, <2>2, <3>3, <3>4 DEF tick, TypeOK
  <2> QED
    BY <2>3, <2>4
<1>3. ASSUME NEW c \in wheel[n], tickThrows(n, c) PROVE TypeOK'
  <2>1. c \in Copies /\ c.job \in Jobs
    BY DEF TypeOK, Copies
  <2>2. PICK o \in Outcomes, rest \in SUBSET (wheel[n] \ {c}) :
          /\ wheel' = [wheel EXCEPT ![n] = (@ \ {c}) \ rest]
          /\ \/ acquireJob(n, c.job, o)
             \/ UNCHANGED <<rowVars, acquired>>
          /\ Spend(o)
    BY <1>3 DEF tickThrows
  <2>3. wheel' \in [Nodes -> SUBSET Copies]
    BY <2>2 DEF TypeOK
  <2>4. /\ status' \in [Jobs -> Statuses]
        /\ owner' \in [Jobs -> Nodes \cup {NoOwner}]
        /\ heartbeat' \in [Jobs -> {"null", "fresh", "expired"}]
        /\ retry_count' \in [Jobs -> Nat]
        /\ acquired' \in [Jobs -> Nat]
    <3>1. CASE acquireJob(n, c.job, o)
      BY <2>1, <3>1, AcquireType
    <3>2. CASE UNCHANGED <<rowVars, acquired>>
      BY <3>2 DEF TypeOK
    <3> QED
      BY <2>2, <3>1, <3>2
  <2>5. errors' \in Nat
    BY <2>2, SpendType
  <2> QED
    BY <1>3, <2>3, <2>4, <2>5 DEF tickThrows, TypeOK
<1>4. CASE stop(n)
  <2>1. wheel' \in [Nodes -> SUBSET Copies]
    BY <1>4 DEF stop, TypeOK
  <2>2. mode' \in [Nodes -> {"up", "stopping", "draining", "down"}]
    BY <1>4 DEF stop, TypeOK
  <2> QED
    BY <1>4, <2>1, <2>2 DEF stop, TypeOK
<1>5. CASE shutdown(n)
  <2>1. beating' \in [Nodes -> SUBSET (Tasks \X Jobs)]
    BY <1>5 DEF shutdown, TypeOK
  <2>2. mode' \in [Nodes -> {"up", "stopping", "draining", "down"}]
    BY <1>5 DEF shutdown, TypeOK
  <2> QED
    BY <1>5, <2>1, <2>2 DEF shutdown, TypeOK
<1>6. CASE Crash(n)
  <2>1. crashes' \in Nat
    BY <1>6 DEF Crash, TypeOK
  <2> QED
    BY <1>6, <2>1, TypeGone DEF Crash
<1>7. CASE Exit(n)
  <2>1. crashes' \in Nat
    BY <1>7 DEF Exit, TypeOK
  <2> QED
    BY <1>7, <2>1, TypeGone DEF Exit
<1>8. CASE start(n)
  <2>1. permits' \in [Nodes -> Nat]
    BY <1>8, ChronosAssumption DEF start, TypeOK
  <2>2. mode' \in [Nodes -> {"up", "stopping", "draining", "down"}]
    BY <1>8 DEF start, TypeOK
  <2> QED
    BY <1>8, <2>1, <2>2 DEF start, TypeOK
<1>9. ASSUME NEW j \in Jobs, updateHeartbeat(n, j) PROVE TypeOK'
  <2>1. heartbeat' \in [Jobs -> {"null", "fresh", "expired"}]
    BY <1>9 DEF updateHeartbeat, TypeOK
  <2> QED
    BY <1>9, <2>1 DEF updateHeartbeat, TypeOK
<1>10. CASE scanZombies(n)
  <2>1. findZombieJobs \in SUBSET Snapshots
    BY DEF findZombieJobs, Snapshots, TypeOK
  <2>2. zombies' \in [Nodes -> SUBSET Snapshots]
    BY <1>10, <2>1 DEF scanZombies, TypeOK
  <2> QED
    BY <1>10, <2>2 DEF scanZombies, TypeOK
<1>11. ASSUME NEW z \in zombies[n], reapZombie(n, z) PROVE TypeOK'
  <2>1. z \in Snapshots /\ z.job \in Jobs
    BY DEF TypeOK, Snapshots
  <2>2. PICK o \in Outcomes :
          /\ Spend(o)
          /\ \/ /\ failed_jobs' = failed_jobs
                   \/ failed_jobs' = [failed_jobs EXCEPT ![z.job] = @ + 1]
                /\ burying' = [burying EXCEPT ![n] = {z}] \/ burying' = burying
                /\ UNCHANGED <<status, owner, heartbeat, retry_count>>
             \/ /\ resetZombieJob(z.job, o)
                /\ UNCHANGED <<failed_jobs, burying>>
    BY <1>11 DEF reapZombie
  <2>3. zombies' \in [Nodes -> SUBSET Snapshots]
    BY <1>11 DEF reapZombie, TypeOK
  <2>4. burying' \in [Nodes -> SUBSET Snapshots]
    <3>1. burying' = [burying EXCEPT ![n] = {z}] \/ burying' = burying
      BY <2>2
    <3>2. {z} \in SUBSET Snapshots
      BY <2>1
    <3> QED
      BY <3>1, <3>2 DEF TypeOK
  <2>5. /\ status' \in [Jobs -> Statuses]
        /\ owner' \in [Jobs -> Nodes \cup {NoOwner}]
        /\ heartbeat' \in [Jobs -> {"null", "fresh", "expired"}]
        /\ retry_count' \in [Jobs -> Nat]
    <3>1. CASE resetZombieJob(z.job, o)
      BY <2>1, <3>1, ResetType
    <3>2. CASE UNCHANGED <<status, owner, heartbeat, retry_count>>
      BY <3>2 DEF TypeOK
    <3> QED
      BY <2>2, <3>1, <3>2
  <2>6. errors' \in Nat /\ failed_jobs' \in [Jobs -> Nat]
    BY <2>1, <2>2, SpendType DEF TypeOK
  <2> QED
    BY <1>11, <2>3, <2>4, <2>5, <2>6 DEF reapZombie, TypeOK
<1>12. ASSUME NEW z \in burying[n], buryZombie(n, z) PROVE TypeOK'
  <2>1. z.job \in Jobs
    BY DEF TypeOK, Snapshots
  <2>2. PICK o \in Outcomes : updateJobStatus(z.job, "DEAD", o) /\ Spend(o)
    BY <1>12 DEF buryZombie
  <2>3. status' \in [Jobs -> Statuses] /\ owner' = owner
        /\ heartbeat' = heartbeat /\ retry_count' = retry_count
    BY <2>1, <2>2, UpdateType DEF Statuses
  <2>4. errors' \in Nat
    BY <2>2, SpendType
  <2>5. burying' = [burying EXCEPT ![n] = {}]
    BY <1>12 DEF buryZombie
  <2>6. burying' \in [Nodes -> SUBSET Snapshots]
    BY <2>5 DEF TypeOK
  <2> QED
    BY <1>12, <2>3, <2>4, <2>6 DEF buryZombie, TypeOK
<1> QED
  BY <1>1, <1>2, <1>3, <1>4, <1>5, <1>6, <1>7, <1>8, <1>9, <1>10, <1>11, <1>12
  DEF NodeStep

\* Every step keeps the types.
LEMMA TypeNext == TypeOK /\ [Next]_vars => TypeOK'
<1> SUFFICES ASSUME TypeOK, [Next]_vars PROVE TypeOK'
  OBVIOUS
<1>1. CASE Next
  BY <1>1, TypeClock, TypeTask, TypeNode DEF Next
<1>2. CASE UNCHANGED vars
  BY <1>2 DEF vars, TypeOK, rowVars, nodeVars, taskVars, history, bounds
<1> QED
  BY <1>1, <1>2

\* All variables of the cluster keep their types.
THEOREM TypeCorrect == Spec => []TypeOK
BY TypeInit, TypeNext, PTL DEF Spec

-----------------------------------------------------------------------------
(* The row.  Whatever the threads do, a step touches one row in one of six *)
(* ways.                                                                   *)

RowQuiet == UNCHANGED <<status, owner, heartbeat, retry_count, acquired>>

RowInsert(j) ==
    /\ status[j] = "ABSENT"
    /\ status' = [status EXCEPT ![j] = "PENDING"]
    /\ UNCHANGED <<owner, heartbeat, retry_count, acquired>>

RowBeat(j, h) ==
    /\ heartbeat[j] = "fresh" \/ status[j] = "RUNNING"
    /\ h # "null"
    /\ heartbeat' = [heartbeat EXCEPT ![j] = h]
    /\ UNCHANGED <<status, owner, retry_count, acquired>>

RowWrite(j, s) ==
    /\ status[j] # "ABSENT"
    /\ s \in {"RUNNING", "COMPLETED", "DEAD"}
    /\ status' = [status EXCEPT ![j] = s]
    /\ UNCHANGED <<owner, heartbeat, retry_count, acquired>>

RowReset(j) ==
    /\ status[j] # "ABSENT"
    /\ status' = [status EXCEPT ![j] = "PENDING"]
    /\ owner' = [owner EXCEPT ![j] = NoOwner]
    /\ heartbeat' = [heartbeat EXCEPT ![j] = "null"]
    /\ retry_count' = [retry_count EXCEPT ![j] = @ + 1]
    /\ UNCHANGED acquired

RowAcquire(n, j) ==
    /\ status[j] = "PENDING"
    /\ status' = [status EXCEPT ![j] = "LOCKED"]
    /\ owner' = [owner EXCEPT ![j] = n]
    /\ heartbeat' = [heartbeat EXCEPT ![j] = "fresh"]
    /\ acquired' = [acquired EXCEPT ![j] = @ + 1]
    /\ UNCHANGED retry_count

RowStep ==
    \/ RowQuiet
    \/ \E j \in Jobs :
          \/ RowInsert(j)
          \/ \E h \in {"fresh", "expired"} : RowBeat(j, h)
          \/ \E s \in {"RUNNING", "COMPLETED", "DEAD"} : RowWrite(j, s)
          \/ RowReset(j)
          \/ \E n \in Nodes : RowAcquire(n, j)

\* The statements of JobRepository as row steps.
LEMMA UpdateRow ==
    ASSUME NEW j \in Jobs, NEW s \in {"RUNNING", "COMPLETED", "DEAD"}, NEW o,
           status[j] # "ABSENT", updateJobStatus(j, s, o), acquired' = acquired
    PROVE  RowStep
<1>1. RowQuiet \/ RowWrite(j, s)
  BY DEF updateJobStatus, RowQuiet, RowWrite
<1> QED
  BY <1>1 DEF RowStep

\* resetZombieJob is one of the abstract steps of a row.
LEMMA ResetRow ==
    ASSUME NEW j \in Jobs, NEW o,
           status[j] # "ABSENT", resetZombieJob(j, o), acquired' = acquired
    PROVE  RowStep
<1>1. RowQuiet \/ RowReset(j)
  BY DEF resetZombieJob, RowQuiet, RowReset
<1> QED
  BY <1>1 DEF RowStep

\* acquireJob of a row that may be acquired is an abstract step of the row.
LEMMA AcquireRow ==
    ASSUME NEW n \in Nodes, NEW j \in Jobs, NEW o,
           acquirable(n, j), acquireJob(n, j, o)
    PROVE  RowStep
<1>1. RowQuiet \/ RowAcquire(n, j)
  BY DEF acquirable, acquireJob, RowQuiet, RowAcquire, rowVars
<1> QED
  BY <1>1 DEF RowStep

\* Every step of the cluster is a row step.
LEMMA EveryRowStep == ASSUME TypeOK, KnownInv, Next PROVE RowStep
<1> USE DEF rowVars, nodeVars, taskVars, history, bounds
<1>1. ASSUME NEW j \in Jobs, BecomeDue(j) \/ HeartbeatExpires(j) \/ insertJob(j)
      PROVE  RowStep
  <2>1. RowQuiet \/ RowBeat(j, "expired") \/ RowInsert(j)
    BY <1>1 DEF BecomeDue, HeartbeatExpires, insertJob, RowQuiet, RowBeat, RowInsert
  <2> QED
    BY <2>1 DEF RowStep
<1>2. ASSUME NEW t \in Tasks, TaskStep(t) PROVE RowStep
  <2>1. task[t] # Idle /\ task[t].job \in Jobs /\ status[task[t].job] # "ABSENT"
    BY <1>2, ThreadCases DEF TaskStep, KnownInv
  <2>2. CASE acquirePermit(t) \/ interrupted(t) \/ runPayload(t) \/ finish(t)
    BY <2>2 DEF acquirePermit, interrupted, runPayload, finish, RowStep, RowQuiet
  <2>3. CASE beginExecute(t)
    BY <2>1, <2>3, UpdateRow DEF beginExecute
  <2>4. CASE endExecute(t)
    BY <2>1, <2>4, UpdateRow DEF endExecute
  <2>5. CASE markDead(t)
    BY <2>1, <2>5, UpdateRow DEF markDead
  <2>6. CASE handleFailure(t)
    <3>1. \/ RowQuiet
          \/ \E o \in Outcomes : resetZombieJob(task[t].job, o) /\ acquired' = acquired
      BY <2>6 DEF handleFailure, RowQuiet
    <3> QED
      BY <2>1, <3>1, ResetRow DEF RowStep
  <2> QED
    BY <1>2, <2>2, <2>3, <2>4, <2>5, <2>6 DEF TaskStep
<1>3. ASSUME NEW n \in Nodes, NodeStep(n) PROVE RowStep
  <2>1. CASE \/ fetchJobsFromDatabase(n) \/ stop(n) \/ shutdown(n) \/ start(n)
             \/ scanZombies(n)
    BY <2>1 DEF fetchJobsFromDatabase, stop, shutdown, start, scanZombies,
                RowStep, RowQuiet
  <2>2. CASE Crash(n) \/ Exit(n)
    BY <2>2 DEF Crash, Exit, Gone, RowStep, RowQuiet
  <2>3. ASSUME NEW c \in wheel[n], tick(n, c) PROVE RowStep
    <3>1. c.job \in Jobs
      BY DEF TypeOK, Copies
    <3>2. RowQuiet \/ (acquirable(n, c.job) /\ acquireJob(n, c.job, "ok"))
      BY <2>3 DEF tick, RowQuiet
    <3> QED
      BY <3>1, <3>2, AcquireRow DEF RowStep
  <2>4. ASSUME NEW c \in wheel[n], tickThrows(n, c) PROVE RowStep
    <3>1. c.job \in Jobs
      BY DEF TypeOK, Copies
    <3>2. \/ RowQuiet
          \/ \E o \in Outcomes : acquirable(n, c.job) /\ acquireJob(n, c.job, o)
      BY <2>4 DEF tickThrows, RowQuiet
    <3> QED
      BY <3>1, <3>2, AcquireRow DEF RowStep
  <2>5. ASSUME NEW j \in Jobs, updateHeartbeat(n, j) PROVE RowStep
    <3>1. RowBeat(j, "fresh")
      BY <2>5 DEF updateHeartbeat, RowBeat
    <3> QED
      BY <3>1 DEF RowStep
  <2>6. ASSUME NEW z \in zombies[n], reapZombie(n, z) PROVE RowStep
    <3>1. z.job \in Jobs /\ status[z.job] # "ABSENT"
      BY DEF TypeOK, Snapshots, KnownInv
    <3>2. \/ RowQuiet
          \/ \E o \in Outcomes : resetZombieJob(z.job, o) /\ acquired' = acquired
      BY <2>6 DEF reapZombie, RowQuiet
    <3> QED
      BY <3>1, <3>2, ResetRow DEF RowStep
  <2>7. ASSUME NEW z \in burying[n], buryZombie(n, z) PROVE RowStep
    <3>1. z.job \in Jobs /\ status[z.job] # "ABSENT"
      BY DEF TypeOK, Snapshots, KnownInv
    <3>2. \E o \in Outcomes : updateJobStatus(z.job, "DEAD", o) /\ acquired' = acquired
      BY <2>7 DEF buryZombie
    <3> QED
      BY <3>1, <3>2, UpdateRow
  <2> QED
    BY <1>3, <2>1, <2>2, <2>3, <2>4, <2>5, <2>6, <2>7 DEF NodeStep
<1> QED
  BY <1>1, <1>2, <1>3 DEF Next, Clock

\* A row step keeps the row's invariant.
LEMMA RowInvStep == ASSUME TypeOK, RowInv, RowStep PROVE RowInv'
<1>1. CASE RowQuiet
  BY <1>1 DEF RowQuiet, RowInv
<1>2. ASSUME NEW j \in Jobs, RowInsert(j) PROVE RowInv'
  BY <1>2 DEF RowInsert, RowInv, TypeOK
<1>3. ASSUME NEW j \in Jobs, NEW h \in {"fresh", "expired"}, RowBeat(j, h)
      PROVE  RowInv'
  BY <1>3 DEF RowBeat, RowInv, TypeOK
<1>4. ASSUME NEW j \in Jobs, NEW s \in {"RUNNING", "COMPLETED", "DEAD"},
             RowWrite(j, s)
      PROVE  RowInv'
  BY <1>4 DEF RowWrite, RowInv, TypeOK
<1>5. ASSUME NEW j \in Jobs, RowReset(j) PROVE RowInv'
  BY <1>5 DEF RowReset, RowInv, TypeOK
<1>6. ASSUME NEW n \in Nodes, NEW j \in Jobs, RowAcquire(n, j) PROVE RowInv'
  BY <1>6, ChronosAssumption DEF RowAcquire, RowInv, TypeOK
<1> QED
  BY <1>1, <1>2, <1>3, <1>4, <1>5, <1>6 DEF RowStep

\* No statement deletes a row.
LEMMA RowStays ==
    ASSUME TypeOK, RowStep, NEW j \in Jobs, status[j] # "ABSENT"
    PROVE  status'[j] # "ABSENT"
BY DEF RowStep, RowQuiet, RowInsert, RowBeat, RowWrite, RowReset, RowAcquire,
       TypeOK

-----------------------------------------------------------------------------
(* The threads.  A step leaves them alone, moves one on, ends some or      *)
(* starts one on a job just acquired.                                      *)

ThreadsEnd ==
    \A u \in Tasks : task'[u] = task[u] \/ task'[u] = Idle

ThreadMoves(t) ==
    /\ task[t] # Idle
    /\ task'[t] # Idle
    /\ task'[t].job = task[t].job
    /\ \A u \in Tasks \ {t} : task'[u] = task[u]

ThreadStarts(t) ==
    /\ task[t] = Idle
    /\ task'[t] # Idle
    /\ task'[t].job \in Jobs
    /\ task'[t].pc = "waiting"
    /\ status[task'[t].job] = "PENDING"
    /\ acquired' = [acquired EXCEPT ![task'[t].job] = @ + 1]
    /\ \A u \in Tasks \ {t} : task'[u] = task[u]

\* What a step of a live thread does to the threads.
LEMMA OneThread ==
    ASSUME TypeOK, NEW t \in Tasks, TaskStep(t)
    PROVE  ThreadMoves(t) \/ (ThreadsEnd /\ finish(t))
<1>0. task[t] # Idle
  BY DEF TaskStep
<1>a. {"failed", "starting", "running", "ran", "dlq", "finally"} \subseteq PCs \ {"idle"}
  BY DEF PCs
<1>1. CASE finish(t)
  BY <1>1 DEF finish, ThreadsEnd, TypeOK
<1>2. CASE ~ finish(t)
  <2>1. \E pc \in PCs \ {"idle"} : Goto(t, pc)
    BY <1>2, <1>a DEF TaskStep, acquirePermit, interrupted, beginExecute,
       runPayload, endExecute, handleFailure, markDead
  <2> QED
    BY <1>0, <2>1, GotoType DEF ThreadMoves
<1> QED
  BY <1>1, <1>2

\* What a step of a node does to the threads.
LEMMA NodeThreads ==
    ASSUME TypeOK, NEW n \in Nodes, NodeStep(n)
    PROVE  \/ ThreadsEnd /\ UNCHANGED runs
           \/ \E t \in Tasks : ThreadStarts(t) /\ UNCHANGED <<runs, failed_jobs>>
<1> USE DEF rowVars, nodeVars, taskVars, history, bounds
<1>1. CASE Crash(n) \/ Exit(n)
  BY <1>1 DEF Crash, Exit, Gone, ThreadsEnd
<1>2. ASSUME NEW c \in wheel[n], tick(n, c), acquirable(n, c.job)
      PROVE  \E t \in Tasks : ThreadStarts(t) /\ UNCHANGED <<runs, failed_jobs>>
  <2>1. PICK t \in Tasks :
          /\ task[t] = Idle
          /\ acquireJob(n, c.job, "ok")
          /\ task' = [task EXCEPT ![t] = [pc |-> "waiting", node |-> n,
                                          job |-> c.job, retry |-> c.retry]]
    BY <1>2 DEF tick, FreeTasks
  <2>2. c.job \in Jobs
    BY DEF TypeOK, Copies
  <2>3. task'[t] = [pc |-> "waiting", node |-> n, job |-> c.job, retry |-> c.retry]
    BY <2>1 DEF TypeOK
  <2>4. task'[t] # Idle
    BY <2>3 DEF Idle
  <2>5. acquired' = [acquired EXCEPT ![c.job] = @ + 1] /\ status[c.job] = "PENDING"
    BY <1>2, <2>1 DEF acquireJob, acquirable
  <2>6. ThreadStarts(t)
    BY <2>1, <2>2, <2>3, <2>4, <2>5 DEF ThreadStarts, TypeOK
  <2> QED
    BY <1>2, <2>6 DEF tick
<1>3. ASSUME NEW c \in wheel[n], tick(n, c), ~ acquirable(n, c.job)
      PROVE  ThreadsEnd /\ UNCHANGED runs
  BY <1>3 DEF tick, ThreadsEnd
<1>4. ASSUME NEW c \in wheel[n], tickThrows(n, c)
      PROVE  ThreadsEnd /\ UNCHANGED runs
  BY <1>4 DEF tickThrows, ThreadsEnd
<1>5. CASE \/ fetchJobsFromDatabase(n) \/ stop(n) \/ shutdown(n) \/ start(n)
           \/ scanZombies(n) \/ \E j \in Jobs : updateHeartbeat(n, j)
  BY <1>5 DEF fetchJobsFromDatabase, stop, shutdown, start, scanZombies,
              updateHeartbeat, ThreadsEnd
<1>6. ASSUME NEW z \in zombies[n], reapZombie(n, z)
      PROVE  ThreadsEnd /\ UNCHANGED runs
  BY <1>6 DEF reapZombie, ThreadsEnd
<1>7. ASSUME NEW z \in burying[n], buryZombie(n, z)
      PROVE  ThreadsEnd /\ UNCHANGED runs
  BY <1>7 DEF buryZombie, ThreadsEnd
<1> QED
  BY <1>1, <1>2, <1>3, <1>4, <1>5, <1>6, <1>7 DEF NodeStep

\* What a step of a node adds to the reapers' work is in the table.
LEMMA NodeZombies ==
    ASSUME TypeOK, KnownInv, NEW n \in Nodes, NodeStep(n)
    PROVE  \A m \in Nodes : \A z \in (zombies[m] \cup burying[m])' :
              z.job \in Jobs /\ status[z.job] # "ABSENT"
<1> USE DEF rowVars, nodeVars, taskVars, history, bounds
<1>0. \A m \in Nodes : \A z \in zombies[m] \cup burying[m] :
         z.job \in Jobs /\ status[z.job] # "ABSENT"
  BY DEF TypeOK, Snapshots, KnownInv
<1>1. CASE \A m \in Nodes : /\ zombies'[m] \subseteq zombies[m]
                            /\ burying'[m] \subseteq burying[m]
  BY <1>0, <1>1
<1>2. CASE Crash(n) \/ Exit(n)
  <2>1. /\ zombies' = [zombies EXCEPT ![n] = {}]
        /\ burying' = [burying EXCEPT ![n] = {}]
    BY <1>2 DEF Crash, Exit, Gone
  <2>2. \A m \in Nodes : /\ zombies'[m] \subseteq zombies[m]
                          /\ burying'[m] \subseteq burying[m]
    BY <2>1 DEF TypeOK
  <2> QED
    BY <1>1, <2>2
<1>3. CASE \/ fetchJobsFromDatabase(n) \/ stop(n) \/ shutdown(n) \/ start(n)
           \/ \E j \in Jobs : updateHeartbeat(n, j)
           \/ \E c \in wheel[n] : tick(n, c) \/ tickThrows(n, c)
  <2>1. UNCHANGED <<zombies, burying>>
    BY <1>3 DEF fetchJobsFromDatabase, stop, shutdown, start,
                updateHeartbeat, tick, tickThrows
  <2> QED
    BY <1>1, <2>1
<1>4. CASE scanZombies(n)
  <2>1. \A z \in findZombieJobs : z.job \in Jobs /\ status[z.job] # "ABSENT"
    BY DEF findZombieJobs
  <2>2. zombies' = [zombies EXCEPT ![n] = findZombieJobs] /\ burying' = burying
    BY <1>4 DEF scanZombies
  <2> QED
    BY <1>0, <2>1, <2>2 DEF TypeOK
<1>5. ASSUME NEW z \in zombies[n], reapZombie(n, z)
      PROVE  \A m \in Nodes : \A y \in (zombies[m] \cup burying[m])' :
                y.job \in Jobs /\ status[y.job] # "ABSENT"
  <2>1. /\ zombies' = [zombies EXCEPT ![n] = @ \ {z}]
        /\ burying' = [burying EXCEPT ![n] = {z}] \/ burying' = burying
    BY <1>5 DEF reapZombie
  <2> QED
    BY <1>0, <1>5, <2>1 DEF TypeOK
<1>6. ASSUME NEW z \in burying[n], buryZombie(n, z)
      PROVE  \A m \in Nodes : \A y \in (zombies[m] \cup burying[m])' :
                y.job \in Jobs /\ status[y.job] # "ABSENT"
  <2>1. zombies' = zombies /\ burying' = [burying EXCEPT ![n] = {}]
    BY <1>6 DEF buryZombie
  <2> QED
    BY <1>0, <2>1 DEF TypeOK
<1> QED
  BY <1>2, <1>3, <1>4, <1>5, <1>6 DEF NodeStep

\* Threads and reapers hold rows of the table after a step too.
LEMMA KnownNext == ASSUME TypeOK, KnownInv, Next PROVE KnownInv'
<1>0. RowStep
  BY EveryRowStep
<1>1. \A j \in Jobs : status[j] # "ABSENT" => status'[j] # "ABSENT"
  BY <1>0, RowStays
<1>2. \A t \in Tasks : task[t] # Idle =>
         task[t].job \in Jobs /\ status[task[t].job] # "ABSENT"
  BY ThreadCases DEF KnownInv
<1>3. \A t \in Tasks : task'[t] # Idle => status'[task'[t].job] # "ABSENT"
  <2>1. CASE Clock
    BY <1>1, <1>2, <2>1 DEF Clock, BecomeDue, HeartbeatExpires, insertJob, taskVars
  <2>2. ASSUME NEW t \in Tasks, TaskStep(t)
        PROVE  \A u \in Tasks : task'[u] # Idle => status'[task'[u].job] # "ABSENT"
    BY <1>1, <1>2, <2>2, OneThread DEF ThreadMoves, ThreadsEnd
  <2>3. ASSUME NEW n \in Nodes, NodeStep(n)
        PROVE  \A u \in Tasks : task'[u] # Idle => status'[task'[u].job] # "ABSENT"
    BY <1>1, <1>2, <2>3, NodeThreads DEF ThreadStarts, ThreadsEnd
  <2> QED
    BY <2>1, <2>2, <2>3 DEF Next
<1>4. \A m \in Nodes : \A z \in (zombies[m] \cup burying[m])' :
         z.job \in Jobs /\ status[z.job] # "ABSENT"
  <2>1. CASE Clock
    BY <2>1 DEF Clock, BecomeDue, HeartbeatExpires, insertJob, nodeVars,
                KnownInv, TypeOK, Snapshots
  <2>2. ASSUME NEW t \in Tasks, TaskStep(t)
        PROVE  UNCHANGED <<zombies, burying>>
    BY <2>2 DEF TaskStep, acquirePermit, interrupted, beginExecute, runPayload,
                endExecute, handleFailure, markDead, finish, nodeVars
  <2>3. CASE \E t \in Tasks : TaskStep(t)
    BY <2>2, <2>3 DEF KnownInv, TypeOK, Snapshots
  <2> QED
    BY <2>1, <2>3, NodeZombies DEF Next
<1> QED
  BY <1>1, <1>3, <1>4 DEF KnownInv

-----------------------------------------------------------------------------
(* Executions and dead letters.                                            *)

\* Nobody gets to write COMPLETED without an execution.
LEMMA RunNext == ASSUME TypeOK, RunInv, Next PROVE RunInv'
<1> USE DEF rowVars, nodeVars, taskVars, history, bounds
<1>1. CASE Clock
  BY <1>1 DEF Clock, BecomeDue, HeartbeatExpires, insertJob, RunInv,
              CompletedWasRun, TypeOK
<1>2. ASSUME NEW t \in Tasks, TaskStep(t) PROVE RunInv'
  <2>0. task[t] # Idle /\ task[t].job \in Jobs /\ task[t] \in Thread
    BY <1>2, ThreadCases DEF TaskStep
  <2>a. {"failed", "starting", "running", "ran", "dlq", "finally"} \subseteq PCs \ {"idle"}
    BY DEF PCs
  <2>1. ASSUME NEW pc \in PCs \ {"idle"}, Goto(t, pc),
               pc \in {"running", "ran"} => runs'[task[t].job] > 0,
               \A j \in Jobs : runs[j] > 0 => runs'[j] > 0,
               CompletedWasRun'
        PROVE  RunInv'
    <3>1. /\ task'[t] # Idle /\ task'[t].pc = pc /\ task'[t].job = task[t].job
          /\ \A u \in Tasks \ {t} : task'[u] = task[u]
      BY <2>0, <2>1, GotoType
    <3>2. \A u \in Tasks : task[u] # Idle => task[u].job \in Jobs
      BY ThreadCases
    <3> QED
      BY <2>0, <2>1, <3>1, <3>2 DEF RunInv
  <2>2. CASE acquirePermit(t) \/ interrupted(t)
    <3>1. Goto(t, "failed") \/ Goto(t, "starting")
      BY <2>2 DEF acquirePermit, interrupted
    <3>2. UNCHANGED <<status, runs>>
      BY <2>2 DEF acquirePermit, interrupted
    <3> QED
      BY <2>1, <2>a, <3>1, <3>2 DEF RunInv, CompletedWasRun
  <2>3. CASE beginExecute(t)
    <3>1. \/ Goto(t, "running") /\ runs' = [runs EXCEPT ![task[t].job] = @ + 1]
          \/ Goto(t, "failed") /\ UNCHANGED runs
      BY <2>3 DEF beginExecute
    <3>2. \A j \in Jobs : status'[j] \in {status[j], "RUNNING"}
      BY <2>3 DEF beginExecute, updateJobStatus, TypeOK
    <3>3. \A j \in Jobs : runs[j] > 0 => runs'[j] > 0
      BY <2>0, <3>1 DEF TypeOK
    <3>4. CompletedWasRun'
      BY <3>2, <3>3 DEF RunInv, CompletedWasRun
    <3>5. runs' = [runs EXCEPT ![task[t].job] = @ + 1] => runs'[task[t].job] > 0
      BY <2>0 DEF TypeOK
    <3> QED
      BY <2>1, <2>a, <3>1, <3>3, <3>4, <3>5
  <2>4. CASE runPayload(t)
    <3>1. runs[task[t].job] > 0 /\ UNCHANGED <<status, runs>>
      BY <2>4 DEF runPayload, RunInv
    <3>2. Goto(t, "ran") \/ Goto(t, "failed")
      BY <2>4 DEF runPayload
    <3> QED
      BY <2>1, <2>a, <3>1, <3>2 DEF RunInv, CompletedWasRun
  <2>5. CASE endExecute(t)
    <3>1. runs[task[t].job] > 0 /\ UNCHANGED runs
      BY <2>5 DEF endExecute, RunInv
    <3>2. Goto(t, "finally") \/ Goto(t, "failed")
      BY <2>5 DEF endExecute
    <3>3. \A j \in Jobs \ {task[t].job} : status'[j] = status[j]
      BY <2>5 DEF endExecute, updateJobStatus, TypeOK
    <3>4. CompletedWasRun'
      BY <3>1, <3>3 DEF RunInv, CompletedWasRun
    <3> QED
      BY <2>1, <2>a, <3>1, <3>2, <3>4
  <2>6. CASE handleFailure(t) \/ markDead(t)
    <3>1. Goto(t, "dlq") \/ Goto(t, "finally")
      BY <2>6 DEF handleFailure, markDead
    <3>2. UNCHANGED runs
      BY <2>6 DEF handleFailure, markDead
    <3>3. \A j \in Jobs : status'[j] \in {status[j], "PENDING", "DEAD"}
      BY <2>6 DEF handleFailure, markDead, resetZombieJob, updateJobStatus, TypeOK
    <3>4. CompletedWasRun'
      BY <3>2, <3>3 DEF RunInv, CompletedWasRun
    <3> QED
      BY <2>1, <2>a, <3>1, <3>2, <3>4
  <2>7. CASE finish(t)
    BY <2>7 DEF finish, RunInv, CompletedWasRun, TypeOK, Idle
  <2> QED
    BY <1>2, <2>2, <2>3, <2>4, <2>5, <2>6, <2>7 DEF TaskStep
<1>3. ASSUME NEW n \in Nodes, NodeStep(n) PROVE RunInv'
  <2>1. \A j \in Jobs : status'[j] \in {status[j], "LOCKED", "PENDING", "DEAD"}
    BY <1>3 DEF NodeStep, fetchJobsFromDatabase, tick, tickThrows, stop,
       shutdown, Crash, Exit, Gone, start, updateHeartbeat, scanZombies,
       reapZombie, buryZombie, acquireJob, resetZombieJob, updateJobStatus,
       TypeOK
  <2>2. UNCHANGED runs
    BY <1>3, NodeThreads
  <2>3. \A u \in Tasks : task'[u].pc \in {"running", "ran"} => task'[u] = task[u]
    BY <1>3, NodeThreads DEF ThreadsEnd, ThreadStarts, Idle
  <2> QED
    BY <2>1, <2>2, <2>3 DEF RunInv, CompletedWasRun
<1> QED
  BY <1>1, <1>2, <1>3 DEF Next

\* Records are never deleted from failed_jobs, and DEAD is only written after
\* the insertion.
LEMMA DeadNext == ASSUME TypeOK, DeadInv, Next PROVE DeadInv'
<1> USE DEF rowVars, nodeVars, taskVars, history, bounds
<1>1. CASE Clock
  BY <1>1 DEF Clock, BecomeDue, HeartbeatExpires, insertJob, DeadInv,
              DeadIsRecorded, TypeOK
<1>2. ASSUME NEW t \in Tasks, TaskStep(t) PROVE DeadInv'
  <2>0. task[t] # Idle /\ task[t].job \in Jobs /\ task[t] \in Thread
    BY <1>2, ThreadCases DEF TaskStep
  <2>a. {"failed", "starting", "running", "ran", "dlq", "finally"} \subseteq PCs \ {"idle"}
    BY DEF PCs
  <2>b. UNCHANGED burying
    BY <1>2 DEF TaskStep, acquirePermit, interrupted, beginExecute, runPayload,
                endExecute, handleFailure, markDead, finish
  <2>c. \A m \in Nodes : \A z \in burying[m] : z.job \in Jobs
    BY DEF TypeOK, Snapshots
  <2>1. ASSUME NEW pc \in PCs \ {"idle"}, Goto(t, pc),
               pc = "dlq" => failed_jobs'[task[t].job] > 0,
               \A j \in Jobs : failed_jobs[j] > 0 => failed_jobs'[j] > 0,
               DeadIsRecorded'
        PROVE  DeadInv'
    <3>1. /\ task'[t] # Idle /\ task'[t].pc = pc /\ task'[t].job = task[t].job
          /\ \A u \in Tasks \ {t} : task'[u] = task[u]
      BY <2>0, <2>1, GotoType
    <3>2. \A u \in Tasks : task[u] # Idle => task[u].job \in Jobs
      BY ThreadCases
    <3> QED
      BY <2>0, <2>1, <2>b, <2>c, <3>1, <3>2 DEF DeadInv
  <2>2. CASE acquirePermit(t) \/ interrupted(t) \/ runPayload(t)
    <3>1. \E pc \in {"failed", "starting", "ran"} : Goto(t, pc)
      BY <2>2 DEF acquirePermit, interrupted, runPayload
    <3>2. UNCHANGED <<status, failed_jobs>>
      BY <2>2 DEF acquirePermit, interrupted, runPayload
    <3> QED
      BY <2>1, <2>a, <3>1, <3>2 DEF DeadInv, DeadIsRecorded
  <2>3. CASE beginExecute(t) \/ endExecute(t)
    <3>1. \E pc \in {"failed", "running", "finally"} : Goto(t, pc)
      BY <2>3 DEF beginExecute, endExecute
    <3>2. UNCHANGED failed_jobs
      BY <2>3 DEF beginExecute, endExecute
    <3>3. \A j \in Jobs : status'[j] \in {status[j], "RUNNING", "COMPLETED"}
      BY <2>3 DEF beginExecute, endExecute, updateJobStatus, TypeOK
    <3>4. DeadIsRecorded'
      BY <3>2, <3>3 DEF DeadInv, DeadIsRecorded
    <3> QED
      BY <2>1, <2>a, <3>1, <3>2, <3>4
  <2>4. CASE handleFailure(t)
    <3>0. \/ failed_jobs' = failed_jobs
          \/ failed_jobs' = [failed_jobs EXCEPT ![task[t].job] = @ + 1]
      BY <2>4 DEF handleFailure
    <3>1. \A j \in Jobs : failed_jobs[j] > 0 => failed_jobs'[j] > 0
      BY <2>0, <3>0 DEF TypeOK
    <3>2. \A j \in Jobs : status'[j] \in {status[j], "PENDING"}
      BY <2>4 DEF handleFailure, resetZombieJob, TypeOK
    <3>3. DeadIsRecorded'
      BY <3>1, <3>2 DEF DeadInv, DeadIsRecorded
    <3>4. \/ Goto(t, "finally")
          \/ Goto(t, "dlq") /\ failed_jobs' = [failed_jobs EXCEPT ![task[t].job] = @ + 1]
      BY <2>4 DEF handleFailure
    <3>5. failed_jobs' = [failed_jobs EXCEPT ![task[t].job] = @ + 1]
            => failed_jobs'[task[t].job] > 0
      BY <2>0 DEF TypeOK
    <3> QED
      BY <2>1, <2>a, <3>1, <3>3, <3>4, <3>5
  <2>5. CASE markDead(t)
    <3>1. failed_jobs[task[t].job] > 0 /\ UNCHANGED failed_jobs
      BY <2>5 DEF markDead, DeadInv
    <3>2. \A j \in Jobs \ {task[t].job} : status'[j] = status[j]
      BY <2>5 DEF markDead, updateJobStatus, TypeOK
    <3>3. DeadIsRecorded'
      BY <3>1, <3>2 DEF DeadInv, DeadIsRecorded
    <3> QED
      BY <2>1, <2>5, <2>a, <3>1, <3>3 DEF markDead
  <2>6. CASE finish(t)
    BY <2>6 DEF finish, DeadInv, DeadIsRecorded, TypeOK, Idle
  <2> QED
    BY <1>2, <2>2, <2>3, <2>4, <2>5, <2>6 DEF TaskStep
<1>3. ASSUME NEW n \in Nodes, NodeStep(n) PROVE DeadInv'
  <2>1. \A u \in Tasks : task'[u].pc = "dlq" => task'[u] = task[u]
    BY <1>3, NodeThreads DEF ThreadsEnd, ThreadStarts, Idle
  <2>a. \A m \in Nodes : \A z \in burying[m] : z.job \in Jobs /\ failed_jobs[z.job] > 0
    BY DEF TypeOK, Snapshots, DeadInv
  <2>b. \A u \in Tasks : task[u] # Idle => task[u].job \in Jobs
    BY ThreadCases
  <2>2. ASSUME \A j \in Jobs : failed_jobs[j] > 0 => failed_jobs'[j] > 0,
               \A m \in Nodes : \A z \in burying'[m] :
                  z.job \in Jobs /\ failed_jobs'[z.job] > 0,
               DeadIsRecorded'
        PROVE  DeadInv'
    BY <2>1, <2>2, <2>b DEF DeadInv
  <2>3. CASE \E z \in zombies[n] : reapZombie(n, z)
    <3>1. PICK z \in zombies[n] : reapZombie(n, z)
      BY <2>3
    <3>2. z.job \in Jobs
      BY DEF TypeOK, Snapshots
    <3>0. \/ failed_jobs' = failed_jobs
          \/ failed_jobs' = [failed_jobs EXCEPT ![z.job] = @ + 1]
      BY <3>1 DEF reapZombie
    <3>3. \A j \in Jobs : failed_jobs[j] > 0 => failed_jobs'[j] > 0
      BY <3>0, <3>2 DEF TypeOK
    <3>4. \A j \in Jobs : status'[j] \in {status[j], "PENDING"}
      BY <3>1 DEF reapZombie, resetZombieJob, TypeOK
    <3>5. DeadIsRecorded'
      BY <3>3, <3>4 DEF DeadInv, DeadIsRecorded
    <3>6. \/ burying' = burying
          \/ /\ burying' = [burying EXCEPT ![n] = {z}]
             /\ failed_jobs' = [failed_jobs EXCEPT ![z.job] = @ + 1]
      BY <3>1 DEF reapZombie
    <3>7. failed_jobs' = [failed_jobs EXCEPT ![z.job] = @ + 1]
            => failed_jobs'[z.job] > 0
      BY <3>2 DEF TypeOK
    <3>8. \A m \in Nodes : burying'[m] = burying[m] \/ burying'[m] = {z}
      <4>1. burying \in [Nodes -> SUBSET Snapshots]
        BY DEF TypeOK
      <4> QED
        BY <3>6, <4>1
    <3>9. \A m \in Nodes : \A y \in burying'[m] :
             y.job \in Jobs /\ failed_jobs'[y.job] > 0
      BY <2>a, <3>2, <3>3, <3>6, <3>7, <3>8
    <3> QED
      BY <2>2, <3>3, <3>5, <3>9
  <2>4. CASE \E z \in burying[n] : buryZombie(n, z)
    <3>1. PICK z \in burying[n] : buryZombie(n, z)
      BY <2>4
    <3>2. z.job \in Jobs /\ failed_jobs[z.job] > 0
      BY <2>a
    <3>3. UNCHANGED failed_jobs /\ burying' = [burying EXCEPT ![n] = {}]
      BY <3>1 DEF buryZombie
    <3>4. \A j \in Jobs \ {z.job} : status'[j] = status[j]
      BY <3>1 DEF buryZombie, updateJobStatus, TypeOK
    <3>5. DeadIsRecorded'
      BY <3>2, <3>3, <3>4 DEF DeadInv, DeadIsRecorded
    <3>6. \A m \in Nodes : \A y \in burying'[m] : y \in burying[m]
      BY <3>3 DEF TypeOK
    <3> QED
      BY <2>2, <2>a, <3>3, <3>5, <3>6
  <2>5. CASE /\ ~ \E z \in zombies[n] : reapZombie(n, z)
             /\ ~ \E z \in burying[n] : buryZombie(n, z)
    <3>1. UNCHANGED failed_jobs
      BY <1>3, <2>5 DEF NodeStep, fetchJobsFromDatabase, tick, tickThrows,
         stop, shutdown, Crash, Exit, Gone, start, updateHeartbeat, scanZombies
    <3>2. \A j \in Jobs : status'[j] \in {status[j], "LOCKED"}
      BY <1>3, <2>5 DEF NodeStep, fetchJobsFromDatabase, tick, tickThrows,
         stop, shutdown, Crash, Exit, Gone, start, updateHeartbeat, scanZombies,
         acquireJob, TypeOK
    <3>3. \/ UNCHANGED burying
          \/ burying' = [burying EXCEPT ![n] = {}]
      BY <1>3, <2>5 DEF NodeStep, fetchJobsFromDatabase, tick, tickThrows,
         stop, shutdown, Crash, Exit, Gone, start, updateHeartbeat, scanZombies
    <3>4. \A m \in Nodes : \A y \in burying'[m] : y \in burying[m]
      BY <3>3 DEF TypeOK
    <3>5. DeadIsRecorded'
      BY <3>1, <3>2 DEF DeadInv, DeadIsRecorded
    <3> QED
      BY <2>2, <2>a, <3>1, <3>4, <3>5
  <2> QED
    BY <2>3, <2>4, <2>5
<1> QED
  BY <1>1, <1>2, <1>3 DEF Next

-----------------------------------------------------------------------------
(* Counting executions.                                                    *)

\* The tasks that hold a job and have not run it are finitely many.
LEMMA NotRunFinite ==
    \A j : IsFiniteSet(NotRun(j)) /\ Cardinality(NotRun(j)) \in Nat
<1>1. ASSUME NEW j PROVE IsFiniteSet(NotRun(j)) /\ Cardinality(NotRun(j)) \in Nat
  <2>1. NotRun(j) \in SUBSET Tasks
    BY DEF NotRun
  <2>2. IsFiniteSet(NotRun(j))
    BY <2>1, FS_Subset, ChronosAssumption
  <2> QED
    BY <2>2, FS_CardinalityType
<1> QED
  BY <1>1

\* Every execution uses up an acquisition of its own.
LEMMA CountNext ==
    ASSUME TypeOK, TypeOK', KnownInv, CountInv, Next
    PROVE  CountInv'
<1> USE DEF rowVars, nodeVars, taskVars, history, bounds
<1> SUFFICES ASSUME NEW j \in Jobs
             PROVE  (runs[j] + Cardinality(NotRun(j)) <= acquired[j])'
  BY DEF CountInv
<1>0. /\ runs[j] + Cardinality(NotRun(j)) <= acquired[j]
      /\ runs[j] \in Nat /\ acquired[j] \in Nat
      /\ runs'[j] \in Nat /\ acquired'[j] \in Nat
      /\ IsFiniteSet(NotRun(j)) /\ Cardinality(NotRun(j)) \in Nat
  BY NotRunFinite DEF CountInv, TypeOK
<1>1. ASSUME NotRun(j)' \subseteq NotRun(j), runs'[j] = runs[j],
             acquired'[j] >= acquired[j]
      PROVE  (runs[j] + Cardinality(NotRun(j)) <= acquired[j])'
  <2>1. /\ Cardinality(NotRun(j)') <= Cardinality(NotRun(j))
        /\ IsFiniteSet(NotRun(j)')
    BY <1>0, <1>1, FS_Subset
  <2>2. Cardinality(NotRun(j)') \in Nat
    BY <2>1, FS_CardinalityType
  <2> QED
    BY <1>0, <1>1, <2>1, <2>2
<1>2. CASE Clock
  <2>1. UNCHANGED <<task, runs, acquired>>
    BY <1>2 DEF Clock, BecomeDue, HeartbeatExpires, insertJob
  <2> QED
    BY <1>0, <1>1, <2>1 DEF NotRun
<1>3. ASSUME NEW t \in Tasks, TaskStep(t)
      PROVE  (runs[j] + Cardinality(NotRun(j)) <= acquired[j])'
  <2>0. task[t] # Idle /\ task[t].job \in Jobs /\ UNCHANGED acquired
    BY <1>3, ThreadCases DEF TaskStep, acquirePermit, interrupted, beginExecute,
       runPayload, endExecute, handleFailure, markDead, finish
  <2>a. {"failed", "starting", "running", "ran", "dlq", "finally"} \subseteq PCs \ {"idle"}
    BY DEF PCs
  <2>1. ASSUME NEW pc \in PCs \ {"idle"}, Goto(t, pc),
               pc \in {"waiting", "starting"} => task[t].pc \in {"waiting", "starting"}
        PROVE  NotRun(j)' \subseteq NotRun(j)
    BY <2>0, <2>1, GotoType DEF NotRun
  <2>2. CASE acquirePermit(t) \/ interrupted(t)
    <3>1. \E pc \in {"failed", "starting"} : Goto(t, pc)
      BY <2>2 DEF acquirePermit, interrupted
    <3>2. task[t].pc = "waiting" /\ UNCHANGED runs
      BY <2>2 DEF acquirePermit, interrupted
    <3> QED
      BY <1>0, <1>1, <2>0, <2>1, <2>a, <3>1, <3>2
  <2>3. CASE \/ runPayload(t) \/ endExecute(t) \/ handleFailure(t) \/ markDead(t)
    <3>1. \E pc \in {"ran", "failed", "finally", "dlq"} : Goto(t, pc)
      BY <2>3 DEF runPayload, endExecute, handleFailure, markDead
    <3>2. UNCHANGED runs
      BY <2>3 DEF runPayload, endExecute, handleFailure, markDead
    <3> QED
      BY <1>0, <1>1, <2>0, <2>1, <2>a, <3>1, <3>2
  <2>4. CASE beginExecute(t)
    <3>1. CASE Goto(t, "failed") /\ UNCHANGED runs
      BY <1>0, <1>1, <2>0, <2>1, <2>a, <3>1
    <3>2. CASE Goto(t, "running") /\ runs' = [runs EXCEPT ![task[t].job] = @ + 1]
      <4>1. /\ task'[t].pc = "running"
            /\ \A u \in Tasks \ {t} : task'[u] = task[u]
        BY <2>0, <2>a, <3>2, GotoType
      <4>2. CASE task[t].job # j
        <5>1. NotRun(j)' \subseteq NotRun(j) /\ runs'[j] = runs[j]
          BY <2>0, <2>1, <2>a, <3>2, <4>2 DEF TypeOK
        <5> QED
          BY <1>0, <1>1, <2>0, <5>1
      <4>3. CASE task[t].job = j
        <5>1. t \in NotRun(j) /\ NotRun(j)' = NotRun(j) \ {t}
          BY <2>0, <2>4, <4>1, <4>3 DEF NotRun, beginExecute
        <5>2. Cardinality(NotRun(j)') = Cardinality(NotRun(j)) - 1
          BY <1>0, <5>1, FS_RemoveElement
        <5>3. runs'[j] = runs[j] + 1
          BY <2>0, <3>2, <4>3 DEF TypeOK
        <5> QED
          BY <1>0, <2>0, <5>2, <5>3
      <4> QED
        BY <4>2, <4>3
    <3> QED
      BY <2>4, <3>1, <3>2 DEF beginExecute
  <2>5. CASE finish(t)
    <3>1. NotRun(j)' \subseteq NotRun(j) /\ UNCHANGED runs
      BY <2>5 DEF finish, NotRun, TypeOK
    <3> QED
      BY <1>0, <1>1, <2>0, <3>1
  <2> QED
    BY <1>3, <2>2, <2>3, <2>4, <2>5 DEF TaskStep
<1>4. ASSUME NEW n \in Nodes, NodeStep(n)
      PROVE  (runs[j] + Cardinality(NotRun(j)) <= acquired[j])'
  <2>1. acquired'[j] >= acquired[j]
    <3>1. \/ acquired' = acquired
          \/ \E k \in Jobs : acquired' = [acquired EXCEPT ![k] = @ + 1]
      BY EveryRowStep DEF RowStep, RowQuiet, RowInsert, RowBeat, RowWrite,
         RowReset, RowAcquire
    <3>2. acquired \in [Jobs -> Nat]
      BY DEF TypeOK
    <3>3. ASSUME NEW k \in Jobs, acquired' = [acquired EXCEPT ![k] = @ + 1]
          PROVE  acquired'[j] >= acquired[j]
      BY <3>2, <3>3
    <3>4. acquired[j] >= acquired[j]
      BY <1>0
    <3> QED
      BY <3>1, <3>3, <3>4
  <2>2. CASE ThreadsEnd /\ UNCHANGED runs
    <3>1. NotRun(j)' \subseteq NotRun(j)
      BY <2>2 DEF ThreadsEnd, NotRun
    <3> QED
      BY <1>0, <1>1, <2>1, <2>2, <3>1
  <2>3. ASSUME NEW t \in Tasks, ThreadStarts(t), UNCHANGED runs
        PROVE  (runs[j] + Cardinality(NotRun(j)) <= acquired[j])'
    <3>1. CASE task'[t].job # j
      <4>1. NotRun(j)' \subseteq NotRun(j)
        BY <2>3, <3>1 DEF ThreadStarts, NotRun
      <4> QED
        BY <1>0, <1>1, <2>1, <2>3, <4>1
    <3>2. CASE task'[t].job = j
      <4>1. t \notin NotRun(j) /\ NotRun(j)' = NotRun(j) \cup {t}
        BY <2>3, <3>2 DEF ThreadStarts, NotRun
      <4>2. Cardinality(NotRun(j)') = Cardinality(NotRun(j)) + 1
        BY <1>0, <4>1, FS_AddElement
      <4>3. acquired'[j] = acquired[j] + 1
        BY <2>3, <3>2 DEF ThreadStarts, TypeOK
      <4> QED
        BY <1>0, <2>3, <4>2, <4>3
    <3> QED
      BY <3>1, <3>2
  <2> QED
    BY <1>4, <2>2, <2>3, NodeThreads
<1> QED
  BY <1>2, <1>3, <1>4 DEF Next

-----------------------------------------------------------------------------
(* The theorems.                                                           *)

Inv == TypeOK /\ RowInv /\ KnownInv /\ RunInv /\ DeadInv /\ CountInv

\* The inductive invariant holds initially.
LEMMA InvInit == Init => Inv
<1> SUFFICES ASSUME Init PROVE Inv
  OBVIOUS
<1>1. TypeOK
  BY TypeInit
<1>2. RowInv
  BY DEF Init, RowInv
<1>3. KnownInv
  BY DEF Init, KnownInv
<1>4. RunInv /\ DeadInv
  BY DEF Init, RunInv, DeadInv, CompletedWasRun, DeadIsRecorded, Idle
<1>5. CountInv
  <2>1. \A j \in Jobs : NotRun(j) = {}
    BY DEF Init, NotRun
  <2>2. Cardinality({}) = 0
    BY FS_EmptySet
  <2>3. ASSUME NEW j \in Jobs
        PROVE  runs[j] + Cardinality(NotRun(j)) <= acquired[j]
    <3>1. Cardinality(NotRun(j)) = 0
      BY <2>1, <2>2
    <3>2. runs[j] = 0 /\ acquired[j] = 0
      BY DEF Init
    <3> QED
      BY <3>1, <3>2
  <2> QED
    BY <2>3 DEF CountInv
<1> QED
  BY <1>1, <1>2, <1>3, <1>4, <1>5 DEF Inv

\* Every step keeps the inductive invariant.
LEMMA InvNext == Inv /\ [Next]_vars => Inv'
<1> SUFFICES ASSUME Inv, [Next]_vars PROVE Inv'
  OBVIOUS
<1>1. TypeOK'
  BY TypeNext DEF Inv
<1>2. CASE Next
  BY <1>1, <1>2, EveryRowStep, RowInvStep, KnownNext, RunNext, DeadNext,
     CountNext DEF Inv
<1>3. CASE UNCHANGED vars
  BY <1>1, <1>3 DEF vars, rowVars, nodeVars, taskVars, history, bounds, Inv,
     RowInv, KnownInv, RunInv, DeadInv, CountInv, CompletedWasRun,
     DeadIsRecorded, NotRun
<1> QED
  BY <1>2, <1>3

\* The inductive invariant holds in every state of the cluster.
THEOREM Invariance == Spec => []Inv
BY InvInit, InvNext, PTL DEF Spec

\* No job is executed more often than its recorded retries plus one, for any
\* number of nodes, copies in wheels, failing statements and crashes: an
\* execution uses up an acquisition, an acquisition a PENDING row, and a row
\* gets PENDING again only together with its retry_count.
THEOREM Recorded == Spec => []ExecutionsRecorded
<1>1. Inv => ExecutionsRecorded
  <2> SUFFICES ASSUME Inv, NEW j \in Jobs PROVE runs[j] <= retry_count[j] + 1
    BY DEF ExecutionsRecorded
  <2>1. /\ runs[j] + Cardinality(NotRun(j)) <= acquired[j]
        /\ acquired[j] <= retry_count[j] + 1
        /\ runs[j] \in Nat /\ acquired[j] \in Nat /\ retry_count[j] \in Nat
    BY DEF Inv, CountInv, RowInv, TypeOK
  <2>2. Cardinality(NotRun(j)) \in Nat
    BY NotRunFinite
  <2> QED
    BY <2>1, <2>2
<1> QED
  BY <1>1, Invariance, PTL

\* A DEAD row has its record in failed_jobs and a COMPLETED row its execution,
\* whoever wrote the status and whatever was written in between.
THEOREM Justified == Spec => [](DeadIsRecorded /\ CompletedWasRun)
<1>1. Inv => DeadIsRecorded /\ CompletedWasRun
  BY DEF Inv, DeadInv, RunInv
<1> QED
  BY <1>1, Invariance, PTL

\* PENDING rows carry no lease, LOCKED rows carry one.
THEOREM Leases == Spec => []LeaseColumns
<1>1. Inv => LeaseColumns
  BY DEF Inv, RowInv, LeaseColumns
<1> QED
  BY <1>1, Invariance, PTL

\* The jobs table implements JobLease.
THEOREM Refinement == Spec => LeaseSpec
<1>1. Init => Lease!Init
  BY DEF Init, Lease!Init, phaseOf
<1>2. Inv /\ [Next]_vars => [Lease!Next]_Lease!vars
  <2> SUFFICES ASSUME Inv, [Next]_vars PROVE [Lease!Next]_Lease!vars
    OBVIOUS
  <2> USE DEF Inv, TypeOK
  <2>1. CASE UNCHANGED vars
    BY <2>1 DEF vars, rowVars, history, Lease!vars, phaseOf
  <2>2. CASE RowQuiet
    BY <2>2 DEF RowQuiet, Lease!vars, phaseOf
  <2>3. ASSUME NEW j \in Jobs, RowInsert(j) PROVE Lease!Create(j)
    BY <2>3 DEF RowInsert, Lease!Create, phaseOf, Statuses
  <2>4. ASSUME NEW j \in Jobs, NEW h \in {"fresh", "expired"}, RowBeat(j, h)
        PROVE  UNCHANGED Lease!vars
    BY <2>4 DEF RowBeat, Lease!vars, phaseOf
  <2>5. ASSUME NEW j \in Jobs, NEW s \in {"RUNNING", "COMPLETED", "DEAD"},
               RowWrite(j, s)
        PROVE  Lease!Withdraw(j) \/ UNCHANGED Lease!vars
    BY <2>5 DEF RowWrite, Lease!Withdraw, Lease!vars, phaseOf, Statuses
  <2>6. ASSUME NEW j \in Jobs, RowReset(j) PROVE Lease!Offer(j)
    BY <2>6 DEF RowReset, Lease!Offer, phaseOf, Statuses
  <2>7. ASSUME NEW n \in Nodes, NEW j \in Jobs, RowAcquire(n, j)
        PROVE  Lease!Grant(j)
    BY <2>7 DEF RowAcquire, Lease!Grant, phaseOf, Statuses
  <2>8. CASE Next
    BY <2>2, <2>3, <2>4, <2>5, <2>6, <2>7, <2>8, EveryRowStep
    DEF RowStep, Lease!Next
  <2> QED
    BY <2>1, <2>8
<1> QED
  BY <1>1, <1>2, Invariance, PTL DEF Spec, LeaseSpec, Lease!Spec
=============================================================================
