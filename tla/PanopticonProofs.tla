-------------------------- MODULE PanopticonProofs --------------------------
(***************************************************************************)
(* Proofs about the distributed lock and the rule cache of PANOPTICON.     *)
(*                                                                         *)
(* RedlockManager gives the lock to one caller at a time, for any number   *)
(* of calls and instances, any timeout, and any number of commands and     *)
(* answers that are lost or executed late.  The inductive invariant says   *)
(* what an answer True is worth: until timeout has passed since the        *)
(* attempt began, the instance keeps the caller's key, because NX protects *)
(* it, the release script compares values, and the key's expiry was set    *)
(* after the attempt began.  Two majorities share an instance, and it      *)
(* keeps one key.                                                          *)
(*                                                                         *)
(* RuleEvaluator decides with rules that are recent, for any number of     *)
(* workers, evaluations and administrative calls.  The inductive invariant *)
(* follows a version of the table on its way: what a load or a cache holds *)
(* is a version that was not replaced before the time it is stamped with.  *)
(***************************************************************************)
EXTENDS Redlock, RuleCache, FiniteSetTheorems, SequenceTheorems, TLAPS

-----------------------------------------------------------------------------
(* RedlockManager.                                                         *)

\* The variables of an attempt are clean when none is under way.
Clean ==
    \A c \in Calls :
        /\ pc[c] \notin {"acquire", "held"} => got[c] = {}
        /\ pc[c] = "idle" => attempt[c] = 0

Started == \A c \in Calls : start_time[c] <= clock

\* An instance that answered True keeps the key while the attempt is young.
Kept ==
    \A c \in Calls : \A i \in got[c] :
        clock < start_time[c] + timeout =>
            value[i] = c /\ expires[i] >= start_time[c] + timeout

Majorities == \A c \in Calls : pc[c] = "held" => Cardinality(got[c]) >= quorum

RedlockInv == TypeOK /\ Clean /\ Started /\ Kept /\ Majorities

-----------------------------------------------------------------------------
\* quorum: two majorities of the instances have one in common.
LEMMA QuorumsMeet ==
  ASSUME NEW Q \in SUBSET Instances, NEW R \in SUBSET Instances,
         Cardinality(Q) >= quorum, Cardinality(R) >= quorum
  PROVE  Q \cap R # {}
<1>1. IsFiniteSet(Instances)
  BY RedlockAssumption
<1>2. /\ IsFiniteSet(Q) /\ IsFiniteSet(R) /\ IsFiniteSet(Q \cup R)
      /\ Cardinality(Q \cup R) <= Cardinality(Instances)
  BY <1>1, FS_Subset
<1>3. /\ Cardinality(Q) \in Nat /\ Cardinality(R) \in Nat
      /\ Cardinality(Q \cup R) \in Nat /\ Cardinality(Instances) \in Nat
  BY <1>1, <1>2, FS_CardinalityType
<1>4. SUFFICES ASSUME Q \cap R = {}
               PROVE  FALSE
  OBVIOUS
<1>5. Cardinality(Q \cup R) = Cardinality(Q) + Cardinality(R)
  <2>1. Cardinality(Q \cap R) = 0
    BY <1>4, FS_EmptySet
  <2>2. Cardinality(Q \cup R) = Cardinality(Q) + Cardinality(R) - Cardinality(Q \cap R)
    BY <1>2, FS_Union
  <2> QED  BY <1>3, <2>1, <2>2
<1> QED  BY <1>2, <1>3, <1>5 DEF quorum

\* The initial state: no key, no call.
LEMMA RedlockInit == Init => RedlockInv
<1> SUFFICES ASSUME Init PROVE RedlockInv
  OBVIOUS
<1> USE RedlockAssumption DEF Init
<1>1. TypeOK  BY DEF TypeOK
<1>2. Clean /\ Started /\ Kept /\ Majorities
  BY DEF Clean, Started, Kept, Majorities
<1> QED  BY <1>1, <1>2 DEF RedlockInv

\* A new attempt of acquire_lock begins, the first or another one.
LEMMA AttemptStep ==
  ASSUME RedlockInv, NEW c \in Calls, pc[c] \in {"idle", "undo"}, attempt[c] < retry_count,
         Attempt(c), UNCHANGED <<value, expires, late, clock, lost>>
  PROVE  RedlockInv'
<1> USE RedlockAssumption
<1>1. got[c] = {}
  BY DEF RedlockInv, Clean
<1>2. TypeOK'
  BY <1>1 DEF RedlockInv, TypeOK, Attempt, Goto
<1>3. Clean' /\ Started'
  BY DEF RedlockInv, TypeOK, Clean, Started, Attempt, Goto
<1>4. Kept'
  BY <1>1 DEF RedlockInv, TypeOK, Kept, Attempt, Goto
<1>5. Majorities'
  BY DEF RedlockInv, TypeOK, Majorities, Attempt, Goto
<1> QED  BY <1>2, <1>3, <1>4, <1>5 DEF RedlockInv

\* SET NX of some call is executed at an instance: nobody loses a key by it.
LEMMA SetKeyKept ==
  ASSUME RedlockInv, NEW c \in Calls, NEW i \in Instances, Free(i), SetKey(c, i),
         UNCHANGED <<got, start_time, clock>>
  PROVE  Kept'
<1> USE RedlockAssumption
<1> SUFFICES ASSUME NEW d \in Calls, NEW j \in got[d], clock < start_time[d] + timeout
             PROVE  value'[j] = d /\ expires'[j] >= start_time[d] + timeout
  BY DEF Kept
<1>1. value[j] = d /\ expires[j] >= start_time[d] + timeout
  BY DEF RedlockInv, Kept
<1>2. j # i
  BY <1>1 DEF Free
<1> QED  BY <1>1, <1>2 DEF SetKey, RedlockInv, TypeOK

\* _acquire_single_lock, answered.
LEMMA AcquireStep ==
  ASSUME RedlockInv, NEW c \in Calls, NEW i \in Instances, acquire_single_lock(c, i)
  PROVE  RedlockInv'
<1> USE RedlockAssumption
<1>1. TypeOK'
  BY DEF RedlockInv, TypeOK, acquire_single_lock, Answered, SetKey
<1>2. Clean' /\ Started' /\ Majorities'
  BY DEF RedlockInv, TypeOK, Clean, Started, Majorities, acquire_single_lock, Answered
<1>3. Kept'
  <2>1. CASE ~Free(i)
    BY <2>1 DEF RedlockInv, Kept, acquire_single_lock, Answered
  <2>2. CASE Free(i)
    <3> SUFFICES ASSUME NEW d \in Calls, NEW j \in got'[d], clock < start_time[d] + timeout
                 PROVE  value'[j] = d /\ expires'[j] >= start_time[d] + timeout
      BY DEF Kept, acquire_single_lock, Answered
    <3>1. CASE j = i /\ d = c
      BY <2>2, <3>1 DEF RedlockInv, TypeOK, Started, acquire_single_lock, Answered, SetKey
    <3>2. CASE ~(j = i /\ d = c)
      <4>1. j \in got[d]
        BY <2>2, <3>2 DEF RedlockInv, TypeOK, acquire_single_lock
      <4>2. value[j] = d /\ expires[j] >= start_time[d] + timeout
        BY <4>1 DEF RedlockInv, Kept
      <4>3. j # i
        BY <2>2, <4>2 DEF Free
      <4> QED  BY <2>2, <4>2, <4>3 DEF RedlockInv, TypeOK, acquire_single_lock, SetKey
    <3> QED  BY <3>1, <3>2
  <2> QED  BY <2>1, <2>2
<1> QED  BY <1>1, <1>2, <1>3 DEF RedlockInv

\* _acquire_single_lock, its answer or the command lost.
LEMMA AcquireLostStep ==
  ASSUME RedlockInv, NEW c \in Calls, NEW i \in Instances, AcquireLost(c, i)
  PROVE  RedlockInv'
<1> USE RedlockAssumption
<1>1. TypeOK'
  BY DEF RedlockInv, TypeOK, AcquireLost, Answered, SetKey, Lose
<1>2. Clean' /\ Started' /\ Majorities'
  BY DEF RedlockInv, TypeOK, Clean, Started, Majorities, AcquireLost, Answered
<1>3. Kept'
  <2>1. CASE Free(i) /\ SetKey(c, i)
    BY <2>1, SetKeyKept DEF AcquireLost, Answered
  <2>2. CASE UNCHANGED <<value, expires>>
    BY <2>2 DEF RedlockInv, Kept, AcquireLost, Answered
  <2> QED  BY <2>1, <2>2 DEF AcquireLost
<1> QED  BY <1>1, <1>2, <1>3 DEF RedlockInv

\* A command given up earlier is executed after all.
LEMMA LateStep ==
  ASSUME RedlockInv, NEW c \in Calls, NEW i \in Instances, LateCommand(c, i)
  PROVE  RedlockInv'
<1> USE RedlockAssumption
<1>1. TypeOK'
  BY DEF RedlockInv, TypeOK, LateCommand, SetKey, callVars
<1>2. Clean' /\ Started' /\ Majorities'
  BY DEF RedlockInv, TypeOK, Clean, Started, Majorities, LateCommand, callVars
<1>3. Kept'
  <2>1. CASE Free(i)
    BY <2>1, SetKeyKept DEF LateCommand, callVars
  <2>2. CASE ~Free(i)
    BY <2>2 DEF RedlockInv, Kept, LateCommand, callVars
  <2> QED  BY <2>1, <2>2
<1> QED  BY <1>1, <1>2, <1>3 DEF RedlockInv

\* acquire_lock counts: the lock is held, or everything is undone.
LEMMA CountStep ==
  ASSUME RedlockInv, NEW c \in Calls, Count(c)
  PROVE  RedlockInv'
<1> USE RedlockAssumption
<1>1. CASE Acquired(c)
  <2>1. TypeOK'
    BY <1>1 DEF RedlockInv, TypeOK, Count, Goto
  <2>2. Clean' /\ Started' /\ Kept'
    BY <1>1 DEF RedlockInv, TypeOK, Clean, Started, Kept, Count, Goto
  <2>3. Majorities'
    BY <1>1 DEF RedlockInv, TypeOK, Majorities, Count, Goto, Acquired
  <2> QED  BY <2>1, <2>2, <2>3 DEF RedlockInv
<1>2. CASE ~Acquired(c)
  <2>1. TypeOK'
    BY <1>2 DEF RedlockInv, TypeOK, Count, Goto, Forget, UndoAll
  <2>2. Clean' /\ Started' /\ Kept' /\ Majorities'
    BY <1>2 DEF RedlockInv, TypeOK, Clean, Started, Kept, Majorities, Count, Goto, Forget
  <2> QED  BY <2>1, <2>2 DEF RedlockInv
<1> QED  BY <1>1, <1>2

\* acquire_lock gives up, or release_lock begins or ends.
LEMMA EndStep ==
  ASSUME RedlockInv, NEW c \in Calls, GiveUp(c) \/ release_lock(c) \/ Released(c)
  PROVE  RedlockInv'
<1> USE RedlockAssumption
<1>1. CASE GiveUp(c) \/ Released(c)
  BY <1>1 DEF RedlockInv, TypeOK, Clean, Started, Kept, Majorities, GiveUp, Released, Goto
<1>2. CASE release_lock(c)
  BY <1>2 DEF RedlockInv, TypeOK, Clean, Started, Kept, Majorities, release_lock, Goto, Forget
<1> QED  BY <1>1, <1>2

\* The release script at one instance, executed or lost.
LEMMA ReleaseStep ==
  ASSUME RedlockInv, NEW c \in Calls, NEW i \in Instances, ReleaseKey(c, i) \/ ReleaseLost(c, i)
  PROVE  RedlockInv'
<1> USE RedlockAssumption
<1>1. TypeOK'
  BY DEF RedlockInv, TypeOK, ReleaseKey, ReleaseLost, Answered, Lose
<1>2. Clean' /\ Started' /\ Majorities'
  BY DEF RedlockInv, TypeOK, Clean, Started, Majorities, ReleaseKey, ReleaseLost, Answered
<1>3. Kept'
  <2> SUFFICES ASSUME NEW d \in Calls, NEW j \in got[d], clock < start_time[d] + timeout
               PROVE  value'[j] = d /\ expires'[j] >= start_time[d] + timeout
    BY DEF Kept, ReleaseKey, ReleaseLost, Answered
  <2>1. value[j] = d /\ expires[j] >= start_time[d] + timeout
    BY DEF RedlockInv, Kept
  <2>2. d # c
    BY DEF RedlockInv, Clean, ReleaseKey, ReleaseLost
  <2>3. Owns(c, i) => j # i
    BY <2>1, <2>2 DEF Owns
  <2> QED  BY <2>1, <2>3 DEF RedlockInv, TypeOK, ReleaseKey, ReleaseLost
<1> QED  BY <1>1, <1>2, <1>3 DEF RedlockInv

\* Time passes: a young attempt's keys do not expire.
LEMMA TickStep ==
  ASSUME RedlockInv, Tick
  PROVE  RedlockInv'
<1> USE RedlockAssumption
<1>1. TypeOK'
  BY DEF RedlockInv, TypeOK, Tick, callVars
<1>2. Clean' /\ Started' /\ Majorities'
  BY DEF RedlockInv, TypeOK, Clean, Started, Majorities, Tick, callVars
<1>3. Kept'
  BY DEF RedlockInv, TypeOK, Kept, Tick, callVars
<1> QED  BY <1>1, <1>2, <1>3 DEF RedlockInv

\* Every step keeps the invariant.
LEMMA RedlockNext == RedlockInv /\ [Next]_vars => RedlockInv'
<1> SUFFICES ASSUME RedlockInv, [Next]_vars PROVE RedlockInv'
  OBVIOUS
<1> USE RedlockAssumption
<1>1. ASSUME NEW c \in Calls, acquire_lock(c) PROVE RedlockInv'
  <2>1. attempt[c] = 0
    BY <1>1 DEF RedlockInv, Clean, acquire_lock
  <2> QED  BY <1>1, <2>1, AttemptStep DEF acquire_lock
<1>2. ASSUME NEW c \in Calls, Again(c) PROVE RedlockInv'
  BY <1>2, AttemptStep DEF Again
<1>3. ASSUME NEW c \in Calls, Count(c) PROVE RedlockInv'
  BY <1>3, CountStep
<1>4. ASSUME NEW c \in Calls, GiveUp(c) \/ release_lock(c) \/ Released(c) PROVE RedlockInv'
  BY <1>4, EndStep
<1>5. ASSUME NEW c \in Calls, NEW i \in Instances,
             \/ acquire_single_lock(c, i) \/ AcquireLost(c, i) \/ LateCommand(c, i)
             \/ ReleaseKey(c, i) \/ ReleaseLost(c, i)
      PROVE  RedlockInv'
  BY <1>5, AcquireStep, AcquireLostStep, LateStep, ReleaseStep
<1>6. CASE Tick
  BY <1>6, TickStep
<1>7. CASE UNCHANGED vars
  BY <1>7 DEF vars, callVars, RedlockInv, TypeOK, Clean, Started, Kept, Majorities
<1> QED  BY <1>1, <1>2, <1>3, <1>4, <1>5, <1>6, <1>7 DEF Next, Quiet

\* Two holders inside their timeouts share an instance, which keeps one key.
LEMMA HoldersAgree == RedlockInv => MutualExclusion
<1> SUFFICES ASSUME RedlockInv, NEW c \in Calls, NEW d \in Calls, Holds(c), Holds(d)
             PROVE  c = d
  BY DEF MutualExclusion
<1>1. got[c] \cap got[d] # {}
  BY QuorumsMeet DEF RedlockInv, TypeOK, Majorities, Holds
<1>2. PICK i \in Instances : i \in got[c] /\ i \in got[d]
  BY <1>1 DEF RedlockInv, TypeOK
<1> QED  BY <1>2 DEF RedlockInv, Kept, Holds

-----------------------------------------------------------------------------
(* Nothing is left behind. *)

\* Unless something was lost, every key has an owner that will still look at it.
Accounted ==
    lost = 0 =>
        /\ late = {}
        /\ \A c \in Calls : \A i \in Instances : value[i] = c =>
              \/ pc[c] \in {"acquire", "held"}
              \/ pc[c] \in {"undo", "release"} /\ i \in pending[c]

\* Every step of a call, of an instance and of time keeps the keys accounted for.
LEMMA AccountedNext == TypeOK /\ Accounted /\ [Next]_vars => Accounted'
<1> SUFFICES ASSUME TypeOK, Accounted, [Next]_vars, lost' = 0 PROVE Accounted'
  BY DEF Accounted
<1> USE RedlockAssumption
<1>1. lost = 0 /\ UNCHANGED lost
  <2>1. ASSUME Lose PROVE FALSE
    BY <2>1 DEF Lose, TypeOK
  <2> QED  BY <2>1 DEF Next, vars, callVars, acquire_lock, Again, Count, GiveUp, release_lock, Released,
             acquire_single_lock, AcquireLost, LateCommand, ReleaseKey, ReleaseLost, Tick, Quiet
<1>2. late = {}
  BY <1>1 DEF Accounted
<1> USE <1>1, <1>2 DEF Accounted, TypeOK
<1>3. ASSUME NEW c \in Calls, acquire_lock(c) \/ Again(c) PROVE Accounted'
  BY <1>3 DEF acquire_lock, Again, Attempt, Goto
<1>4. ASSUME NEW c \in Calls, Count(c) PROVE Accounted'
  BY <1>4 DEF Count, Goto, UndoAll
<1>5. ASSUME NEW c \in Calls, GiveUp(c) \/ Released(c) PROVE Accounted'
  BY <1>5 DEF GiveUp, Released, Goto
<1>6. ASSUME NEW c \in Calls, release_lock(c) PROVE Accounted'
  BY <1>6 DEF release_lock, Goto
<1>7. ASSUME NEW c \in Calls, NEW i \in Instances, acquire_single_lock(c, i) PROVE Accounted'
  BY <1>7 DEF acquire_single_lock, Answered, SetKey
<1>8. ASSUME NEW c \in Calls, NEW i \in Instances, ReleaseKey(c, i) PROVE Accounted'
  BY <1>8 DEF ReleaseKey, Answered, Owns
<1>9. ASSUME NEW c \in Calls, NEW i \in Instances,
             AcquireLost(c, i) \/ ReleaseLost(c, i) \/ LateCommand(c, i)
      PROVE  FALSE
  BY <1>9 DEF AcquireLost, ReleaseLost, LateCommand, Lose
<1>10. CASE Tick
  BY <1>10 DEF Tick, callVars
<1>11. CASE UNCHANGED vars
  BY <1>11 DEF vars, callVars
<1> QED  BY <1>3, <1>4, <1>5, <1>6, <1>7, <1>8, <1>9, <1>10, <1>11 DEF Next, Quiet

-----------------------------------------------------------------------------
\* RedlockManager keeps the types of its variables, and the invariant above.
THEOREM RedlockInvariance == Spec => []RedlockInv
BY RedlockInit, RedlockNext, PTL DEF Spec

\* No step of acquire_lock, release_lock or an instance, lost or late, leaves a
\* variable outside its type.
THEOREM RedlockTypes == Spec => []TypeOK
<1>1. RedlockInv => TypeOK  BY DEF RedlockInv
<1> QED  BY <1>1, RedlockInvariance, PTL

\* acquire_lock and release_lock: two callers never hold the lock inside their
\* timeouts, whatever is lost or late.
THEOREM OneHolder == Spec => []MutualExclusion
BY RedlockInvariance, HoldersAgree, PTL

\* release_lock, after a failed attempt or after the critical section: when no command or
\* answer was lost, a call that is over has left no key at any instance.
THEOREM CleanedUp == Spec => []NothingLeft
<1>1. Init => Accounted
  BY RedlockAssumption DEF Init, Accounted
<1>2. Accounted => NothingLeft
  BY DEF Accounted, NothingLeft
<1> QED  BY <1>1, <1>2, AccountedNext, RedlockTypes, PTL DEF Spec

-----------------------------------------------------------------------------
(* The rule cache.                                                         *)

\* The table in its version v, given the table now and those before, its
\* enabled rules, and: it was still the table at time t.
RowsAt(v, now, before) == IF v < Len(before) THEN before[v + 1].rows ELSE now
EnabledAt(v, now, before) == {x \in RowsAt(v, now, before) : x.enabled}
CurrentAt(v, before, t) == v < Len(before) => before[v + 1].until >= t

EvaluationState ==
    [at : {"none", "failed"}]
    \cup [at : {"load"}, worker : Workers, asked : Nat]
    \cup [at : {"fetched"}, worker : Workers, asked : Nat, rules : SUBSET Rule,
          version : Nat, raced : BOOLEAN]
    \cup [at : {"done"}, rules : SUBSET Rule, asked : Nat, blocked_reasons : SUBSET Names]

CacheTypeOK ==
    /\ table \in SUBSET Rule
    /\ past \in Seq([rows : SUBSET Rule, until : Nat])
    /\ rule_cache \in [Workers -> SUBSET Rule]
    /\ cache_timestamp \in [Workers -> Nat]
    /\ source \in [Workers -> [version : Nat, raced : BOOLEAN, wrote : Nat]]
    /\ evaluation \in [Evaluations -> EvaluationState]
    /\ admin \in {NoCall} \cup [at : {"reset"}, worker : Workers]
    /\ time \in Nat /\ time >= cache_ttl
    /\ changes \in Nat

\* A cache holds a version of the table that was not replaced before the
\* cache's time stamp.
Cached ==
    \A w \in Workers :
        /\ source[w].version <= Len(past) /\ source[w].wrote <= Len(past)
        /\ rule_cache[w] = EnabledAt(source[w].version, table, past)
        /\ CurrentAt(source[w].version, past, cache_timestamp[w])
        /\ cache_timestamp[w] <= time

\* So does a load on its way back, which knows whether it was overtaken.
Loaded ==
    \A e \in Evaluations : evaluation[e].at = "fetched" =>
        /\ evaluation[e].version <= Len(past)
        /\ evaluation[e].rules = EnabledAt(evaluation[e].version, table, past)
        /\ CurrentAt(evaluation[e].version, past, evaluation[e].asked)
        /\ evaluation[e].raced \/ evaluation[e].version = Len(past)

Asked ==
    \A e \in Evaluations :
        evaluation[e].at \in {"load", "fetched", "done"} => evaluation[e].asked <= time

\* A worker that has not cached its own last change was overtaken by it, or
\* is about to reset its cache, or has done so.
OwnChange ==
    \A w \in Workers : source[w].version < source[w].wrote =>
        \/ source[w].raced
        \/ admin.at = "reset" /\ admin.worker = w
        \/ cache_timestamp[w] = 0

CacheInv == CacheTypeOK /\ Cached /\ Loaded /\ Asked /\ OwnChange /\ RulesWereRecent

\* The invariant holds with an empty table and empty caches.
LEMMA CacheStarts == CacheInit => CacheInv
<1> SUFFICES ASSUME CacheInit PROVE CacheInv
  OBVIOUS
<1> USE RuleAssumption DEF CacheInit
<1>1. CacheTypeOK
  BY DEF CacheTypeOK, EvaluationState, NoEvaluation, NoCall
<1>2. Cached
  BY DEF Cached, RowsAt, EnabledAt, CurrentAt
<1>3. Loaded /\ Asked /\ OwnChange /\ RulesWereRecent
  BY DEF Loaded, Asked, OwnChange, RulesWereRecent, NoEvaluation
<1>4. QED
  BY <1>1, <1>2, <1>3 DEF CacheInv

\* The result of an evaluation is one.
LEMMA ResultType ==
  ASSUME NEW rules \in SUBSET Rule, NEW asked \in Nat, NEW context, NEW ml
  PROVE  /\ Result(rules, asked, context, ml) \in EvaluationState
         /\ Result(rules, asked, context, ml).at = "done"
         /\ Result(rules, asked, context, ml).rules = rules
         /\ Result(rules, asked, context, ml).asked = asked
<1> DEFINE matched == Matched(rules, context)
           reasons == IF Status(rules, matched, ml) = "approved" THEN {}
                      ELSE {x.name : x \in Reasons(matched)}
<1>1. reasons \in SUBSET Names
  BY DEF Matched, Reasons, Rule
<1> HIDE DEF reasons
<1>2. Result(rules, asked, context, ml)
        = [at |-> "done", rules |-> rules, asked |-> asked, blocked_reasons |-> reasons]
  BY DEF Result, reasons
<1>3. QED
  BY <1>1, <1>2 DEF EvaluationState

\* A version of the table that was current at a recent time is recent.
LEMMA CurrentIsRecent ==
  ASSUME CacheTypeOK, NEW v \in Nat, v <= Len(past), NEW s \in Nat, NEW t \in Nat,
         CurrentAt(v, past, s), t - s < cache_ttl
  PROVE  \E rows \in RecentTables(t) : EnabledAt(v, table, past) = {x \in rows : x.enabled}
<1> USE RuleAssumption
<1>1. CASE v < Len(past)
  <2>1. /\ v + 1 \in DOMAIN past
        /\ past[v + 1].until \in Nat /\ past[v + 1].until >= s
    <3>1. v + 1 \in 1 .. Len(past) /\ past \in Seq([rows : SUBSET Rule, until : Nat])
      BY <1>1 DEF CacheTypeOK
    <3>2. v + 1 \in DOMAIN past
      BY <3>1
    <3>3. past[v + 1] \in [rows : SUBSET Rule, until : Nat]
      BY <3>1, ElementOfSeq
    <3>4. past[v + 1].until \in Nat
      BY <3>3
    <3>5. QED
      BY <1>1, <3>2, <3>4 DEF CurrentAt
  <2>2. past[v + 1].until > t - cache_ttl
    BY <2>1
  <2>3. past[v + 1].rows \in RecentTables(t)
    BY <2>1, <2>2 DEF RecentTables
  <2>4. QED
    BY <1>1, <2>3 DEF EnabledAt, RowsAt
<1>2. CASE ~ (v < Len(past))
  BY <1>2 DEF EnabledAt, RowsAt, RecentTables
<1>3. QED
  BY <1>1, <1>2

\* Appending to past keeps every version.
LEMMA VersionsKept ==
  ASSUME CacheTypeOK, past' = Append(past, [rows |-> table, until |-> time])
  PROVE  /\ Len(past)' = Len(past) + 1
         /\ \A v \in 0 .. Len(past) : EnabledAt(v, table', past') = EnabledAt(v, table, past)
         /\ \A v \in 0 .. Len(past) : \A t \in Nat :
                CurrentAt(v, past, t) /\ t <= time => CurrentAt(v, past', t)
         /\ \A t \in Nat : t <= time =>
                \A rows \in RecentTables(t) : rows \in RecentTables(t)'
<1> DEFINE new == [rows |-> table, until |-> time]
<1>1. /\ Len(past)' = Len(past) + 1 /\ Len(past) \in Nat
      /\ past'[Len(past) + 1] = new
      /\ \A i \in 1 .. Len(past) : past'[i] = past[i]
      /\ DOMAIN past = 1 .. Len(past) /\ DOMAIN past' = 1 .. Len(past) + 1
  BY DEF CacheTypeOK
<1>2. \A v \in 0 .. Len(past) : RowsAt(v, table', past') = RowsAt(v, table, past)
  BY <1>1 DEF RowsAt
<1>3. \A v \in 0 .. Len(past) : EnabledAt(v, table', past') = EnabledAt(v, table, past)
  BY <1>2 DEF EnabledAt
<1>4. \A v \in 0 .. Len(past) : \A t \in Nat :
         CurrentAt(v, past, t) /\ t <= time => CurrentAt(v, past', t)
  BY <1>1 DEF CurrentAt
<1>5. ASSUME NEW t \in Nat, t <= time, NEW rows \in RecentTables(t)
      PROVE  rows \in RecentTables(t)'
  <2>1. CASE rows = table
    <3>1. Len(past) + 1 \in DOMAIN past' /\ past'[Len(past) + 1].until > t - cache_ttl
      BY <1>1, <1>5, RuleAssumption DEF CacheTypeOK
    <3>2. QED
      BY <1>1, <2>1, <3>1 DEF RecentTables
  <2>2. CASE rows # table
    <3>1. PICK i \in DOMAIN past : past[i].until > t - cache_ttl /\ rows = past[i].rows
      BY <1>5, <2>2 DEF RecentTables
    <3>2. i \in DOMAIN past' /\ past'[i] = past[i]
      BY <1>1
    <3>3. QED
      BY <3>1, <3>2 DEF RecentTables
  <2>3. QED
    BY <2>1, <2>2
<1>6. QED
  BY <1>1, <1>3, <1>4, <1>5

-----------------------------------------------------------------------------
\* A step that leaves table, past, caches, stamps and sources alone, lets
\* nothing forget its reset and gives an evaluation a sound state keeps the
\* invariant.
LEMMA EvaluationStep ==
  ASSUME CacheInv, NEW e \in Evaluations, NEW s \in EvaluationState,
         UNCHANGED <<table, past, rule_cache, cache_timestamp, source, admin, time, changes>>,
         evaluation' = [evaluation EXCEPT ![e] = s],
         s.at \in {"load", "fetched", "done"} => s.asked <= time,
         s.at = "fetched" => /\ s.version <= Len(past)
                             /\ s.rules = EnabledAt(s.version, table, past)
                             /\ CurrentAt(s.version, past, s.asked)
                             /\ s.raced \/ s.version = Len(past),
         s.at = "done" => \E rows \in RecentTables(s.asked) : s.rules = {x \in rows : x.enabled}
  PROVE  CacheInv'
<1>1. CacheTypeOK'
  BY DEF CacheInv, CacheTypeOK
<1>2. Cached' /\ OwnChange'
  BY DEF CacheInv, Cached, OwnChange, EnabledAt, RowsAt, CurrentAt
<1>3. /\ \A f \in Evaluations : evaluation'[f] = IF f = e THEN s ELSE evaluation[f]
      /\ \A v : EnabledAt(v, table', past') = EnabledAt(v, table, past) /\ \A t : CurrentAt(v, past', t) = CurrentAt(v, past, t)
      /\ \A t : RecentTables(t)' = RecentTables(t)
  BY DEF CacheInv, CacheTypeOK, EnabledAt, RowsAt, CurrentAt, RecentTables
<1>4. Loaded'
  BY <1>3 DEF CacheInv, Loaded
<1>5. Asked'
  BY <1>3 DEF CacheInv, Asked
<1>6. RulesWereRecent'
  BY <1>3 DEF CacheInv, RulesWereRecent
<1>7. QED
  BY <1>1, <1>2, <1>4, <1>5, <1>6 DEF CacheInv

\* evaluate_all with a fresh cache decides with rules that are recent.
LEMMA EvaluateCachedKeeps ==
  ASSUME CacheInv, NEW e \in Evaluations, NEW w \in Workers, NEW c, NEW ml,
         EvaluateCached(e, w, c, ml)
  PROVE  CacheInv'
<1> DEFINE s == Result(rule_cache[w], time, c, ml)
<1>1. rule_cache[w] \in SUBSET Rule /\ time \in Nat
  BY DEF CacheInv, CacheTypeOK
<1>2. /\ s \in EvaluationState /\ s.at = "done"
      /\ s.rules = rule_cache[w] /\ s.asked = time
  BY <1>1, ResultType
<1> HIDE DEF s
<1>3. /\ source[w].version \in Nat /\ source[w].version <= Len(past)
      /\ CurrentAt(source[w].version, past, cache_timestamp[w])
      /\ cache_timestamp[w] \in Nat
      /\ rule_cache[w] = EnabledAt(source[w].version, table, past)
  BY DEF CacheInv, CacheTypeOK, Cached
<1>4. time - cache_timestamp[w] < cache_ttl
  BY DEF EvaluateCached, Fresh
<1>5. \E rows \in RecentTables(time) : rule_cache[w] = {x \in rows : x.enabled}
  BY <1>1, <1>3, <1>4, CurrentIsRecent DEF CacheInv
<1>6. /\ evaluation' = [evaluation EXCEPT ![e] = s]
      /\ UNCHANGED <<table, past, rule_cache, cache_timestamp, source, admin, time, changes>>
  BY DEF EvaluateCached, s
<1>7. s.asked <= time /\ s.at # "fetched"
  BY <1>1, <1>2
<1>8. \E rows \in RecentTables(s.asked) : s.rules = {x \in rows : x.enabled}
  BY <1>2, <1>5
<1>9. QED
  BY <1>2, <1>6, <1>7, <1>8, EvaluationStep

\* The steps of load_rules up to the answer of the query.
LEMMA LoadKeeps ==
  ASSUME CacheInv, NEW e \in Evaluations,
         (\E w \in Workers : Load(e, w)) \/ Fetch(e) \/ FetchFails(e)
  PROVE  CacheInv'
<1> USE DEF CacheInv
<1>1. ASSUME NEW w \in Workers, Load(e, w) PROVE CacheInv'
  <2> DEFINE s == [at |-> "load", worker |-> w, asked |-> time]
  <2>1. s \in EvaluationState
    BY DEF CacheTypeOK, EvaluationState
  <2>2. /\ evaluation' = [evaluation EXCEPT ![e] = s]
        /\ UNCHANGED <<table, past, rule_cache, cache_timestamp, source, admin, time, changes>>
    BY <1>1 DEF Load
  <2>3. s.at = "load" /\ s.asked <= time
    BY DEF CacheTypeOK
  <2> HIDE DEF s
  <2>4. QED
    BY <2>1, <2>2, <2>3, EvaluationStep
<1>2. ASSUME Fetch(e) PROVE CacheInv'
  <2> DEFINE s == [at |-> "fetched", worker |-> evaluation[e].worker,
                   asked |-> evaluation[e].asked, rules |-> SelectEnabled,
                   version |-> Version, raced |-> FALSE]
  <2>1. /\ evaluation[e] \in EvaluationState /\ evaluation[e].at = "load"
        /\ Len(past) \in Nat /\ SelectEnabled \in SUBSET Rule
    BY <1>2 DEF CacheTypeOK, Fetch, SelectEnabled
  <2>2. s \in EvaluationState
    BY <2>1 DEF EvaluationState, Version
  <2>3. /\ evaluation' = [evaluation EXCEPT ![e] = s]
        /\ UNCHANGED <<table, past, rule_cache, cache_timestamp, source, admin, time, changes>>
    BY <1>2 DEF Fetch
  <2>4. /\ s.at = "fetched" /\ s.asked <= time
        /\ s.version = Len(past) /\ s.rules = EnabledAt(Len(past), table, past)
    BY <2>1 DEF Asked, Version, SelectEnabled, EnabledAt, RowsAt
  <2>5. CurrentAt(s.version, past, s.asked)
    BY <2>1, <2>4 DEF CurrentAt
  <2> HIDE DEF s
  <2>6. s.version <= Len(past)
    BY <2>1, <2>4
  <2>7. QED
    BY <2>2, <2>3, <2>4, <2>5, <2>6, EvaluationStep
<1>3. ASSUME FetchFails(e) PROVE CacheInv'
  <2> DEFINE s == [at |-> "failed"]
  <2>1. s \in EvaluationState /\ s.at = "failed"
    BY DEF EvaluationState
  <2>2. /\ evaluation' = [evaluation EXCEPT ![e] = s]
        /\ UNCHANGED <<table, past, rule_cache, cache_timestamp, source, admin, time, changes>>
    BY <1>3 DEF FetchFails
  <2> HIDE DEF s
  <2>3. QED
    BY <2>1, <2>2, EvaluationStep
<1>4. QED
  BY <1>1, <1>2, <1>3

\* load_rules stamps the cache with the time before its query: what it caches
\* was the table then or later.
LEMMA FillKeeps ==
  ASSUME CacheInv, NEW e \in Evaluations, NEW c, NEW ml, Fill(e, c, ml)
  PROVE  CacheInv'
<1> DEFINE w == evaluation[e].worker
           old == evaluation[e]
           s == Result(old.rules, old.asked, c, ml)
<1>1. /\ old \in EvaluationState /\ old.at = "fetched"
  BY DEF Fill, CacheInv, CacheTypeOK
<1>2. /\ w \in Workers /\ old.asked \in Nat /\ old.rules \in SUBSET Rule
      /\ old.version \in Nat /\ old.raced \in BOOLEAN
  BY <1>1 DEF EvaluationState
<1>3. /\ s \in EvaluationState /\ s.at = "done"
      /\ s.rules = old.rules /\ s.asked = old.asked
  BY <1>2, ResultType
<1>4. /\ old.asked <= time
      /\ old.version <= Len(past)
      /\ old.rules = EnabledAt(old.version, table, past)
      /\ CurrentAt(old.version, past, old.asked)
      /\ old.raced \/ old.version = Len(past)
  BY <1>1 DEF CacheInv, Loaded, Asked
<1>5. \E rows \in RecentTables(old.asked) : old.rules = {x \in rows : x.enabled}
  BY <1>2, <1>4, CurrentIsRecent, RuleAssumption DEF CacheInv
<1>6. /\ evaluation' = [evaluation EXCEPT ![e] = s]
      /\ rule_cache' = [rule_cache EXCEPT ![w] = old.rules]
      /\ cache_timestamp' = [cache_timestamp EXCEPT ![w] = old.asked]
      /\ source' = [source EXCEPT ![w].version = old.version, ![w].raced = old.raced]
      /\ UNCHANGED <<table, past, admin, time, changes>>
  BY DEF Fill, Stamp
<1> HIDE DEF s, w, old
<1>7. CacheTypeOK'
  BY <1>2, <1>3, <1>6 DEF CacheInv, CacheTypeOK
<1>8. /\ \A f \in Evaluations : evaluation'[f] = IF f = e THEN s ELSE evaluation[f]
      /\ \A v : EnabledAt(v, table', past') = EnabledAt(v, table, past) /\ \A t : CurrentAt(v, past', t) = CurrentAt(v, past, t)
      /\ \A t : RecentTables(t)' = RecentTables(t)
  BY <1>6 DEF CacheInv, CacheTypeOK, EnabledAt, RowsAt, CurrentAt, RecentTables
<1>9. \A x \in Workers :
         /\ rule_cache'[x] = IF x = w THEN old.rules ELSE rule_cache[x]
         /\ cache_timestamp'[x] = IF x = w THEN old.asked ELSE cache_timestamp[x]
         /\ source'[x].version = IF x = w THEN old.version ELSE source[x].version
         /\ source'[x].raced = IF x = w THEN old.raced ELSE source[x].raced
         /\ source'[x].wrote = source[x].wrote
  BY <1>2, <1>6 DEF CacheInv, CacheTypeOK
<1>10. Cached'
  <2> SUFFICES ASSUME NEW x \in Workers
               PROVE  /\ source'[x].version <= Len(past') /\ source'[x].wrote <= Len(past')
                      /\ rule_cache'[x] = EnabledAt(source'[x].version, table', past')
                      /\ CurrentAt(source'[x].version, past', cache_timestamp'[x])
                      /\ cache_timestamp'[x] <= time'
    BY DEF Cached
  <2>1. /\ source[x].version <= Len(past) /\ source[x].wrote <= Len(past)
        /\ rule_cache[x] = EnabledAt(source[x].version, table, past)
        /\ CurrentAt(source[x].version, past, cache_timestamp[x])
        /\ cache_timestamp[x] <= time
    BY DEF CacheInv, Cached
  <2>2. past' = past /\ table' = table /\ time' = time
    BY <1>6
  <2>3. CASE x = w
    BY <1>4, <1>9, <2>1, <2>2, <2>3
  <2>4. CASE x # w
    BY <1>9, <2>1, <2>2, <2>4
  <2>5. QED
    BY <2>3, <2>4
<1>11. OwnChange'
  <2>1. \A x \in Workers : source[x].wrote <= Len(past) /\ source[x].wrote \in Nat
    BY DEF CacheInv, CacheTypeOK, Cached
  <2>2. Len(past) \in Nat
    BY DEF CacheInv, CacheTypeOK
  <2>3. ASSUME NEW x \in Workers, source'[x].version < source'[x].wrote
        PROVE  \/ source'[x].raced
               \/ admin'.at = "reset" /\ admin'.worker = x
               \/ cache_timestamp'[x] = 0
    <3>1. CASE x = w
      <4>1. old.version # Len(past)
        BY <1>2, <1>9, <2>1, <2>2, <2>3, <3>1
      <4>2. QED
        BY <1>4, <1>9, <3>1, <4>1, Zenon
    <3>2. CASE x # w
      <4>1. source[x].version < source[x].wrote
        BY <1>9, <2>3, <3>2
      <4>2. QED
        BY <1>6, <1>9, <3>2, <4>1, Zenon DEF CacheInv, OwnChange
    <3>3. QED
      BY <3>1, <3>2
  <2>4. QED
    BY <2>3 DEF OwnChange
<1>12. Loaded' /\ Asked'
  BY <1>3, <1>4, <1>6, <1>8 DEF CacheInv, Loaded, Asked
<1>13. RulesWereRecent'
  BY <1>3, <1>5, <1>8 DEF CacheInv, RulesWereRecent
<1>14. QED
  BY <1>7, <1>10, <1>11, <1>12, <1>13 DEF CacheInv

\* add_rule and update_rule_status: the table's earlier contents stay recent,
\* the loads under way are overtaken, and the reset is yet to come.
LEMMA WriteKeeps ==
  ASSUME CacheInv, admin = NoCall, NEW w \in Workers, NEW rows \in SUBSET Rule, Write(rows, w)
  PROVE  CacheInv'
<1>1. /\ past' = Append(past, [rows |-> table, until |-> time])
      /\ CacheTypeOK /\ time' = time
      /\ UNCHANGED <<rule_cache, cache_timestamp>>
  BY DEF Write, CacheInv
<1>2. Len(past) \in Nat
  BY DEF CacheInv, CacheTypeOK
<1>3. \A f \in Evaluations :
         /\ evaluation[f] \in EvaluationState
         /\ evaluation'[f] = IF evaluation[f].at = "fetched"
                             THEN [evaluation[f] EXCEPT !.raced = TRUE] ELSE evaluation[f]
  BY DEF Write, CacheInv, CacheTypeOK
<1>4. \A f \in Evaluations :
         /\ evaluation'[f] \in EvaluationState
         /\ evaluation'[f].at = evaluation[f].at
         /\ evaluation[f].at \in {"load", "fetched", "done"} =>
               evaluation'[f].asked = evaluation[f].asked /\ evaluation[f].asked \in Nat
         /\ evaluation[f].at \in {"fetched", "done"} =>
               evaluation'[f].rules = evaluation[f].rules
         /\ evaluation[f].at = "fetched" =>
               /\ evaluation'[f].version = evaluation[f].version
               /\ evaluation[f].version \in Nat /\ evaluation'[f].raced = TRUE
  <2> SUFFICES ASSUME NEW f \in Evaluations
               PROVE
         /\ evaluation'[f] \in EvaluationState
         /\ evaluation'[f].at = evaluation[f].at
         /\ evaluation[f].at \in {"load", "fetched", "done"} =>
               evaluation'[f].asked = evaluation[f].asked /\ evaluation[f].asked \in Nat
         /\ evaluation[f].at \in {"fetched", "done"} =>
               evaluation'[f].rules = evaluation[f].rules
         /\ evaluation[f].at = "fetched" =>
               /\ evaluation'[f].version = evaluation[f].version
               /\ evaluation[f].version \in Nat /\ evaluation'[f].raced = TRUE
    OBVIOUS
  <2>1. CASE evaluation[f].at = "fetched"
    BY <1>3, <2>1 DEF EvaluationState
  <2>2. CASE evaluation[f].at # "fetched"
    BY <1>3, <2>2 DEF EvaluationState
  <2>3. QED
    BY <2>1, <2>2
<1>5. \A x \in Workers :
         /\ source'[x].version = source[x].version /\ source'[x].raced = source[x].raced
         /\ source'[x].wrote = IF x = w THEN Len(past) + 1 ELSE source[x].wrote
         /\ source[x].version \in Nat /\ source[x].wrote \in Nat
  BY DEF Write, Version, CacheInv, CacheTypeOK
<1>6. CacheTypeOK'
  <2>1. past' \in Seq([rows : SUBSET Rule, until : Nat])
    BY <1>1 DEF CacheTypeOK
  <2>2. evaluation' \in [Evaluations -> EvaluationState]
    <3>1. evaluation' = [f \in Evaluations |-> evaluation'[f]]
      BY DEF Write
    <3>2. QED
      BY <1>4, <3>1
  <2>3. source' \in [Workers -> [version : Nat, raced : BOOLEAN, wrote : Nat]]
    <3>1. source \in [Workers -> [version : Nat, raced : BOOLEAN, wrote : Nat]]
      BY DEF CacheInv, CacheTypeOK
    <3>2. source' = [source EXCEPT ![w].wrote = Len(past) + 1] /\ Len(past) + 1 \in Nat
      BY <1>2 DEF Write, Version
    <3>3. QED
      BY <3>1, <3>2
  <2>4. QED
    BY <1>1, <2>1, <2>2, <2>3 DEF Write, CacheTypeOK
<1>7. /\ Len(past)' = Len(past) + 1
      /\ \A v \in 0 .. Len(past) : EnabledAt(v, table', past') = EnabledAt(v, table, past)
      /\ \A v \in 0 .. Len(past) : \A t \in Nat :
             CurrentAt(v, past, t) /\ t <= time => CurrentAt(v, past', t)
      /\ \A t \in Nat : t <= time => \A r \in RecentTables(t) : r \in RecentTables(t)'
  BY <1>1, VersionsKept
<1>8. Asked'
  BY <1>1, <1>4 DEF CacheInv, Asked
<1>9. Loaded'
  <2> SUFFICES ASSUME NEW f \in Evaluations, evaluation'[f].at = "fetched"
               PROVE  /\ evaluation'[f].version <= Len(past)'
                      /\ evaluation'[f].rules = EnabledAt(evaluation'[f].version, table', past')
                      /\ CurrentAt(evaluation'[f].version, past', evaluation'[f].asked)
                      /\ evaluation'[f].raced
    BY DEF Loaded
  <2>1. /\ evaluation[f].at = "fetched" /\ evaluation[f].asked <= time
        /\ evaluation[f].version \in 0 .. Len(past)
        /\ evaluation[f].rules = EnabledAt(evaluation[f].version, table, past)
        /\ CurrentAt(evaluation[f].version, past, evaluation[f].asked)
    BY <1>2, <1>4 DEF CacheInv, Loaded, Asked
  <2>2. QED
    BY <1>2, <1>4, <1>7, <2>1
<1>10. Cached'
  <2> SUFFICES ASSUME NEW x \in Workers
               PROVE  /\ source'[x].version <= Len(past)' /\ source'[x].wrote <= Len(past)'
                      /\ rule_cache'[x] = EnabledAt(source'[x].version, table', past')
                      /\ CurrentAt(source'[x].version, past', cache_timestamp'[x])
                      /\ cache_timestamp'[x] <= time'
    BY DEF Cached
  <2>1. /\ source[x].version \in 0 .. Len(past) /\ source[x].wrote <= Len(past)
        /\ rule_cache[x] = EnabledAt(source[x].version, table, past)
        /\ CurrentAt(source[x].version, past, cache_timestamp[x])
        /\ cache_timestamp[x] \in Nat
    BY <1>2, <1>5 DEF CacheInv, Cached, CacheTypeOK
  <2>2. cache_timestamp[x] <= time
    BY DEF CacheInv, Cached
  <2>3. QED
    BY <1>1, <1>2, <1>5, <1>7, <2>1, <2>2
<1>11. OwnChange'
  <2>1. admin' = [at |-> "reset", worker |-> w]
    BY DEF Write
  <2>2. \A x \in Workers : x # w /\ source[x].version < source[x].wrote =>
            source[x].raced \/ cache_timestamp[x] = 0
    BY DEF CacheInv, OwnChange, NoCall
  <2>3. QED
    BY <1>1, <1>5, <2>1, <2>2 DEF OwnChange
<1>12. RulesWereRecent'
  BY <1>4, <1>7 DEF CacheInv, RulesWereRecent, Asked
<1>13. QED
  BY <1>6, <1>8, <1>9, <1>10, <1>11, <1>12 DEF CacheInv


\* The reset, and the passing of time.
LEMMA ResetKeeps ==
  ASSUME CacheInv, Reset \/ TimePasses \/ UNCHANGED cacheVars
  PROVE  CacheInv'
<1> USE DEF CacheInv
<1>1. ASSUME Reset PROVE CacheInv'
  <2> DEFINE w == admin.worker
  <2>1. /\ w \in Workers /\ admin' = NoCall
        /\ \A x \in Workers : cache_timestamp'[x] = IF x = w THEN 0 ELSE cache_timestamp[x]
        /\ UNCHANGED <<table, past, rule_cache, source, evaluation, time, changes>>
    BY <1>1 DEF Reset, ResetStamp, CacheTypeOK, NoCall
  <2>2. CacheTypeOK'
    BY <1>1, <2>1 DEF CacheTypeOK, Reset, ResetStamp
  <2>3. Cached'
    <3> SUFFICES ASSUME NEW x \in Workers
                 PROVE  /\ source[x].version <= Len(past) /\ source[x].wrote <= Len(past)
                        /\ rule_cache[x] = EnabledAt(source[x].version, table, past)
                        /\ CurrentAt(source[x].version, past, cache_timestamp'[x])
                        /\ cache_timestamp'[x] <= time
      BY <2>1 DEF Cached
    <3>1. /\ source[x].version \in Nat /\ time \in Nat /\ Len(past) \in Nat
          /\ past \in Seq([rows : SUBSET Rule, until : Nat])
      BY DEF CacheTypeOK
    <3>2. CurrentAt(source[x].version, past, 0)
      <4>1. \A i \in 1 .. Len(past) : past[i] \in [rows : SUBSET Rule, until : Nat]
        BY <3>1, ElementOfSeq
      <4>2. \A i \in 1 .. Len(past) : past[i].until \in Nat
        BY <4>1
      <4>3. QED
        BY <3>1, <4>2 DEF CurrentAt
    <3>3. QED
      BY <2>1, <3>1, <3>2 DEF Cached
  <2>4. OwnChange'
    BY <1>1, <2>1 DEF OwnChange, Reset
  <2>5. Loaded'
    BY <2>1 DEF Loaded
  <2>6. Asked'
    BY <2>1 DEF Asked
  <2>7. RulesWereRecent'
    BY <2>1 DEF RulesWereRecent, RecentTables
  <2>8. QED
    BY <2>2, <2>3, <2>4, <2>5, <2>6, <2>7
<1>2. ASSUME TimePasses PROVE CacheInv'
  <2>1. /\ time' = time + 1 /\ time \in Nat
        /\ UNCHANGED <<table, past, rule_cache, cache_timestamp, source, evaluation, admin, changes>>
    BY <1>2 DEF TimePasses, CacheTypeOK
  <2>2. CacheTypeOK'
    BY <2>1, RuleAssumption DEF CacheTypeOK
  <2>3. Cached'
    BY <2>1 DEF Cached, CacheTypeOK
  <2>4. Asked'
    <3>1. \A e \in Evaluations : evaluation[e].at \in {"load", "fetched", "done"} =>
             evaluation[e].asked \in Nat
      BY DEF CacheTypeOK, EvaluationState
    <3>2. QED
      BY <2>1, <3>1 DEF Asked
  <2>5. Loaded' /\ OwnChange' /\ RulesWereRecent'
    BY <2>1 DEF Loaded, OwnChange, RulesWereRecent, RecentTables
  <2>6. QED
    BY <2>2, <2>3, <2>4, <2>5
<1>3. ASSUME UNCHANGED cacheVars PROVE CacheInv'
  <2>1. CacheTypeOK'
    BY <1>3 DEF cacheVars, CacheTypeOK
  <2>2. Cached' /\ Loaded' /\ Asked' /\ OwnChange'
    BY <1>3 DEF cacheVars, Cached, Loaded, Asked, OwnChange
  <2>3. RulesWereRecent'
    BY <1>3 DEF cacheVars, RulesWereRecent, RecentTables
  <2>4. QED
    BY <2>1, <2>2, <2>3
<1>4. QED
  BY <1>1, <1>2, <1>3

\* Every step keeps the invariant.
LEMMA CacheSteps == CacheInv /\ [CacheNext]_cacheVars => CacheInv'
<1> SUFFICES ASSUME CacheInv, [CacheNext]_cacheVars PROVE CacheInv'
  OBVIOUS
<1>1. ASSUME NEW w \in Workers, NEW rule \in Rule, add_rule(w, rule) PROVE CacheInv'
  <2>1. table \cup {rule} \in SUBSET Rule
    BY DEF CacheInv, CacheTypeOK
  <2>2. QED
    BY <1>1, <2>1, WriteKeeps DEF add_rule
<1>2. ASSUME NEW w \in Workers, NEW old \in table, NEW enabled \in BOOLEAN,
             NEW shadow \in BOOLEAN, update_rule_status(w, old, enabled, shadow)
      PROVE  CacheInv'
  <2> DEFINE new == [old EXCEPT !.enabled = enabled, !.shadow_mode = shadow]
  <2>1. old \in Rule /\ table \in SUBSET Rule
    BY DEF CacheInv, CacheTypeOK
  <2>2. new \in Rule
    BY <2>1 DEF Rule
  <2> HIDE DEF new
  <2>3. (table \ {old}) \cup {new} \in SUBSET Rule
    BY <2>1, <2>2
  <2>4. admin = NoCall /\ Write((table \ {old}) \cup {new}, w)
    BY <1>2 DEF update_rule_status, new
  <2>5. QED
    BY <2>3, <2>4, WriteKeeps
<1>3. CASE Reset \/ TimePasses \/ UNCHANGED cacheVars
  BY <1>3, ResetKeeps
<1>4. CASE AllAnswered
  BY <1>4, ResetKeeps DEF AllAnswered
<1>5. ASSUME NEW e \in Evaluations, (\E w \in Workers : Load(e, w)) \/ Fetch(e) \/ FetchFails(e)
      PROVE  CacheInv'
  BY <1>5, LoadKeeps
<1>6. ASSUME NEW e \in Evaluations, NEW c \in Contexts, NEW ml \in {0, 7}, Fill(e, c, ml)
      PROVE  CacheInv'
  BY <1>6, FillKeeps
<1>7. ASSUME NEW e \in Evaluations, NEW c \in Contexts, NEW ml \in {0, 7},
             NEW w \in Workers, EvaluateCached(e, w, c, ml)
      PROVE  CacheInv'
  BY <1>7, EvaluateCachedKeeps
<1>8. QED
  BY <1>1, <1>2, <1>3, <1>4, <1>5, <1>6, <1>7 DEF CacheNext

\* The types and the invariant of the rule cache hold throughout.
THEOREM CacheInvariance == CacheSpec => []CacheInv
BY CacheStarts, CacheSteps, PTL DEF CacheSpec

\* load_rules: for any number of workers, evaluations and administrative
\* calls, and any cache_ttl, every decision is made with rules that were the
\* table's enabled rules less than cache_ttl before it was asked for.
THEOREM DecisionsUseRecentRules == CacheSpec => []RulesWereRecent
<1>1. CacheInv => RulesWereRecent
  BY DEF CacheInv
<1>2. QED
  BY <1>1, CacheInvariance, PTL

\* add_rule and update_rule_status: a worker whose cache is fresh has its own
\* last change in it, unless that change overtook the load or the reset is
\* yet to come.
THEOREM OwnChangesAreSeen == CacheSpec => []FreshUnlessRaced
<1>1. CacheInv => FreshUnlessRaced
  <2> SUFFICES ASSUME CacheInv, NEW w \in Workers, Fresh(w),
                      source[w].version < source[w].wrote
               PROVE  source[w].raced \/ (admin.at = "reset" /\ admin.worker = w)
    BY DEF FreshUnlessRaced
  <2>1. cache_timestamp[w] # 0
    BY RuleAssumption DEF CacheInv, CacheTypeOK, Fresh
  <2>2. QED
    BY <2>1 DEF CacheInv, OwnChange
<1>2. QED
  BY <1>1, CacheInvariance, PTL
=============================================================================
