------------------------------ MODULE JobLease ------------------------------
(***************************************************************************)
(* What the jobs table of CHRONOS (prog9) promises about handing out work, *)
(* without any executor, reaper, clock or crash: a job is offered once     *)
(* when it is inserted and once more for every recorded retry, an offered  *)
(* job is granted at most once, and an offer may be withdrawn.             *)
(***************************************************************************)
EXTENDS Naturals

CONSTANT Jobs

VARIABLES
    phase,    \* "absent", "offered" or "taken"
    grants,   \* how often the job was handed to an executor
    resets    \* how often it was offered again

vars == <<phase, grants, resets>>

Init ==
    /\ phase = [j \in Jobs |-> "absent"]
    /\ grants = [j \in Jobs |-> 0]
    /\ resets = [j \in Jobs |-> 0]

Create(j) ==
    /\ phase[j] = "absent"
    /\ phase' = [phase EXCEPT ![j] = "offered"]
    /\ UNCHANGED <<grants, resets>>

Grant(j) ==
    /\ phase[j] = "offered"
    /\ phase' = [phase EXCEPT ![j] = "taken"]
    /\ grants' = [grants EXCEPT ![j] = @ + 1]
    /\ UNCHANGED resets

Offer(j) ==
    /\ phase[j] # "absent"
    /\ phase' = [phase EXCEPT ![j] = "offered"]
    /\ resets' = [resets EXCEPT ![j] = @ + 1]
    /\ UNCHANGED grants

Withdraw(j) ==
    /\ phase[j] = "offered"
    /\ phase' = [phase EXCEPT ![j] = "taken"]
    /\ UNCHANGED <<grants, resets>>

Next == \E j \in Jobs : Create(j) \/ Grant(j) \/ Offer(j) \/ Withdraw(j)

Spec == Init /\ [][Next]_vars
=============================================================================
