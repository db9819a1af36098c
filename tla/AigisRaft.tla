----------------------------- MODULE AigisRaft -----------------------------
(***************************************************************************)
(* The consensus module of AIGIS (prog3/consensus.py): RaftNode objects in *)
(* one process, each with a loop thread and a non-reentrant lock.  A loop  *)
(* holds its own node's lock for the whole election or heartbeat round and *)
(* calls its peers' handlers one after the other; a handler takes its      *)
(* node's lock, so the call waits while that node's loop is busy.  Client  *)
(* threads call replicate, which looks at the state before it locks.       *)
(*                                                                         *)
(* A step is a stretch of code under one lock.  The timers only decide     *)
(* when a loop starts an election; here a follower may start one whenever  *)
(* it holds its lock.  Log positions count from 1 where the code's count   *)
(* from 0, so that commit_index and match_index are numbers of entries.    *)
(***************************************************************************)
EXTENDS Integers, Sequences, FiniteSets

CONSTANTS
    N,             \* number of nodes; node ids are 1 .. N, in peers' order
    Commands,      \* commands passed to replicate, each once
    MaxTerm        \* bound: highest term an election starts

ASSUME RaftAssumption == N \in Nat \ {0} /\ MaxTerm \in Nat

Nodes == 1 .. N
None == 0          \* voted_for of a node that has not voted

VARIABLES
    state, current_term, voted_for, log,
    commit_index,
    next_index, match_index,
    loop,          \* the node's thread: idle, or where in the round it is
    calls,         \* replicate calls that saw a leader and wait for its lock
    sent,          \* commands whose replicate call saw a leader
    applied,       \* commands given to apply_callback; last_applied is its length
    ballots,       \* history: <<term, voter, candidate>> of every vote given
    elected,       \* history: <<term, node>> of every _become_leader
    misplaced      \* history: commands appended by a node that did not lead

raftVars == <<state, current_term, voted_for>>
logVars == <<log, commit_index, applied>>
leaderVars == <<next_index, match_index>>
clientVars == <<calls, sent, misplaced>>
history == <<ballots, elected>>
vars == <<raftVars, logVars, leaderVars, clientVars, loop, history>>

\* votes_received is kept as the set of the nodes that granted one.
Idle == [pc |-> "idle", peer |-> 0, voters |-> {}]
Round == [pc : {"idle", "electing", "beating"}, peer : 0 .. (N + 2),
          voters : SUBSET Nodes]

Free(n) == loop[n].pc = "idle"
Majority(count) == count > N \div 2

Init ==
    /\ state = [n \in Nodes |-> "FOLLOWER"]
    /\ current_term = [n \in Nodes |-> 0]
    /\ voted_for = [n \in Nodes |-> None]
    /\ log = [n \in Nodes |-> <<>>]
    /\ commit_index = [n \in Nodes |-> 0]
    /\ next_index = [n \in Nodes |-> [p \in Nodes |-> 1]]
    /\ match_index = [n \in Nodes |-> [p \in Nodes |-> 0]]
    /\ loop = [n \in Nodes |-> Idle]
    /\ calls = {}
    /\ sent = {}
    /\ applied = [n \in Nodes |-> <<>>]
    /\ ballots = {}
    /\ elected = {}
    /\ misplaced = {}

\* The peer after p in the list, the node itself skipped.
NextPeer(n, p) == IF p + 1 = n THEN p + 2 ELSE p + 1

\* The loop of n calls its next peer, whose lock is free.
Calls(n, pc) ==
    /\ loop[n].pc = pc
    /\ loop[n].peer \in Nodes
    /\ Free(loop[n].peer)

\* The loop of n has called every peer.
Called(n, pc) ==
    /\ loop[n].pc = pc
    /\ loop[n].peer \notin Nodes

\* A reply with a higher term ends the round of n.
StepDown(n, term) ==
    /\ state' = [state EXCEPT ![n] = "FOLLOWER"]
    /\ current_term' = [current_term EXCEPT ![n] = term]
    /\ voted_for' = [voted_for EXCEPT ![n] = None]
    /\ loop' = [loop EXCEPT ![n] = Idle]

-----------------------------------------------------------------------------
(* Election.                                                               *)

start_election(n) ==
    /\ Free(n)
    /\ state[n] # "LEADER"
    /\ current_term[n] < MaxTerm
    /\ state' = [state EXCEPT ![n] = "CANDIDATE"]
    /\ current_term' = [current_term EXCEPT ![n] = @ + 1]
    /\ voted_for' = [voted_for EXCEPT ![n] = n]
    /\ loop' = [loop EXCEPT ![n] = [pc |-> "electing", peer |-> NextPeer(n, 0),
                                    voters |-> {n}]]
    /\ ballots' = ballots \cup {<<current_term[n] + 1, n, n>>}
    /\ UNCHANGED <<logVars, leaderVars, clientVars, elected>>

LastTerm(n) == IF log[n] = <<>> THEN 0 ELSE log[n][Len(log[n])].term

\* The log of candidate n is at least as up to date as that of p.
UpToDate(n, p) ==
    \/ LastTerm(n) > LastTerm(p)
    \/ LastTerm(n) = LastTerm(p) /\ Len(log[n]) >= Len(log[p])

\* Mutation: a node that has voted in this term votes again.
grantsAgain(p, n) ==
    /\ current_term[n] >= current_term[p]
    /\ UpToDate(n, p)

\* request_vote of p: does it grant the vote that n asks for?
grants(p, n) ==
    /\ current_term[n] >= current_term[p]
    /\ current_term[n] > current_term[p] \/ voted_for[p] \in {None, n}
    /\ UpToDate(n, p)

\* Mutation: the handler forgets to take over the term.
AdoptsNoTerm(p, n) ==
    /\ UNCHANGED current_term
    /\ state' = IF current_term[n] > current_term[p]
                THEN [state EXCEPT ![p] = "FOLLOWER"] ELSE state

\* Handler p has seen a term of n that is not below its own.
Adopts(p, n) ==
    /\ current_term' = [current_term EXCEPT ![p] = current_term[n]]
    /\ state' = IF current_term[n] > current_term[p]
                THEN [state EXCEPT ![p] = "FOLLOWER"] ELSE state

RequestVote(n) ==
    LET p == loop[n].peer IN
    /\ Calls(n, "electing")
    /\ current_term[n] >= current_term[p]
    /\ Adopts(p, n)
    /\ voted_for' = IF grants(p, n)
                    THEN [voted_for EXCEPT ![p] = n]
                    ELSE IF current_term[n] > current_term[p]
                         THEN [voted_for EXCEPT ![p] = None] ELSE voted_for
    /\ loop' = [loop EXCEPT ![n] =
                  [pc |-> "electing", peer |-> NextPeer(n, p),
                   voters |-> IF grants(p, n) THEN @.voters \cup {p}
                                              ELSE @.voters]]
    /\ ballots' = IF grants(p, n) THEN ballots \cup {<<current_term[n], p, n>>}
                                  ELSE ballots
    /\ UNCHANGED <<logVars, leaderVars, clientVars, elected>>

RequestVoteStale(n) ==
    LET p == loop[n].peer IN
    /\ Calls(n, "electing")
    /\ current_term[p] > current_term[n]
    /\ StepDown(n, current_term[p])
    /\ UNCHANGED <<logVars, leaderVars, clientVars, history>>

become_leader(n) ==
    /\ Called(n, "electing")
    /\ state[n] = "CANDIDATE"
    /\ Majority(Cardinality(loop[n].voters))
    /\ state' = [state EXCEPT ![n] = "LEADER"]
    /\ next_index' = [next_index EXCEPT ![n] = [p \in Nodes |-> Len(log[n]) + 1]]
    /\ match_index' = [match_index EXCEPT ![n] = [p \in Nodes |-> 0]]
    /\ loop' = [loop EXCEPT ![n] = [pc |-> "beating", peer |-> NextPeer(n, 0),
                                    voters |-> {}]]
    /\ elected' = elected \cup {<<current_term[n], n>>}
    /\ UNCHANGED <<current_term, voted_for, logVars, clientVars, ballots>>

\* The election is over and n still a candidate.
LoseElection(n) ==
    /\ Called(n, "electing")
    /\ ~ Majority(Cardinality(loop[n].voters))
    /\ loop' = [loop EXCEPT ![n] = Idle]
    /\ UNCHANGED <<raftVars, logVars, leaderVars, clientVars, history>>

-----------------------------------------------------------------------------
(* Replication.                                                            *)

StartHeartbeats(n) ==
    /\ Free(n)
    /\ state[n] = "LEADER"
    /\ loop' = [loop EXCEPT ![n] = [pc |-> "beating", peer |-> NextPeer(n, 0),
                                    voters |-> {}]]
    /\ UNCHANGED <<raftVars, logVars, leaderVars, clientVars, history>>

\* Mutation: an entry that is there with another term is left alone.
AppendedBehind(l, prev, entries) ==
    IF prev + Len(entries) <= Len(l) THEN l
    ELSE l \o SubSeq(entries, Len(l) - prev + 1, Len(entries))

\* The log l after the entries were put behind position prev: from the first
\* one that l lacks or holds with another term, l is replaced.
Appended(l, prev, entries) ==
    LET new == {i \in 1 .. Len(entries) :
                  prev + i > Len(l) \/ l[prev + i].term # entries[i].term} IN
    IF new = {} THEN l
    ELSE LET i == CHOOSE i \in new : \A k \in new : i <= k IN
         SubSeq(l, 1, prev + i - 1) \o SubSeq(entries, i, Len(entries))

\* commit_index moves to c on n's log l, and _apply_logs follows.
Commit(n, l, c) ==
    /\ commit_index' = [commit_index EXCEPT ![n] = c]
    /\ applied' = [applied EXCEPT ![n] =
                     @ \o [i \in 1 .. (IF c > Len(@) THEN c - Len(@) ELSE 0)
                             |-> l[Len(@) + i].command]]

\* Mutation: the term of the entry before the new ones is not compared.
ConsistentAnyTerm(p, prev, prevTerm) == Len(log[p]) >= prev

\* append_entries of p finds the entry before the new ones, with its term.
Consistent(p, prev, prevTerm) ==
    prev = 0 \/ (Len(log[p]) >= prev /\ log[p][prev].term = prevTerm)

\* The rest of p's append_entries, and what n makes of its reply.
append_entries(p, n, prev, entries) ==
    LET prevTerm == IF prev = 0 THEN 0 ELSE log[n][prev].term
        l == Appended(log[p], prev, entries)
        c == IF commit_index[n] <= commit_index[p] THEN commit_index[p]
             ELSE IF commit_index[n] < Len(l) THEN commit_index[n] ELSE Len(l) IN
    IF Consistent(p, prev, prevTerm)
    THEN /\ log' = [log EXCEPT ![p] = l]
         /\ Commit(p, l, c)
         /\ next_index' = [next_index EXCEPT ![n][p] = prev + Len(entries) + 1]
         /\ match_index' = [match_index EXCEPT ![n][p] = prev + Len(entries)]
    ELSE /\ log' = [log EXCEPT ![p] = IF Len(@) >= prev
                                      THEN SubSeq(@, 1, prev - 1) ELSE @]
         /\ next_index' = [next_index EXCEPT ![n][p] = IF @ > 1 THEN @ - 1 ELSE 1]
         /\ UNCHANGED <<match_index, commit_index, applied>>

AppendEntries(n) ==
    LET p == loop[n].peer
        prev == next_index[n][p] - 1 IN
    /\ Calls(n, "beating")
    /\ current_term[n] >= current_term[p]
    /\ Adopts(p, n)
    /\ voted_for' = IF current_term[n] > current_term[p]
                    THEN [voted_for EXCEPT ![p] = None] ELSE voted_for
    /\ append_entries(p, n, prev, SubSeq(log[n], prev + 1, Len(log[n])))
    /\ loop' = [loop EXCEPT ![n] = [pc |-> "beating", peer |-> NextPeer(n, p),
                                    voters |-> {}]]
    /\ UNCHANGED <<clientVars, history>>

AppendEntriesStale(n) ==
    LET p == loop[n].peer IN
    /\ Calls(n, "beating")
    /\ current_term[p] > current_term[n]
    /\ StepDown(n, current_term[p])
    /\ UNCHANGED <<logVars, leaderVars, clientVars, history>>

\* Positions of the leader's own term that a majority holds.
committable(n) ==
    {i \in (commit_index[n] + 1) .. Len(log[n]) :
        /\ log[n][i].term = current_term[n]
        /\ Majority(Cardinality({p \in Nodes : p = n \/ match_index[n][p] >= i}))}

update_commit_index(n) ==
    LET found == committable(n) IN
    /\ Called(n, "beating")
    /\ IF found = {} THEN UNCHANGED <<commit_index, applied>>
       ELSE Commit(n, log[n], CHOOSE i \in found : \A k \in found : i >= k)
    /\ loop' = [loop EXCEPT ![n] = Idle]
    /\ UNCHANGED <<raftVars, log, leaderVars, clientVars, history>>

-----------------------------------------------------------------------------
(* Clients.                                                                *)

\* replicate finds a leader, without the lock.
ReplicateCheck(n, c) ==
    /\ state[n] = "LEADER"
    /\ c \notin sent
    /\ sent' = sent \cup {c}
    /\ calls' = calls \cup {<<n, c>>}
    /\ UNCHANGED <<raftVars, logVars, leaderVars, misplaced, loop, history>>

\* Under the lock it appends, whatever the state has become.
ReplicateAppend(n, c) ==
    /\ <<n, c>> \in calls
    /\ Free(n)
    /\ log' = [log EXCEPT ![n] =
                 Append(@, [term |-> current_term[n], command |-> c])]
    /\ match_index' = [match_index EXCEPT ![n][n] = Len(log[n]) + 1]
    /\ calls' = calls \ {<<n, c>>}
    /\ misplaced' = IF state[n] = "LEADER" THEN misplaced
                                           ELSE misplaced \cup {c}
    /\ UNCHANGED <<raftVars, commit_index, applied, next_index, sent, loop,
                   history>>

-----------------------------------------------------------------------------
RoundStep(n) ==
    \/ RequestVote(n)
    \/ RequestVoteStale(n)
    \/ become_leader(n)
    \/ LoseElection(n)
    \/ AppendEntries(n)
    \/ AppendEntriesStale(n)
    \/ update_commit_index(n)

Next ==
    \/ \E n \in Nodes : \/ start_election(n)
                        \/ StartHeartbeats(n)
                        \/ RoundStep(n)
    \/ \E n \in Nodes, c \in Commands : \/ ReplicateCheck(n, c)
                                        \/ ReplicateAppend(n, c)

Spec == Init /\ [][Next]_vars

-----------------------------------------------------------------------------
Entry == [term : Nat, command : Commands]

TypeOK ==
    /\ state \in [Nodes -> {"FOLLOWER", "CANDIDATE", "LEADER"}]
    /\ current_term \in [Nodes -> Nat]
    /\ voted_for \in [Nodes -> Nodes \cup {None}]
    /\ log \in [Nodes -> Seq(Entry)]
    /\ commit_index \in [Nodes -> Nat]
    /\ next_index \in [Nodes -> [Nodes -> Nat \ {0}]]
    /\ match_index \in [Nodes -> [Nodes -> Nat]]
    /\ loop \in [Nodes -> Round]
    /\ calls \subseteq Nodes \X Commands
    /\ sent \subseteq Commands
    /\ applied \in [Nodes -> Seq(Commands)]
    /\ ballots \subseteq Nat \X Nodes \X Nodes
    /\ elected \subseteq Nat \X Nodes
    /\ misplaced \subseteq Commands

\* No term ever has two leaders, not even one after the other: the votes of
\* request_vote and the node's vote for itself never support two candidates.
ElectionSafety ==
    \A e, f \in elected : e[1] = f[1] => e[2] = f[2]

\* Terms never go back, and within a term a vote once given stays.
VotesStay ==
    [][\A n \in Nodes :
        /\ current_term'[n] >= current_term[n]
        /\ current_term'[n] = current_term[n] /\ voted_for[n] # None
              => voted_for'[n] = voted_for[n]]_vars

\* As long as replicate only ever appended to a leader's log, entries with
\* equal position and term end equal prefixes of their logs.
LogMatching ==
    misplaced = {} =>
        \A m, n \in Nodes :
            \A i \in 1 .. (IF Len(log[m]) < Len(log[n]) THEN Len(log[m])
                                                        ELSE Len(log[n])) :
                log[m][i].term = log[n][i].term
                    => SubSeq(log[m], 1, i) = SubSeq(log[n], 1, i)

PrefixAgree(s, t) ==
    \A i \in (DOMAIN s) \cap (DOMAIN t) : s[i] = t[i]

\* As long as replicate only ever appended to a leader's log, the nodes hand
\* their state machines the same commands in the same order.
CommittedAgree ==
    misplaced = {} => \A m, n \in Nodes : PrefixAgree(applied[m], applied[n])
=============================================================================
