-------------------------- MODULE AigisRaftProofs --------------------------
(***************************************************************************)
(* Proofs about the Raft of AIGIS, for any number of nodes, commands and   *)
(* terms: no term has two leaders, votes stay, logs match and the nodes    *)
(* apply the same commands in the same order, the last two as long as      *)
(* replicate appended only to the logs of leaders.                         *)
(*                                                                         *)
(* VoteInv says who supports whom: a node that voted in a term still shows *)
(* that vote or has moved on to a later term, so it never votes twice in   *)
(* one; the votes a loop has collected were given, and every leader had    *)
(* those of a majority.                                                    *)
(*                                                                         *)
(* RaftInv adds: what the indices of a leader and the voters of a round    *)
(* are worth (BaseInv); where the entries of a term come from (LogInv);    *)
(* that an entry of its own a leader counts acknowledgements for is kept   *)
(* by whoever acknowledged it, in every later term (AckInv); and that what *)
(* is committed is kept by a majority (CommitInv).  The steps are sorted   *)
(* once by what they do to logs and leaders: quiet ones, the beginning of  *)
(* a lead, an appended command, an append_entries call; each part of the   *)
(* invariant is shown for these kinds.                                     *)
(***************************************************************************)
EXTENDS AigisRaft, FiniteSetTheorems, SequenceTheorems, TLAPS

Supports(q, term, n) == <<term, q, n>> \in ballots

VoteTypeOK ==
    /\ state \in [Nodes -> {"FOLLOWER", "CANDIDATE", "LEADER"}]
    /\ current_term \in [Nodes -> Nat]
    /\ voted_for \in [Nodes -> Nodes \cup {None}]
    /\ loop \in [Nodes -> Round]
    /\ ballots \subseteq Nat \X Nodes \X Nodes
    /\ elected \subseteq Nat \X Nodes

VotersSupport ==
    \A n \in Nodes : loop[n].pc = "electing" =>
        \A q \in loop[n].voters : Supports(q, current_term[n], n)

LeadersSupported ==
    \A e \in elected : \E Q \in SUBSET Nodes :
        /\ Majority(Cardinality(Q))
        /\ \A q \in Q : Supports(q, e[1], e[2])

BallotsHeld ==
    \A b \in ballots :
        \/ current_term[b[2]] > b[1]
        \/ current_term[b[2]] = b[1] /\ voted_for[b[2]] = b[3]

OneBallot ==
    \A b, c \in ballots : b[1] = c[1] /\ b[2] = c[2] => b[3] = c[3]

VoteInv ==
    /\ VoteTypeOK
    /\ VotersSupport
    /\ LeadersSupported
    /\ BallotsHeld
    /\ OneBallot

\* What a step does to terms and votes, to the votes collected, and to the
\* set of leaders.
VotesMove ==
    \A n \in Nodes :
        /\ current_term'[n] >= current_term[n]
        /\ current_term'[n] = current_term[n] /\ voted_for[n] # None
              => voted_for'[n] = voted_for[n]

VotersMove ==
    \A n \in Nodes : loop'[n].pc = "electing" =>
        \A q \in loop'[n].voters :
            \/ /\ loop[n].pc = "electing"
               /\ q \in loop[n].voters
               /\ current_term'[n] = current_term[n]
            \/ <<current_term'[n], q, n>> \in ballots'

ElectedMove ==
    \A e \in elected' : e \in elected \/ \E n \in Nodes :
        /\ e = <<current_term[n], n>>
        /\ loop[n].pc = "electing"
        /\ Majority(Cardinality(loop[n].voters))

\* A new ballot is the voter's first in its term, or repeats its vote.
BallotsMove ==
    /\ ballots \subseteq ballots'
    /\ \A b \in ballots' : b \in ballots \/
          /\ current_term'[b[2]] = b[1]
          /\ voted_for'[b[2]] = b[3]
          /\ current_term[b[2]] < b[1] \/ voted_for[b[2]] \in {None, b[3]}

VoteStep ==
    /\ VoteTypeOK'
    /\ VotesMove
    /\ VotersMove
    /\ ElectedMove
    /\ BallotsMove

-----------------------------------------------------------------------------
\* Two majorities of the nodes share a node.
LEMMA MajoritiesMeet ==
    ASSUME NEW Q \in SUBSET Nodes, NEW R \in SUBSET Nodes,
           Majority(Cardinality(Q)), Majority(Cardinality(R))
    PROVE  Q \cap R # {}
<1>1. IsFiniteSet(Nodes) /\ Cardinality(Nodes) = N
  BY RaftAssumption, FS_Interval DEF Nodes
<1>2. Cardinality(Q) \in Nat /\ Cardinality(R) \in Nat
  BY <1>1, FS_Subset, FS_CardinalityType
<1>3. Cardinality(Q) + Cardinality(R) > N
  BY <1>2, RaftAssumption DEF Majority
<1>4. QED
  BY <1>1, <1>3, FS_MajoritiesIntersect

\* The loop's next position is one that Round allows.
LEMMA NextPeerType ==
    ASSUME NEW n \in Nodes, NEW p \in Nodes \cup {0}
    PROVE  NextPeer(n, p) \in 0 .. (N + 2)
BY RaftAssumption DEF NextPeer, Nodes

\* A round that is replaced at n by a well-typed one leaves loop well typed.
LEMMA LoopType ==
    ASSUME VoteTypeOK, NEW n \in Nodes, NEW r \in Round
    PROVE  [loop EXCEPT ![n] = r] \in [Nodes -> Round]
BY DEF VoteTypeOK

\* start_election: a new term, in which only the node's own vote is given.
LEMMA StartStep ==
    ASSUME VoteInv, NEW n \in Nodes, start_election(n)
    PROVE  VoteStep
<1> DEFINE r == [pc |-> "electing", peer |-> NextPeer(n, 0), voters |-> {n}]
<1>1. r \in Round
  BY NextPeerType DEF Round
<1>2. /\ state' = [state EXCEPT ![n] = "CANDIDATE"]
      /\ current_term' = [current_term EXCEPT ![n] = current_term[n] + 1]
      /\ voted_for' = [voted_for EXCEPT ![n] = n]
      /\ loop' = [loop EXCEPT ![n] = r]
      /\ ballots' = ballots \cup {<<current_term[n] + 1, n, n>>}
      /\ elected' = elected
  BY DEF start_election
<1> HIDE DEF r
<1>3. VoteTypeOK'
  BY <1>1, <1>2, LoopType DEF VoteInv, VoteTypeOK
<1>4. VotesMove
  BY <1>2 DEF VotesMove, VoteInv, VoteTypeOK, None, Nodes
<1>5. VotersMove
  <2> SUFFICES ASSUME NEW m \in Nodes, loop'[m].pc = "electing",
                      NEW q \in loop'[m].voters
               PROVE  \/ /\ loop[m].pc = "electing"
                         /\ q \in loop[m].voters
                         /\ current_term'[m] = current_term[m]
                      \/ <<current_term'[m], q, m>> \in ballots'
    BY DEF VotersMove
  <2>1. CASE m = n
    BY <2>1, <1>2 DEF r, VoteInv, VoteTypeOK
  <2>2. CASE m # n
    BY <2>2, <1>2 DEF VoteInv, VoteTypeOK
  <2>3. QED
    BY <2>1, <2>2
<1>6. ElectedMove
  BY <1>2 DEF ElectedMove
<1>7. BallotsMove
  BY <1>2 DEF BallotsMove, VoteInv, VoteTypeOK
<1>8. QED
  BY <1>3, <1>4, <1>5, <1>6, <1>7 DEF VoteStep

\* A call by n found its peer's lock free, so the peer is another node.
LEMMA CallsOther ==
    ASSUME VoteInv, NEW n \in Nodes, NEW pc \in {"electing", "beating"},
           Calls(n, pc)
    PROVE  loop[n].peer \in Nodes /\ loop[n].peer # n /\ loop[loop[n].peer].pc = "idle"
BY DEF Calls, Free

\* request_vote: the peer joins the term, and its vote goes to n or to nobody
\* unless it had been given in this term.
LEMMA RequestVoteStep ==
    ASSUME VoteInv, NEW n \in Nodes, RequestVote(n)
    PROVE  VoteStep
<1> DEFINE p == loop[n].peer
           r == [pc |-> "electing", peer |-> NextPeer(n, p),
                 voters |-> IF grants(p, n) THEN loop[n].voters \cup {p}
                                            ELSE loop[n].voters]
<1>1. p \in Nodes /\ p # n /\ loop[n].pc = "electing"
  BY CallsOther DEF RequestVote, Calls
<1>2. loop[n] \in Round
  BY DEF VoteInv, VoteTypeOK
<1>3. r \in Round
  BY <1>1, <1>2, NextPeerType DEF Round
<1>4. /\ current_term[n] >= current_term[p]
      /\ current_term' = [current_term EXCEPT ![p] = current_term[n]]
      /\ state' = IF current_term[n] > current_term[p]
                  THEN [state EXCEPT ![p] = "FOLLOWER"] ELSE state
      /\ voted_for' = IF grants(p, n)
                      THEN [voted_for EXCEPT ![p] = n]
                      ELSE IF current_term[n] > current_term[p]
                           THEN [voted_for EXCEPT ![p] = None] ELSE voted_for
      /\ loop' = [loop EXCEPT ![n] = r]
      /\ ballots' = IF grants(p, n) THEN ballots \cup {<<current_term[n], p, n>>}
                                    ELSE ballots
      /\ elected' = elected
  BY DEF RequestVote, Adopts
<1>5. grants(p, n) => current_term[n] > current_term[p] \/ voted_for[p] \in {None, n}
  BY DEF grants
<1>v. r.voters = (IF grants(p, n) THEN loop[n].voters \cup {p} ELSE loop[n].voters)
  OBVIOUS
<1> HIDE DEF p, r
<1>6. VoteTypeOK'
  <2>1. /\ state' \in [Nodes -> {"FOLLOWER", "CANDIDATE", "LEADER"}]
        /\ current_term' \in [Nodes -> Nat]
        /\ ballots' \subseteq Nat \X Nodes \X Nodes
        /\ elected' \subseteq Nat \X Nodes
    BY <1>1, <1>4 DEF VoteInv, VoteTypeOK
  <2>2. voted_for' \in [Nodes -> Nodes \cup {None}]
    BY <1>1, <1>4 DEF VoteInv, VoteTypeOK
  <2>3. loop' \in [Nodes -> Round]
    BY <1>3, <1>4, LoopType DEF VoteInv
  <2>4. QED
    BY <2>1, <2>2, <2>3 DEF VoteTypeOK
<1>7. VotesMove
  BY <1>1, <1>4, <1>5 DEF VotesMove, VoteInv, VoteTypeOK
<1>8. VotersMove
  <2> SUFFICES ASSUME NEW m \in Nodes, loop'[m].pc = "electing",
                      NEW q \in loop'[m].voters
               PROVE  \/ /\ loop[m].pc = "electing"
                         /\ q \in loop[m].voters
                         /\ current_term'[m] = current_term[m]
                      \/ <<current_term'[m], q, m>> \in ballots'
    BY DEF VotersMove
  <2>1. CASE m = n
    <3>1. q \in r.voters
      BY <2>1, <1>4 DEF VoteInv, VoteTypeOK
    <3>2. current_term'[n] = current_term[n]
      BY <1>1, <1>4 DEF VoteInv, VoteTypeOK
    <3>3. CASE q \in loop[n].voters
      BY <2>1, <3>2, <3>3, <1>1
    <3>4. CASE q = p /\ grants(p, n)
      BY <3>4, <3>2, <2>1, <1>1, <1>4 DEF VoteInv, VoteTypeOK
    <3>5. QED
      BY <3>1, <3>3, <3>4, <1>v
  <2>2. CASE m # n
    <3>1. loop'[m] = loop[m]
      BY <2>2, <1>4 DEF VoteInv, VoteTypeOK
    <3>2. loop[p].pc = "idle"
      BY CallsOther DEF p, RequestVote
    <3>3. m # p
      BY <3>1, <3>2
    <3>4. QED
      BY <3>1, <3>3, <1>1, <1>4 DEF VoteInv, VoteTypeOK
  <2>3. QED
    BY <2>1, <2>2
<1>9. ElectedMove
  BY <1>4 DEF ElectedMove
<1>10. BallotsMove
  BY <1>1, <1>4, <1>5 DEF BallotsMove, VoteInv, VoteTypeOK
<1>11. QED
  BY <1>6, <1>7, <1>8, <1>9, <1>10 DEF VoteStep

\* A higher term in a reply: n moves on to it without a vote.
LEMMA StaleStep ==
    ASSUME VoteInv, NEW n \in Nodes, NEW p \in Nodes,
           current_term[p] > current_term[n], StepDown(n, current_term[p]),
           UNCHANGED <<ballots, elected>>
    PROVE  VoteStep
<1>1. Idle \in Round
  BY RaftAssumption DEF Idle, Round
<1>2. Idle.pc = "idle"
  BY DEF Idle
<1>3. /\ state' = [state EXCEPT ![n] = "FOLLOWER"]
      /\ current_term' = [current_term EXCEPT ![n] = current_term[p]]
      /\ voted_for' = [voted_for EXCEPT ![n] = None]
      /\ loop' = [loop EXCEPT ![n] = Idle]
  BY DEF StepDown
<1>4. VoteTypeOK'
  BY <1>1, <1>3, LoopType DEF VoteInv, VoteTypeOK
<1>5. VotesMove
  BY <1>3 DEF VotesMove, VoteInv, VoteTypeOK
<1>6. VotersMove
  <2>1. \A m \in Nodes : m # n => loop'[m] = loop[m] /\ current_term'[m] = current_term[m]
    BY <1>3 DEF VoteInv, VoteTypeOK
  <2>2. loop'[n].pc = "idle"
    BY <1>2, <1>3 DEF VoteInv, VoteTypeOK
  <2>3. QED
    BY <2>1, <2>2 DEF VotersMove
<1>7. ElectedMove /\ BallotsMove
  BY DEF ElectedMove, BallotsMove
<1>8. QED
  BY <1>4, <1>5, <1>6, <1>7 DEF VoteStep

\* A step that leaves terms and votes alone and takes the loop of n, if it
\* moves, out of any election.
LEMMA QuietStep ==
    ASSUME VoteInv, NEW n \in Nodes, NEW r \in Round, r.pc # "electing",
           loop' = [loop EXCEPT ![n] = r],
           state' \in [Nodes -> {"FOLLOWER", "CANDIDATE", "LEADER"}],
           UNCHANGED <<current_term, voted_for, ballots>>,
           elected' \subseteq Nat \X Nodes, ElectedMove
    PROVE  VoteStep
<1>1. VoteTypeOK'
  BY LoopType DEF VoteInv, VoteTypeOK
<1>2. VotesMove
  BY DEF VotesMove, VoteInv, VoteTypeOK
<1>3. VotersMove
  <2>1. \A m \in Nodes : m # n => loop'[m] = loop[m]
    BY DEF VoteInv, VoteTypeOK
  <2>2. loop'[n].pc # "electing"
    BY DEF VoteInv, VoteTypeOK
  <2>3. QED
    BY <2>1, <2>2 DEF VotersMove
<1>4. BallotsMove
  BY DEF BallotsMove
<1>5. QED
  BY <1>1, <1>2, <1>3, <1>4 DEF VoteStep

\* append_entries of the peer: it joins the term, without a vote in it.
LEMMA AppendStep ==
    ASSUME VoteInv, NEW n \in Nodes, AppendEntries(n)
    PROVE  VoteStep
<1> DEFINE p == loop[n].peer
           r == [pc |-> "beating", peer |-> NextPeer(n, p), voters |-> {}]
<1>1. p \in Nodes /\ p # n /\ loop[p].pc = "idle"
  BY CallsOther DEF AppendEntries
<1>2. r \in Round /\ r.pc = "beating"
  BY <1>1, NextPeerType DEF Round
<1>3. /\ current_term[n] >= current_term[p]
      /\ current_term' = [current_term EXCEPT ![p] = current_term[n]]
      /\ state' = IF current_term[n] > current_term[p]
                  THEN [state EXCEPT ![p] = "FOLLOWER"] ELSE state
      /\ voted_for' = IF current_term[n] > current_term[p]
                      THEN [voted_for EXCEPT ![p] = None] ELSE voted_for
      /\ loop' = [loop EXCEPT ![n] = r]
      /\ UNCHANGED <<ballots, elected>>
  BY DEF AppendEntries, Adopts, history
<1> HIDE DEF p, r
<1>4. VoteTypeOK'
  <2>1. loop' \in [Nodes -> Round]
    BY <1>2, <1>3, LoopType DEF VoteInv
  <2>2. QED
    BY <2>1, <1>1, <1>3 DEF VoteInv, VoteTypeOK
<1>5. VotesMove
  BY <1>1, <1>3 DEF VotesMove, VoteInv, VoteTypeOK
<1>6. VotersMove
  <2>1. \A m \in Nodes : m # n => loop'[m] = loop[m]
    BY <1>3 DEF VoteInv, VoteTypeOK
  <2>2. \A m \in Nodes : m # p => current_term'[m] = current_term[m]
    BY <1>1, <1>3 DEF VoteInv, VoteTypeOK
  <2>3. loop'[n].pc = "beating"
    BY <1>2, <1>3 DEF VoteInv, VoteTypeOK
  <2>4. QED
    BY <1>1, <2>1, <2>2, <2>3 DEF VotersMove
<1>7. ElectedMove /\ BallotsMove
  BY <1>3 DEF ElectedMove, BallotsMove
<1>8. QED
  BY <1>4, <1>5, <1>6, <1>7 DEF VoteStep

\* become_leader: the majority of votes collected makes n a leader.
LEMMA LeaderStep ==
    ASSUME VoteInv, NEW n \in Nodes, become_leader(n)
    PROVE  VoteStep
<1> DEFINE r == [pc |-> "beating", peer |-> NextPeer(n, 0), voters |-> {}]
<1>1. r \in Round /\ r.pc # "electing"
  BY NextPeerType DEF Round
<1>2. /\ loop[n].pc = "electing"
      /\ Majority(Cardinality(loop[n].voters))
      /\ state' = [state EXCEPT ![n] = "LEADER"]
      /\ loop' = [loop EXCEPT ![n] = r]
      /\ elected' = elected \cup {<<current_term[n], n>>}
      /\ UNCHANGED <<current_term, voted_for, ballots>>
  BY DEF become_leader, Called
<1> HIDE DEF r
<1>3. state' \in [Nodes -> {"FOLLOWER", "CANDIDATE", "LEADER"}]
  BY <1>2 DEF VoteInv, VoteTypeOK
<1>4. elected' \subseteq Nat \X Nodes
  BY <1>2 DEF VoteInv, VoteTypeOK
<1>5. ElectedMove
  BY <1>2 DEF ElectedMove
<1>6. QED
  BY <1>1, <1>2, <1>3, <1>4, <1>5, QuietStep

\* A step that changes no term, vote, round or leader.
LEMMA NoStep ==
    ASSUME VoteInv, UNCHANGED <<state, current_term, voted_for, loop, ballots, elected>>
    PROVE  VoteStep
<1>1. VoteTypeOK' /\ VotesMove /\ ElectedMove /\ BallotsMove
  BY DEF VoteInv, VoteTypeOK, VotesMove, ElectedMove, BallotsMove
<1>2. VotersMove
  BY DEF VotersMove
<1>3. QED
  BY <1>1, <1>2 DEF VoteStep

\* Every step is one of these.
LEMMA EveryVoteStep ==
    ASSUME VoteInv, [Next]_vars
    PROVE  VoteStep
<1>1. Idle \in Round /\ Idle.pc # "electing"
  BY RaftAssumption DEF Idle, Round
<1>t. state \in [Nodes -> {"FOLLOWER", "CANDIDATE", "LEADER"}] /\ elected \subseteq Nat \X Nodes
  BY DEF VoteInv, VoteTypeOK
<1>2. ASSUME NEW n \in Nodes, start_election(n) PROVE VoteStep
  BY <1>2, StartStep
<1>3. ASSUME NEW n \in Nodes, StartHeartbeats(n) PROVE VoteStep
  <2> DEFINE r == [pc |-> "beating", peer |-> NextPeer(n, 0), voters |-> {}]
  <2>1. r \in Round /\ r.pc # "electing"
    BY NextPeerType DEF Round
  <2>2. /\ loop' = [loop EXCEPT ![n] = r]
        /\ UNCHANGED <<state, current_term, voted_for, ballots, elected>>
    BY <1>3 DEF StartHeartbeats, raftVars, history
  <2> HIDE DEF r
  <2>3. ElectedMove
    BY <2>2 DEF ElectedMove
  <2>4. QED
    BY <2>1, <2>2, <2>3, <1>t, QuietStep
<1>4. ASSUME NEW n \in Nodes, RequestVote(n) PROVE VoteStep
  BY <1>4, RequestVoteStep
<1>5. ASSUME NEW n \in Nodes, RequestVoteStale(n) PROVE VoteStep
  BY <1>5, CallsOther, StaleStep DEF RequestVoteStale, history
<1>6. ASSUME NEW n \in Nodes, become_leader(n) PROVE VoteStep
  BY <1>6, LeaderStep
<1>7. ASSUME NEW n \in Nodes, LoseElection(n) PROVE VoteStep
  <2>1. /\ loop' = [loop EXCEPT ![n] = Idle]
        /\ UNCHANGED <<state, current_term, voted_for, ballots, elected>>
    BY <1>7 DEF LoseElection, raftVars, history
  <2>2. ElectedMove
    BY <2>1 DEF ElectedMove
  <2>3. QED
    BY <1>1, <1>t, <2>1, <2>2, QuietStep
<1>8. ASSUME NEW n \in Nodes, AppendEntries(n) PROVE VoteStep
  BY <1>8, AppendStep
<1>9. ASSUME NEW n \in Nodes, AppendEntriesStale(n) PROVE VoteStep
  BY <1>9, CallsOther, StaleStep DEF AppendEntriesStale, history
<1>10. ASSUME NEW n \in Nodes, update_commit_index(n) PROVE VoteStep
  <2>1. /\ loop' = [loop EXCEPT ![n] = Idle]
        /\ UNCHANGED <<state, current_term, voted_for, ballots, elected>>
    BY <1>10 DEF update_commit_index, raftVars, history
  <2>2. ElectedMove
    BY <2>1 DEF ElectedMove
  <2>3. QED
    BY <1>1, <1>t, <2>1, <2>2, QuietStep
<1>11. ASSUME NEW n \in Nodes, NEW c \in Commands,
              ReplicateCheck(n, c) \/ ReplicateAppend(n, c)
       PROVE  VoteStep
  <2>1. UNCHANGED <<state, current_term, voted_for, loop, ballots, elected>>
    BY <1>11 DEF ReplicateCheck, ReplicateAppend, raftVars, history
  <2>2. QED
    BY <2>1, NoStep
<1>12. CASE UNCHANGED vars
  BY <1>12, NoStep DEF vars, raftVars, history
<1>13. QED
  BY <1>2, <1>3, <1>4, <1>5, <1>6, <1>7, <1>8, <1>9, <1>10, <1>11, <1>12
     DEF Next, RoundStep

-----------------------------------------------------------------------------
\* The invariant holds in every initial state.
LEMMA VoteInit == Init => VoteInv
<1> SUFFICES ASSUME Init PROVE VoteInv
  OBVIOUS
<1>1. Idle \in Round /\ Idle.pc = "idle"
  BY RaftAssumption DEF Idle, Round
<1>2. QED
  BY <1>1 DEF Init, VoteInv, VoteTypeOK, VotersSupport, LeadersSupported,
     BallotsHeld, OneBallot

\* Every step keeps the invariant.
LEMMA VoteNext == VoteInv /\ [Next]_vars => VoteInv'
<1> SUFFICES ASSUME VoteInv, [Next]_vars PROVE VoteInv'
  OBVIOUS
<1>1. VoteStep
  BY EveryVoteStep
<1>2. VoteTypeOK /\ VoteTypeOK'
  BY <1>1 DEF VoteInv, VoteStep
<1>3. \A q, n \in Nodes, t \in Nat : Supports(q, t, n) => Supports(q, t, n)'
  BY <1>1 DEF VoteStep, BallotsMove, Supports
<1>4. VotersSupport'
  <2> SUFFICES ASSUME NEW n \in Nodes, loop'[n].pc = "electing",
                      NEW q \in loop'[n].voters
               PROVE  Supports(q, current_term[n], n)'
    BY DEF VotersSupport
  <2>1. q \in Nodes /\ current_term[n] \in Nat
    BY <1>2 DEF VoteTypeOK, Round
  <2>2. CASE /\ loop[n].pc = "electing"
             /\ q \in loop[n].voters
             /\ current_term'[n] = current_term[n]
    <3>1. Supports(q, current_term[n], n)
      BY <2>2 DEF VoteInv, VotersSupport
    <3>2. QED
      BY <1>3, <2>1, <2>2, <3>1 DEF Supports
  <2>3. CASE <<current_term'[n], q, n>> \in ballots'
    BY <2>3 DEF Supports
  <2>4. QED
    BY <1>1, <2>2, <2>3 DEF VoteStep, VotersMove
<1>5. LeadersSupported'
  <2> SUFFICES ASSUME NEW e \in elected'
               PROVE  \E Q \in SUBSET Nodes :
                        /\ Majority(Cardinality(Q))
                        /\ \A q \in Q : Supports(q, e[1], e[2])'
    BY DEF LeadersSupported
  <2>0. e[1] \in Nat /\ e[2] \in Nodes
    BY <1>2 DEF VoteTypeOK
  <2>1. \E Q \in SUBSET Nodes :
          /\ Majority(Cardinality(Q))
          /\ \A q \in Q : Supports(q, e[1], e[2])
    <3>1. CASE e \in elected
      BY <3>1 DEF VoteInv, LeadersSupported
    <3>2. CASE \E n \in Nodes : /\ e = <<current_term[n], n>>
                                /\ loop[n].pc = "electing"
                                /\ Majority(Cardinality(loop[n].voters))
      <4> PICK n \in Nodes : /\ e = <<current_term[n], n>>
                             /\ loop[n].pc = "electing"
                             /\ Majority(Cardinality(loop[n].voters))
        BY <3>2
      <4>1. loop[n].voters \in SUBSET Nodes
        BY <1>2 DEF VoteTypeOK, Round
      <4>2. \A q \in loop[n].voters : Supports(q, e[1], e[2])
        BY DEF VoteInv, VotersSupport
      <4>3. QED
        BY <4>1, <4>2
    <3>3. QED
      BY <3>1, <3>2, <1>1 DEF VoteStep, ElectedMove
  <2>2. PICK Q \in SUBSET Nodes : /\ Majority(Cardinality(Q))
                                  /\ \A q \in Q : Supports(q, e[1], e[2])
    BY <2>1
  <2>3. \A q \in Q : Supports(q, e[1], e[2])'
    BY <1>3, <2>0, <2>2
  <2>4. QED
    BY <2>2, <2>3
<1>6. BallotsHeld'
  <2> SUFFICES ASSUME NEW b \in ballots'
               PROVE  \/ current_term'[b[2]] > b[1]
                      \/ current_term'[b[2]] = b[1] /\ voted_for'[b[2]] = b[3]
    BY DEF BallotsHeld
  <2>1. CASE b \in ballots
    <3>1. /\ b[1] \in Nat /\ b[2] \in Nodes /\ b[3] # None
          /\ current_term[b[2]] \in Nat /\ current_term'[b[2]] \in Nat
      BY <1>2, <2>1 DEF VoteTypeOK, Nodes, None
    <3>2. \/ current_term[b[2]] > b[1]
          \/ current_term[b[2]] = b[1] /\ voted_for[b[2]] = b[3]
      BY <2>1 DEF VoteInv, BallotsHeld
    <3>3. /\ current_term'[b[2]] >= current_term[b[2]]
          /\ current_term'[b[2]] = current_term[b[2]] /\ voted_for[b[2]] # None
                => voted_for'[b[2]] = voted_for[b[2]]
      BY <1>1, <3>1 DEF VoteStep, VotesMove
    <3>4. QED
      BY <3>1, <3>2, <3>3
  <2>2. CASE b \notin ballots
    BY <1>1, <2>2 DEF VoteStep, BallotsMove
  <2>3. QED
    BY <2>1, <2>2
<1>7. OneBallot'
  <2>1. \A b \in ballots' : b[2] \in Nodes /\ b[1] \in Nat /\ b[3] \in Nodes
    BY <1>2 DEF VoteTypeOK
  <2>2. ASSUME NEW b \in ballots, NEW c \in ballots', c \notin ballots,
               b[1] = c[1], b[2] = c[2]
        PROVE  b[3] = c[3]
    <3>1. b[3] # None /\ current_term[b[2]] \in Nat /\ b[1] \in Nat
      BY <1>2, <2>1 DEF VoteTypeOK, Nodes, None
    <3>2. \/ current_term[b[2]] > b[1]
          \/ current_term[b[2]] = b[1] /\ voted_for[b[2]] = b[3]
      BY DEF VoteInv, BallotsHeld
    <3>3. /\ current_term'[c[2]] = c[1]
          /\ current_term[c[2]] < c[1] \/ voted_for[c[2]] \in {None, c[3]}
      BY <1>1, <2>2 DEF VoteStep, BallotsMove
    <3>4. current_term'[c[2]] >= current_term[c[2]]
      BY <1>1, <2>1 DEF VoteStep, VotesMove
    <3>5. QED
      BY <2>2, <3>1, <3>2, <3>3, <3>4
  <2>3. ASSUME NEW b \in ballots', NEW c \in ballots', b[1] = c[1], b[2] = c[2],
               b \notin ballots, c \notin ballots
        PROVE  b[3] = c[3]
    BY <1>1, <2>3 DEF VoteStep, BallotsMove
  <2>4. ASSUME NEW b \in ballots, NEW c \in ballots, b[1] = c[1], b[2] = c[2]
        PROVE  b[3] = c[3]
    BY <2>4 DEF VoteInv, OneBallot
  <2>5. QED
    BY <2>2, <2>3, <2>4 DEF OneBallot
<1>8. QED
  BY <1>2, <1>4, <1>5, <1>6, <1>7 DEF VoteInv

\* Two leaders of one term would share a voter that voted for both.
LEMMA OneLeader == VoteInv => ElectionSafety
<1> SUFFICES ASSUME VoteInv, NEW e \in elected, NEW f \in elected, e[1] = f[1]
             PROVE  e[2] = f[2]
  BY DEF ElectionSafety
<1>1. PICK Q \in SUBSET Nodes : /\ Majority(Cardinality(Q))
                                /\ \A q \in Q : Supports(q, e[1], e[2])
  BY DEF VoteInv, LeadersSupported
<1>2. PICK R \in SUBSET Nodes : /\ Majority(Cardinality(R))
                                /\ \A q \in R : Supports(q, f[1], f[2])
  BY DEF VoteInv, LeadersSupported
<1>3. PICK q \in Q : q \in R
  BY <1>1, <1>2, MajoritiesMeet
<1>4. <<e[1], q, e[2]>> \in ballots /\ <<e[1], q, f[2]>> \in ballots
  BY <1>1, <1>2, <1>3 DEF Supports
<1>5. QED
  BY <1>4 DEF VoteInv, OneBallot

-----------------------------------------------------------------------------
\* The voting invariant holds throughout: the votes a candidate counts were
\* given to it, no node votes twice in a term, and every leader that
\* _become_leader made had a majority's votes of its term.
THEOREM VoteInvariance == Spec => []VoteInv
BY VoteInit, VoteNext, PTL DEF Spec

\* No term has two leaders, whatever the number of nodes: request_vote and
\* the majority test of _start_election see to it.
THEOREM OneLeaderPerTerm == Spec => []ElectionSafety
BY VoteInvariance, OneLeader, PTL

\* Terms never go back and a vote is never changed within its term, in any
\* of the handlers and replies that assign them.
THEOREM VotesAreKept == Spec => VotesStay
<1>1. VoteInv /\ [Next]_vars => [VotesMove]_vars
  BY EveryVoteStep DEF VoteStep
<1>2. QED
  BY <1>1, VoteInvariance, PTL DEF Spec, VotesStay, VotesMove

-----------------------------------------------------------------------------
(* Logs and what is applied.                                               *)

\* A set of naturals that has a member has a least one.
LEMMA LeastExists ==
    ASSUME NEW S, S \subseteq Nat, S # {}
    PROVE  \E i \in S : \A k \in S : i <= k
<1>1. \E R : IsWellFoundedOn(R, Nat) /\ \A i, k \in Nat : k < i => <<k, i>> \in R
  <2>1. \A i, k \in Nat : k < i => <<k, i>> \in OpToRel(<, Nat)
    BY DEF OpToRel
  <2>2. QED
    BY <2>1, NatLessThanWellFounded, Zenon
<1>2. PICK R : IsWellFoundedOn(R, Nat) /\ \A i, k \in Nat : k < i => <<k, i>> \in R
  BY <1>1
<1>3. PICK i \in S : \A k \in S : ~ (<<k, i>> \in R)
  BY <1>2, WFMin
<1>4. \A k \in S : i \in Nat /\ k \in Nat /\ ~ (k < i)
  BY <1>2, <1>3
<1>5. QED
  BY <1>4

\* A bounded one has a greatest one.
LEMMA GreatestExists ==
    ASSUME NEW S, NEW b \in Nat, S \subseteq 0 .. b, S # {}
    PROVE  \E i \in S : \A k \in S : i >= k
<1> DEFINE T == {b - i : i \in S}
<1>1. T \subseteq Nat /\ T # {}
  <2>1. \A i \in S : i \in Int /\ 0 <= i /\ i <= b
    OBVIOUS
  <2>2. \A i \in S : b - i \in Nat
    BY <2>1
  <2>3. QED
    BY <2>2
<1>2. PICK j \in T : \A k \in T : j <= k
  BY <1>1, LeastExists
<1>3. PICK i \in S : j = b - i
  BY <1>2
<1>4. \A k \in S : b - i <= b - k
  BY <1>2, <1>3
<1>5. \A k \in S : i >= k
  BY <1>4
<1>6. QED
  BY <1>5

\* What the new entries make of a log: from a position prev on which the two
\* logs agree, it ends up with all of s, or it had all of s.
LEMMA AppendedIs ==
    ASSUME NEW l \in Seq(Entry), NEW s \in Seq(Entry), NEW prev \in Nat,
           prev <= Len(l), prev <= Len(s),
           prev = 0 \/ l[prev].term = s[prev].term,
           \A k \in 1 .. Len(l) : k <= Len(s) /\ l[k].term = s[k].term
              => \A h \in 1 .. k : l[h] = s[h]
    PROVE  LET r == Appended(l, prev, SubSeq(s, prev + 1, Len(s))) IN
           /\ r \in Seq(Entry)
           /\ Len(r) >= Len(s)
           /\ \A k \in 1 .. Len(s) : r[k] = s[k]
           /\ Len(r) = Len(s) \/ r = l
<1> DEFINE e == SubSeq(s, prev + 1, Len(s))
           new == {i \in 1 .. Len(e) : prev + i > Len(l) \/ l[prev + i].term # e[i].term}
<1>0. Len(s) \in Nat /\ Len(l) \in Nat
  BY LenProperties
<1>1. \A k \in (prev + 1) .. Len(s) : s[k] \in Entry
  OBVIOUS
<1>2. /\ e \in Seq(Entry) /\ Len(e) = Len(s) - prev
      /\ \A i \in 1 .. Len(e) : e[i] = s[prev + i]
  <2>1. /\ e \in Seq(Entry)
        /\ Len(e) = IF prev + 1 <= Len(s) THEN Len(s) - (prev + 1) + 1 ELSE 0
        /\ \A i \in 1 .. (Len(s) - (prev + 1) + 1) : e[i] = s[prev + 1 + i - 1]
    BY <1>0, <1>1, SubSeqProperties
  <2>2. Len(e) = Len(s) - prev
    BY <2>1, <1>0
  <2>3. ASSUME NEW i \in 1 .. Len(e) PROVE e[i] = s[prev + i]
    <3>1. i \in 1 .. (Len(s) - (prev + 1) + 1) /\ prev + 1 + i - 1 = prev + i
      BY <2>2, <1>0
    <3>2. QED
      BY <2>1, <3>1
  <2>4. QED
    BY <2>1, <2>2, <2>3
<1> HIDE DEF e
<1>n. \A i \in 1 .. Len(e) : i \in new <=> (prev + i > Len(l) \/ l[prev + i].term # s[prev + i].term)
  BY <1>2
<1>m. new \subseteq 1 .. Len(e)
  OBVIOUS
<1>3. CASE new = {}
  <2>1. Appended(l, prev, e) = l
    BY <1>3 DEF Appended
  <2>2. \A i \in 1 .. Len(e) : prev + i <= Len(l) /\ l[prev + i].term = s[prev + i].term
    BY <1>0, <1>2, <1>3, <1>n
  <2>3. Len(s) <= Len(l) /\ (Len(s) = 0 \/ l[Len(s)].term = s[Len(s)].term)
    <3>1. CASE Len(s) = prev
      BY <3>1
    <3>2. CASE Len(s) # prev
      <4>1. Len(s) - prev \in 1 .. Len(e) /\ prev + (Len(s) - prev) = Len(s)
        BY <3>2, <1>0, <1>2
      <4>2. QED
        BY <4>1, <2>2
    <3>3. QED
      BY <3>1, <3>2
  <2>4. \A k \in 1 .. Len(s) : l[k] = s[k]
    BY <2>3
  <2>5. QED
    BY <2>1, <2>3, <2>4 DEF e
<1>4. CASE new # {}
  <2> DEFINE i == CHOOSE i \in new : \A k \in new : i <= k
  <2>1. new \subseteq Nat
    BY <1>m, <1>0, <1>2
  <2>2. i \in new /\ \A k \in new : i <= k
    BY <1>4, <2>1, LeastExists
  <2>3. Appended(l, prev, e) = SubSeq(l, 1, prev + i - 1) \o SubSeq(e, i, Len(e))
    BY <1>4 DEF Appended
  <2> HIDE DEF i
  <2>4. i \in 1 .. Len(e)
    BY <2>2, <1>m
  <2>5. \A k \in 1 .. Len(e) : k < i => prev + k <= Len(l) /\ l[prev + k].term = s[prev + k].term
    BY <2>2, <2>4, <1>0, <1>2, <1>n
  <2>6. /\ prev + i - 1 \in Nat /\ prev + i - 1 <= Len(l) /\ prev + i - 1 < Len(s)
        /\ prev + i - 1 = 0 \/ l[prev + i - 1].term = s[prev + i - 1].term
    <3>1. CASE i = 1
      BY <3>1, <2>4, <1>0, <1>2
    <3>2. CASE i # 1
      <4>1. i - 1 \in 1 .. Len(e) /\ i - 1 < i
        BY <3>2, <2>4, <1>0, <1>2
      <4>2. prev + (i - 1) <= Len(l) /\ l[prev + (i - 1)].term = s[prev + (i - 1)].term
        BY <4>1, <2>5
      <4>3. prev + (i - 1) = prev + i - 1
        BY <2>4
      <4>4. prev + (i - 1) \in Nat /\ prev + (i - 1) < Len(s)
        BY <4>1, <2>4, <1>0, <1>2
      <4>5. QED
        BY <4>2, <4>3, <4>4
    <3>3. QED
      BY <3>1, <3>2
  <2> DEFINE d == prev + i - 1
  <2> HIDE DEF d
  <2>7. d \in Nat /\ d <= Len(l) /\ d < Len(s) /\ (d = 0 \/ l[d].term = s[d].term)
    BY <2>6 DEF d
  <2>8. \A k \in 1 .. d : l[k] = s[k]
    BY <2>7
  <2> DEFINE a == SubSeq(l, 1, d)
             b == SubSeq(e, i, Len(e))
  <2>9. a \in Seq(Entry) /\ Len(a) = d /\ \A k \in 1 .. d : a[k] = l[k]
    <3>1. \A k \in 1 .. d : l[k] \in Entry
      BY <2>7
    <3>2. QED
      BY <3>1, <2>7, SubSeqProperties
  <2>10. b \in Seq(Entry) /\ Len(b) = Len(s) - d
         /\ \A k \in 1 .. (Len(s) - d) : b[k] = s[d + k]
    <3>1. \A k \in i .. Len(e) : e[k] \in Entry
      BY <1>2, <2>4
    <3>2. /\ b \in Seq(Entry) /\ Len(b) = Len(e) - i + 1
          /\ \A k \in 1 .. (Len(e) - i + 1) : b[k] = e[i + k - 1]
      BY <3>1, <1>2, <2>4, SubSeqProperties
    <3>3. Len(e) - i + 1 = Len(s) - d
      BY <1>2, <2>4 DEF d
    <3>4. \A k \in 1 .. (Len(s) - d) : i + k - 1 \in 1 .. Len(e) /\ prev + (i + k - 1) = d + k
      BY <1>0, <1>2, <2>4, <2>7 DEF d
    <3>5. QED
      BY <3>2, <3>3, <3>4, <1>2
  <2> HIDE DEF a, b
  <2>11. /\ a \o b \in Seq(Entry) /\ Len(a \o b) = Len(s)
         /\ \A k \in 1 .. Len(s) : (a \o b)[k] = IF k <= d THEN a[k] ELSE b[k - d]
    <3>1. /\ a \o b \in Seq(Entry) /\ Len(a \o b) = Len(a) + Len(b)
          /\ \A k \in 1 .. Len(a) + Len(b) :
               (a \o b)[k] = IF k <= Len(a) THEN a[k] ELSE b[k - Len(a)]
      BY <2>9, <2>10, ConcatProperties, SMTT(30)
    <3>2. Len(a) = d /\ Len(a) + Len(b) = Len(s)
      BY <2>7, <2>9, <2>10, <1>0
    <3>3. QED
      BY <3>1, <3>2
  <2>12. \A k \in 1 .. Len(s) : (a \o b)[k] = s[k]
    <3> TAKE k \in 1 .. Len(s)
    <3>1. CASE k <= d
      <4>1. k \in 1 .. d
        BY <3>1, <2>7, <1>0
      <4>2. QED
        BY <3>1, <4>1, <2>8, <2>9, <2>11
    <3>2. CASE k > d
      <4>1. k - d \in 1 .. (Len(s) - d) /\ d + (k - d) = k
        BY <3>2, <2>7, <1>0
      <4>2. b[k - d] = s[k]
        BY <4>1, <2>10
      <4>3. ~ (k <= d)
        BY <3>2, <2>7, <1>0
      <4>4. QED
        BY <4>2, <4>3, <2>11
    <3>3. k <= d \/ k > d
      BY <2>7, <1>0
    <3>4. QED
      BY <3>1, <3>2, <3>3, Zenon
  <2>13. Appended(l, prev, e) = a \o b
    BY <2>3 DEF a, b, d
  <2> DEFINE r == Appended(l, prev, e)
  <2> HIDE DEF r
  <2>14. r \in Seq(Entry) /\ Len(r) = Len(s) /\ \A k \in 1 .. Len(s) : r[k] = s[k]
    BY <2>11, <2>12, <2>13, Zenon DEF r
  <2>15. Len(r) >= Len(s)
    BY <2>14, <1>0
  <2>16. QED
    BY <2>14, <2>15, Zenon DEF r, e
<1>5. QED
  BY <1>3, <1>4

\* Entries of l and s with equal terms end equal beginnings.
Match(l, s) ==
    \A k \in 1 .. Len(l) : k <= Len(s) /\ l[k].term = s[k].term
        => \A h \in 1 .. k : l[h] = s[h]

\* The log r is s, or it is l and has all of s.
Took(l, s, r) ==
    /\ r \in Seq(Entry)
    /\ Len(r) >= Len(s)
    /\ \A k \in 1 .. Len(s) : r[k] = s[k]
    /\ Len(r) = Len(s) \/ r = l

\* The same, of the log that results.
LEMMA AppendedTo ==
    ASSUME NEW l \in Seq(Entry), NEW s \in Seq(Entry), NEW prev \in Nat,
           prev <= Len(l), prev <= Len(s),
           prev = 0 \/ l[prev].term = s[prev].term,
           Match(l, s), NEW r, r = Appended(l, prev, SubSeq(s, prev + 1, Len(s)))
    PROVE  Took(l, s, r)
BY AppendedIs, Zenon DEF Match, Took

\* It is a log again whatever the two logs were.
LEMMA AppendedType ==
    ASSUME NEW l \in Seq(Entry), NEW e \in Seq(Entry), NEW prev \in Nat,
           prev <= Len(l)
    PROVE  Appended(l, prev, e) \in Seq(Entry)
<1> DEFINE new == {i \in 1 .. Len(e) : prev + i > Len(l) \/ l[prev + i].term # e[i].term}
<1>1. Len(l) \in Nat /\ Len(e) \in Nat
  BY LenProperties
<1>2. CASE new = {}
  BY <1>2 DEF Appended
<1>3. CASE new # {}
  <2> DEFINE i == CHOOSE i \in new : \A k \in new : i <= k
  <2>1. new \subseteq Nat
    BY <1>1
  <2>2. i \in new /\ \A k \in new : i <= k
    BY <1>3, <2>1, LeastExists
  <2>3. Appended(l, prev, e) = SubSeq(l, 1, prev + i - 1) \o SubSeq(e, i, Len(e))
    BY <1>3 DEF Appended
  <2> HIDE DEF i
  <2>4. i \in 1 .. Len(e)
    BY <2>2
  <2>5. prev + i - 1 \in Nat /\ prev + i - 1 <= Len(l)
    <3>1. CASE i = 1
      BY <3>1, <1>1
    <3>2. CASE i # 1
      <4>1. i - 1 \in 1 .. Len(e) /\ ~ (i <= i - 1)
        BY <3>2, <2>4, <1>1
      <4>2. ~ (prev + (i - 1) > Len(l))
        BY <4>1, <2>2
      <4>3. QED
        BY <4>1, <4>2, <1>1
    <3>3. QED
      BY <3>1, <3>2
  <2>6. \A k \in 1 .. (prev + i - 1) : l[k] \in Entry
    BY <2>5, <1>1
  <2>7. \A k \in i .. Len(e) : e[k] \in Entry
    BY <2>4, <1>1
  <2>8. SubSeq(l, 1, prev + i - 1) \in Seq(Entry)
    BY <2>5, <2>6, SubSeqProperties
  <2>9. SubSeq(e, i, Len(e)) \in Seq(Entry)
    BY <2>4, <2>7, <1>1, SubSeqProperties
  <2>10. QED
    BY <2>3, <2>8, <2>9, ConcatProperties
<1>4. QED
  BY <1>2, <1>3

-----------------------------------------------------------------------------
(* Types, and how rounds, leaders and indices fit together.                *)

\* The types of what VoteTypeOK leaves out.
LogTypeOK ==
    /\ log \in [Nodes -> Seq(Entry)]
    /\ commit_index \in [Nodes -> Nat]
    /\ applied \in [Nodes -> Seq(Commands)]
    /\ next_index \in [Nodes -> [Nodes -> Nat \ {0}]]
    /\ match_index \in [Nodes -> [Nodes -> Nat]]
    /\ calls \subseteq Nodes \X Commands
    /\ sent \subseteq Commands
    /\ misplaced \subseteq Commands

\* last_applied never lags behind commit_index.
AppliedFits == \A s \in Nodes : commit_index[s] <= Len(applied[s])

\* A round belongs to the state its node was in when it began.
RoundsFit ==
    \A n \in Nodes :
        /\ loop[n].pc = "electing" => state[n] = "CANDIDATE"
                                      /\ <<current_term[n], n>> \notin elected
        /\ loop[n].pc = "beating" => state[n] = "LEADER"

\* Who leads was elected in its current term, and no one is behind its election.
LeadersElected ==
    /\ \A n \in Nodes : state[n] = "LEADER" => <<current_term[n], n>> \in elected
    /\ \A e \in elected : e[1] <= current_term[e[2]]

\* A leader's indices stay within its log.
IndexFit ==
    \A n, p \in Nodes : state[n] = "LEADER" =>
        /\ next_index[n][p] <= Len(log[n]) + 1
        /\ match_index[n][p] <= Len(log[n])

\* What holds whatever replicate did.
BaseInv ==
    /\ VoteInv
    /\ LogTypeOK
    /\ AppliedFits
    /\ RoundsFit
    /\ LeadersElected
    /\ IndexFit

\* The larger of two numbers.
Larger(a, b) == IF a > b THEN a ELSE b

\* Commit keeps the types and hands the entries up to c that were not yet
\* applied to the state machine.
LEMMA CommitEffect ==
    ASSUME LogTypeOK, NEW n \in Nodes, NEW l \in Seq(Entry), NEW c \in Nat,
           c <= Len(l) \/ c <= Len(applied[n]),
           Commit(n, l, c)
    PROVE  /\ commit_index' \in [Nodes -> Nat] /\ applied' \in [Nodes -> Seq(Commands)]
           /\ commit_index'[n] = c /\ Len(applied'[n]) = Larger(c, Len(applied[n]))
           /\ \A i \in 1 .. Len(applied'[n]) :
                 applied'[n][i] = IF i <= Len(applied[n]) THEN applied[n][i] ELSE l[i].command
           /\ \A s \in Nodes : s # n => /\ commit_index'[s] = commit_index[s]
                                        /\ applied'[s] = applied[s]
<1> DEFINE a == applied[n]
           k == IF c > Len(a) THEN c - Len(a) ELSE 0
           b == [i \in 1 .. k |-> l[Len(a) + i].command]
<1>1. a \in Seq(Commands) /\ Len(a) \in Nat /\ Len(l) \in Nat
  BY LenProperties DEF LogTypeOK
<1>2. commit_index' = [commit_index EXCEPT ![n] = c] /\ applied' = [applied EXCEPT ![n] = a \o b]
  BY DEF Commit
<1>k. k = (IF c > Len(a) THEN c - Len(a) ELSE 0) /\ Len(a) \in Nat /\ Len(l) \in Nat
      /\ (c <= Len(l) \/ c <= Len(a))
  BY <1>1
<1> HIDE DEF a, k
<1>3. k \in Nat /\ Len(a) + k = Larger(c, Len(a)) /\ (k > 0 => Len(a) + k <= Len(l))
  <2>1. CASE c > Len(a)
    <3>1. k = c - Len(a) /\ c <= Len(l)
      BY <2>1, <1>1, <1>k
    <3>2. QED
      BY <2>1, <3>1, <1>1, <1>k DEF Larger
  <2>2. CASE ~ (c > Len(a))
    <3>1. k = 0
      BY <2>2, <1>k
    <3>2. QED
      BY <2>2, <3>1, <1>k DEF Larger
  <2>3. QED
    BY <2>1, <2>2
<1>4. \A i \in 1 .. k : l[Len(a) + i].command \in Commands
  <2> TAKE i \in 1 .. k
  <2>1. Len(a) + i \in 1 .. Len(l)
    BY <1>1, <1>3
  <2>2. l[Len(a) + i] \in Entry
    BY <2>1
  <2>3. QED
    BY <2>2 DEF Entry
<1> HIDE DEF a, k
<1>5. b \in Seq(Commands) /\ Len(b) = k
  BY <1>3, <1>4, IsASeq
<1>6. \A i \in 1 .. k : b[i] = l[Len(a) + i].command
  OBVIOUS
<1> HIDE DEF b
<1>7. /\ a \o b \in Seq(Commands) /\ Len(a \o b) = Len(a) + Len(b)
      /\ \A i \in 1 .. Len(a) + Len(b) : (a \o b)[i] = IF i <= Len(a) THEN a[i] ELSE b[i - Len(a)]
  BY <1>1, <1>5, ConcatProperties
<1> DEFINE w == Larger(c, Len(a))
<1>8. Len(a) + Len(b) = w /\ w \in Nat /\ w = Len(a) + k
  BY <1>1, <1>3, <1>5
<1> HIDE DEF w
<1>9. ASSUME NEW i \in 1 .. w
      PROVE  (a \o b)[i] = IF i <= Len(a) THEN a[i] ELSE l[i].command
  <2>1. CASE i <= Len(a)
    BY <2>1, <1>1, <1>7, <1>8
  <2>2. CASE ~ (i <= Len(a))
    <3>1. i - Len(a) \in 1 .. k /\ Len(a) + (i - Len(a)) = i
      BY <2>2, <1>1, <1>3, <1>8
    <3>2. b[i - Len(a)] = l[i].command
      BY <3>1, <1>6
    <3>3. (a \o b)[i] = b[i - Len(a)]
      BY <2>2, <1>1, <1>7, <1>8
    <3>4. QED
      BY <2>2, <3>2, <3>3, Zenon
  <2>3. QED
    BY <2>1, <2>2
<1> DEFINE r == a \o b
<1>10. r \in Seq(Commands) /\ Len(r) = Larger(c, Len(applied[n]))
       /\ \A i \in 1 .. Len(r) : r[i] = IF i <= Len(applied[n]) THEN applied[n][i] ELSE l[i].command
  BY <1>7, <1>8, <1>9, Zenon DEF a, w
<1>11. applied' = [applied EXCEPT ![n] = r]
  BY <1>2
<1> HIDE DEF r
<1>12. applied'[n] = r /\ commit_index'[n] = c
       /\ \A s \in Nodes : s # n => /\ commit_index'[s] = commit_index[s]
                                    /\ applied'[s] = applied[s]
  BY <1>2, <1>11 DEF LogTypeOK
<1>13. commit_index' \in [Nodes -> Nat] /\ applied' \in [Nodes -> Seq(Commands)]
  BY <1>2, <1>10, <1>11 DEF LogTypeOK
<1>14. QED
  BY <1>10, <1>12, <1>13, Zenon

-----------------------------------------------------------------------------
(* The kinds of step.                                                      *)

\* A leader led before, in the same term.
LeadersStay ==
    \A n \in Nodes : state'[n] = "LEADER" =>
        state[n] = "LEADER" /\ current_term'[n] = current_term[n]

\* A vote is counted by a candidate whose log is as up to date as the voter's.
VotersGrow ==
    \A m \in Nodes : loop'[m].pc = "electing" => \A v \in loop'[m].voters :
        \/ loop[m].pc = "electing" /\ v \in loop[m].voters
           /\ current_term'[m] = current_term[m]
        \/ v \in Nodes /\ UpToDate(m, v)

\* A step that leaves the logs and the leaders' indices alone.
Quiet ==
    /\ UNCHANGED <<log, next_index, match_index, elected, misplaced>>
    /\ LeadersStay
    /\ VotersGrow

Fits == RoundsFit' /\ LeadersElected'

\* A node's log is as up to date as itself.
LEMMA UpToDateSelf ==
    ASSUME BaseInv, NEW n \in Nodes PROVE UpToDate(n, n)
<1>1. log[n] \in Seq(Entry) /\ Len(log[n]) \in Nat
  BY LenProperties DEF BaseInv, LogTypeOK
<1>2. QED
  BY <1>1 DEF UpToDate

\* start_election: a fresh term, in which nobody has been elected.
LEMMA StartFits ==
    ASSUME BaseInv, NEW n \in Nodes, start_election(n)
    PROVE  Fits /\ Quiet
<1> USE DEF BaseInv, VoteInv, VoteTypeOK
<1> DEFINE r == [pc |-> "electing", peer |-> NextPeer(n, 0), voters |-> {n}]
<1>1. /\ state' = [state EXCEPT ![n] = "CANDIDATE"]
      /\ current_term' = [current_term EXCEPT ![n] = current_term[n] + 1]
      /\ loop' = [loop EXCEPT ![n] = r]
      /\ UNCHANGED <<log, next_index, match_index, elected, misplaced>>
  BY DEF start_election, logVars, leaderVars, clientVars
<1>2. r.pc = "electing" /\ r.voters = {n}
  OBVIOUS
<1> HIDE DEF r
<1>3. state'[n] = "CANDIDATE" /\ current_term'[n] = current_term[n] + 1 /\ loop'[n] = r
  BY <1>1
<1>4. \A m \in Nodes : m # n => /\ state'[m] = state[m] /\ loop'[m] = loop[m]
                                /\ current_term'[m] = current_term[m]
  BY <1>1
<1>5. \A e \in elected : e[2] \in Nodes /\ e[1] \in Nat /\ e[1] <= current_term[e[2]]
  BY DEF LeadersElected
<1>6. <<current_term[n] + 1, n>> \notin elected
  <2> SUFFICES ASSUME <<current_term[n] + 1, n>> \in elected PROVE FALSE
    OBVIOUS
  <2>1. current_term[n] + 1 <= current_term[n]
    BY <1>5
  <2>2. QED
    BY <2>1
<1>7. RoundsFit'
  BY <1>1, <1>2, <1>3, <1>4, <1>6 DEF RoundsFit
<1>8. LeadersElected'
  <2>1. \A e \in elected' : e[1] <= current_term'[e[2]]
    BY <1>1, <1>3, <1>4, <1>5
  <2>2. QED
    BY <2>1, <1>1, <1>3, <1>4 DEF LeadersElected
<1>9. LeadersStay
  BY <1>3, <1>4 DEF LeadersStay
<1>10. VotersGrow
  BY <1>2, <1>3, <1>4, UpToDateSelf DEF VotersGrow
<1>11. QED
  BY <1>1, <1>7, <1>8, <1>9, <1>10 DEF Fits, Quiet

\* request_vote: the peer's term moves, and it no longer leads if it led in
\* an earlier one.
LEMMA RequestVoteFits ==
    ASSUME BaseInv, NEW n \in Nodes, RequestVote(n)
    PROVE  Fits /\ Quiet
<1> USE DEF BaseInv, VoteInv, VoteTypeOK
<1> DEFINE p == loop[n].peer
           r == [pc |-> "electing", peer |-> NextPeer(n, p),
                 voters |-> IF grants(p, n) THEN loop[n].voters \cup {p}
                                            ELSE loop[n].voters]
<1>0. p \in Nodes /\ p # n /\ loop[p].pc = "idle" /\ loop[n].pc = "electing"
  BY CallsOther DEF RequestVote, Calls
<1>1. /\ current_term[n] >= current_term[p]
      /\ current_term' = [current_term EXCEPT ![p] = current_term[n]]
      /\ state' = IF current_term[n] > current_term[p]
                  THEN [state EXCEPT ![p] = "FOLLOWER"] ELSE state
      /\ loop' = [loop EXCEPT ![n] = r]
      /\ UNCHANGED <<log, next_index, match_index, elected, misplaced>>
  BY DEF RequestVote, Adopts, logVars, leaderVars, clientVars
<1>2. r.pc = "electing" /\ \A v \in r.voters : v \in loop[n].voters \/ (v = p /\ UpToDate(n, p))
  <2>1. grants(p, n) => UpToDate(n, p)
    BY DEF grants
  <2>2. r.voters = IF grants(p, n) THEN loop[n].voters \cup {p} ELSE loop[n].voters
    OBVIOUS
  <2>3. QED
    BY <2>1, <2>2
<1> HIDE DEF p, r
<1>3. /\ state'[n] = state[n] /\ current_term'[n] = current_term[n] /\ loop'[n] = r
      /\ loop'[p] = loop[p] /\ current_term'[p] = current_term[n]
      /\ state'[p] = IF current_term[n] > current_term[p] THEN "FOLLOWER" ELSE state[p]
  BY <1>0, <1>1
<1>4. \A m \in Nodes : m # n /\ m # p => /\ state'[m] = state[m] /\ loop'[m] = loop[m]
                                         /\ current_term'[m] = current_term[m]
  BY <1>0, <1>1
<1>5. \A m \in Nodes : current_term'[m] >= current_term[m] /\ current_term'[m] \in Nat /\ current_term[m] \in Nat
  BY <1>0, <1>1, <1>3, <1>4
<1>6. LeadersStay
  BY <1>0, <1>1, <1>3, <1>4, <1>5 DEF LeadersStay
<1>7. RoundsFit'
  BY <1>0, <1>1, <1>2, <1>3, <1>4 DEF RoundsFit
<1>8. LeadersElected'
  <2>1. \A e \in elected' : e[1] <= current_term'[e[2]]
    BY <1>1, <1>5 DEF LeadersElected
  <2>2. QED
    BY <2>1, <1>1, <1>6 DEF LeadersElected, LeadersStay
<1>9. VotersGrow
  BY <1>0, <1>2, <1>3, <1>4 DEF VotersGrow
<1>10. QED
  BY <1>1, <1>6, <1>7, <1>8, <1>9 DEF Fits, Quiet

\* A reply with a higher term: n follows.
LEMMA StaleFits ==
    ASSUME BaseInv, NEW n \in Nodes, NEW p \in Nodes,
           current_term[p] > current_term[n], StepDown(n, current_term[p]),
           UNCHANGED <<log, next_index, match_index, elected, misplaced>>
    PROVE  Fits /\ Quiet
<1> USE DEF BaseInv, VoteInv, VoteTypeOK
<1>1. /\ state' = [state EXCEPT ![n] = "FOLLOWER"]
      /\ current_term' = [current_term EXCEPT ![n] = current_term[p]]
      /\ loop' = [loop EXCEPT ![n] = Idle]
  BY DEF StepDown
<1>2. Idle.pc = "idle"
  BY DEF Idle
<1>3. state'[n] = "FOLLOWER" /\ current_term'[n] = current_term[p] /\ loop'[n].pc = "idle"
  BY <1>1, <1>2
<1>4. \A m \in Nodes : m # n => /\ state'[m] = state[m] /\ loop'[m] = loop[m]
                                /\ current_term'[m] = current_term[m]
  BY <1>1
<1>5. \A m \in Nodes : current_term'[m] >= current_term[m] /\ current_term'[m] \in Nat /\ current_term[m] \in Nat
  BY <1>1, <1>3, <1>4
<1>6. LeadersStay
  BY <1>3, <1>4 DEF LeadersStay
<1>7. RoundsFit'
  BY <1>3, <1>4 DEF RoundsFit
<1>8. LeadersElected'
  <2>1. \A e \in elected' : e[1] <= current_term'[e[2]]
    BY <1>5 DEF LeadersElected
  <2>2. QED
    BY <2>1, <1>6 DEF LeadersElected, LeadersStay
<1>9. VotersGrow
  BY <1>3, <1>4 DEF VotersGrow
<1>10. QED
  BY <1>6, <1>7, <1>8, <1>9 DEF Fits, Quiet

\* A step that leaves states and terms alone, and sends the loop of n, if it
\* moves, into no election.
LEMMA CalmFits ==
    ASSUME BaseInv, NEW n \in Nodes, NEW r,
           r.pc # "electing", r.pc = "beating" => state[n] = "LEADER",
           loop' = [loop EXCEPT ![n] = r],
           UNCHANGED <<state, current_term, elected>>
    PROVE  Fits /\ LeadersStay /\ VotersGrow
<1> USE DEF BaseInv, VoteInv, VoteTypeOK
<1>1. loop'[n] = r /\ \A m \in Nodes : m # n => loop'[m] = loop[m]
  OBVIOUS
<1>2. RoundsFit'
  BY <1>1 DEF RoundsFit
<1>3. LeadersElected' /\ LeadersStay
  BY DEF LeadersElected, LeadersStay
<1>4. VotersGrow
  BY <1>1 DEF VotersGrow
<1>5. QED
  BY <1>2, <1>3, <1>4 DEF Fits

\* become_leader: n leads with the majority it has collected, and knows
\* nothing of its peers' logs.
Leads(n) ==
    /\ loop[n].pc = "electing" /\ Majority(Cardinality(loop[n].voters))
    /\ state[n] = "CANDIDATE" /\ <<current_term[n], n>> \notin elected
    /\ state'[n] = "LEADER" /\ loop'[n].pc = "beating"
    /\ \A p \in Nodes : next_index'[n][p] = Len(log[n]) + 1 /\ match_index'[n][p] = 0
    /\ \A m \in Nodes : m # n => /\ state'[m] = state[m] /\ loop'[m] = loop[m]
                                 /\ match_index'[m] = match_index[m]
                                 /\ next_index'[m] = next_index[m]
    /\ elected' = elected \cup {<<current_term[n], n>>}
    /\ UNCHANGED <<current_term, log, commit_index, applied, calls, sent, misplaced>>

\* What _become_leader keeps of the rounds and leaders.
LEMMA LeadFits ==
    ASSUME BaseInv, NEW n \in Nodes, become_leader(n)
    PROVE  Fits /\ Leads(n) /\ next_index' \in [Nodes -> [Nodes -> Nat \ {0}]]
           /\ match_index' \in [Nodes -> [Nodes -> Nat]]
<1> USE DEF BaseInv, VoteInv, VoteTypeOK
<1> DEFINE r == [pc |-> "beating", peer |-> NextPeer(n, 0), voters |-> {}]
           g == [p \in Nodes |-> Len(log[n]) + 1]
           z == [p \in Nodes |-> 0]
<1>1. /\ loop[n].pc = "electing" /\ Majority(Cardinality(loop[n].voters))
      /\ state[n] = "CANDIDATE"
      /\ state' = [state EXCEPT ![n] = "LEADER"]
      /\ next_index' = [next_index EXCEPT ![n] = g]
      /\ match_index' = [match_index EXCEPT ![n] = z]
      /\ loop' = [loop EXCEPT ![n] = r]
      /\ elected' = elected \cup {<<current_term[n], n>>}
      /\ UNCHANGED <<current_term, log, commit_index, applied, calls, sent, misplaced>>
  BY DEF become_leader, Called, logVars, clientVars
<1>2. r.pc = "beating"
  OBVIOUS
<1>3. Len(log[n]) \in Nat
  BY LenProperties DEF LogTypeOK
<1>4. g \in [Nodes -> Nat \ {0}] /\ z \in [Nodes -> Nat]
      /\ \A p \in Nodes : g[p] = Len(log[n]) + 1 /\ z[p] = 0
  BY <1>3
<1> HIDE DEF r, g, z
<1>5. /\ next_index' \in [Nodes -> [Nodes -> Nat \ {0}]]
      /\ match_index' \in [Nodes -> [Nodes -> Nat]]
  BY <1>1, <1>4 DEF LogTypeOK
<1>6. state'[n] = "LEADER" /\ loop'[n] = r /\ next_index'[n] = g /\ match_index'[n] = z
  BY <1>1 DEF LogTypeOK
<1>7. \A m \in Nodes : m # n => /\ state'[m] = state[m] /\ loop'[m] = loop[m]
                                /\ match_index'[m] = match_index[m]
                                /\ next_index'[m] = next_index[m]
  BY <1>1 DEF LogTypeOK
<1>8. <<current_term[n], n>> \notin elected
  BY <1>1 DEF RoundsFit
<1>9. Leads(n)
  <2>1. loop'[n].pc = "beating"
    BY <1>2, <1>6
  <2>2. \A p \in Nodes : next_index'[n][p] = Len(log[n]) + 1 /\ match_index'[n][p] = 0
    BY <1>4, <1>6
  <2>3. QED
    BY <2>1, <2>2, <1>1, <1>6, <1>7, <1>8, SMTT(30) DEF Leads
<1>10. RoundsFit'
  <2> SUFFICES ASSUME NEW m \in Nodes
               PROVE  /\ loop'[m].pc = "electing" => state'[m] = "CANDIDATE"
                                      /\ <<current_term'[m], m>> \notin elected'
                      /\ loop'[m].pc = "beating" => state'[m] = "LEADER"
    BY DEF RoundsFit
  <2>1. CASE m = n
    BY <2>1, <1>2, <1>6
  <2>2. CASE m # n
    BY <2>2, <1>1, <1>7 DEF RoundsFit
  <2>3. QED
    BY <2>1, <2>2
<1>11. LeadersElected'
  <2>1. \A m \in Nodes : state'[m] = "LEADER" => <<current_term'[m], m>> \in elected'
    BY <1>1, <1>7 DEF LeadersElected
  <2>2. \A e \in elected' : e[1] <= current_term'[e[2]]
    BY <1>1 DEF LeadersElected
  <2>3. QED
    BY <2>1, <2>2 DEF LeadersElected
<1>12. QED
  BY <1>5, <1>9, <1>10, <1>11 DEF Fits

\* ReplicateAppend: one entry more at n.
Grows(n, c) ==
    /\ loop[n].pc = "idle"
    /\ log'[n] = Append(log[n], [term |-> current_term[n], command |-> c])
    /\ match_index'[n][n] = Len(log[n]) + 1
    /\ \A p \in Nodes : p # n => match_index'[n][p] = match_index[n][p]
    /\ \A m \in Nodes : m # n => log'[m] = log[m] /\ match_index'[m] = match_index[m]
    /\ misplaced' = IF state[n] = "LEADER" THEN misplaced ELSE misplaced \cup {c}
    /\ UNCHANGED <<state, current_term, loop, elected, commit_index, applied, next_index>>

\* What replicate keeps of the rounds and leaders.
LEMMA GrowFits ==
    ASSUME BaseInv, NEW n \in Nodes, NEW c \in Commands, ReplicateAppend(n, c)
    PROVE  Fits /\ Grows(n, c) /\ log' \in [Nodes -> Seq(Entry)]
           /\ match_index' \in [Nodes -> [Nodes -> Nat]]
           /\ calls' \subseteq calls /\ sent' = sent
<1> USE DEF BaseInv, VoteInv, VoteTypeOK
<1> DEFINE e == [term |-> current_term[n], command |-> c]
           l == Append(log[n], e)
           g == [match_index[n] EXCEPT ![n] = Len(log[n]) + 1]
<1>1. /\ loop[n].pc = "idle"
      /\ log' = [log EXCEPT ![n] = l]
      /\ match_index' = [match_index EXCEPT ![n] = g]
      /\ misplaced' = IF state[n] = "LEADER" THEN misplaced ELSE misplaced \cup {c}
      /\ calls' \subseteq calls /\ sent' = sent
      /\ UNCHANGED <<state, current_term, loop, elected, commit_index, applied, next_index>>
  BY DEF ReplicateAppend, Free, raftVars, history
<1>2. log[n] \in Seq(Entry) /\ Len(log[n]) \in Nat /\ match_index[n] \in [Nodes -> Nat]
  BY LenProperties DEF LogTypeOK
<1>3. e \in Entry
  BY DEF Entry
<1>4. g \in [Nodes -> Nat] /\ g[n] = Len(log[n]) + 1
      /\ \A p \in Nodes : p # n => g[p] = match_index[n][p]
  BY <1>2
<1>5. l \in Seq(Entry)
  BY <1>2, <1>3, AppendProperties
<1> HIDE DEF l, g
<1>6. log' \in [Nodes -> Seq(Entry)] /\ match_index' \in [Nodes -> [Nodes -> Nat]]
  BY <1>1, <1>4, <1>5 DEF LogTypeOK
<1>7. log'[n] = l /\ match_index'[n] = g
      /\ \A m \in Nodes : m # n => log'[m] = log[m] /\ match_index'[m] = match_index[m]
  BY <1>1 DEF LogTypeOK
<1>8. Grows(n, c)
  BY <1>1, <1>4, <1>7 DEF Grows, l
<1>9. Fits
  BY <1>1 DEF Fits, RoundsFit, LeadersElected
<1>10. QED
  BY <1>1, <1>6, <1>8, <1>9

\* AppendEntries: the leader n calls p, which follows it from then on.
Sends(n, p) ==
    /\ p \in Nodes /\ p # n /\ loop[n].pc = "beating" /\ loop[p].pc = "idle"
    /\ state[n] = "LEADER" /\ current_term[n] >= current_term[p]
    /\ state'[p] # "LEADER" /\ current_term'[p] = current_term[n]
    /\ loop'[n].pc = "beating"
    /\ \A m \in Nodes : m # p => /\ state'[m] = state[m] /\ current_term'[m] = current_term[m]
                                 /\ log'[m] = log[m] /\ commit_index'[m] = commit_index[m]
                                 /\ applied'[m] = applied[m]
    /\ \A m \in Nodes : m # n => /\ loop'[m] = loop[m] /\ match_index'[m] = match_index[m]
                                 /\ next_index'[m] = next_index[m]
    /\ \A q \in Nodes : q # p => /\ match_index'[n][q] = match_index[n][q]
                                 /\ next_index'[n][q] = next_index[n][q]
    /\ UNCHANGED <<elected, misplaced, calls, sent>>

\* p finds the entry before the new ones and takes them over.
Accepted(n, p, prev) ==
    /\ prev <= Len(log[p]) /\ prev <= Len(log[n])
    /\ prev = 0 \/ log[p][prev].term = log[n][prev].term
    /\ log'[p] = Appended(log[p], prev, SubSeq(log[n], prev + 1, Len(log[n])))
    /\ match_index'[n][p] = Len(log[n]) /\ next_index'[n][p] = Len(log[n]) + 1
    /\ commit_index'[p] = IF commit_index[n] <= commit_index[p] THEN commit_index[p]
                          ELSE IF commit_index[n] < Len(log'[p]) THEN commit_index[n]
                               ELSE Len(log'[p])
    /\ Len(applied'[p]) = Larger(commit_index'[p], Len(applied[p]))
    /\ \A i \in 1 .. Len(applied'[p]) :
          applied'[p][i] = IF i <= Len(applied[p]) THEN applied[p][i] ELSE log'[p][i].command

\* p does not: an entry of another term goes, with all that follow it.
Refused(n, p, prev) ==
    /\ prev \in 1 .. Len(log[n])
    /\ \/ log'[p] = log[p]
       \/ /\ prev <= Len(log[p]) /\ log[p][prev].term # log[n][prev].term
          /\ log'[p] = SubSeq(log[p], 1, prev - 1)
    /\ match_index'[n][p] = match_index[n][p]
    /\ next_index'[n][p] >= 1 /\ next_index'[n][p] <= next_index[n][p]
    /\ commit_index'[p] = commit_index[p] /\ applied'[p] = applied[p]

\* Who plays which part in AppendEntries.
LEMMA SendRoles ==
    ASSUME BaseInv, NEW n \in Nodes, AppendEntries(n)
    PROVE  LET p == loop[n].peer
               prev == next_index[n][p] - 1 IN
           /\ p \in Nodes /\ p # n /\ loop[p].pc = "idle" /\ loop[n].pc = "beating"
           /\ state[n] = "LEADER" /\ current_term[n] >= current_term[p]
           /\ current_term' = [current_term EXCEPT ![p] = current_term[n]]
           /\ \A m \in Nodes : m # p => state'[m] = state[m]
           /\ state'[p] # "LEADER"
           /\ loop'[n].pc = "beating" /\ \A m \in Nodes : m # n => loop'[m] = loop[m]
           /\ append_entries(p, n, prev, SubSeq(log[n], prev + 1, Len(log[n])))
           /\ UNCHANGED <<elected, misplaced, calls, sent>>
           /\ prev \in Nat /\ prev <= Len(log[n])
<1> USE DEF BaseInv, VoteInv, VoteTypeOK
<1> DEFINE p == loop[n].peer
           prev == next_index[n][p] - 1
           r == [pc |-> "beating", peer |-> NextPeer(n, p), voters |-> {}]
<1>1. p \in Nodes /\ p # n /\ loop[p].pc = "idle" /\ loop[n].pc = "beating"
  BY CallsOther DEF AppendEntries, Calls
<1>2. /\ current_term[n] >= current_term[p]
      /\ current_term' = [current_term EXCEPT ![p] = current_term[n]]
      /\ state' = IF current_term[n] > current_term[p]
                  THEN [state EXCEPT ![p] = "FOLLOWER"] ELSE state
      /\ loop' = [loop EXCEPT ![n] = r]
      /\ append_entries(p, n, prev, SubSeq(log[n], prev + 1, Len(log[n])))
      /\ UNCHANGED <<elected, misplaced, calls, sent>>
  BY DEF AppendEntries, Adopts, history, clientVars
<1>3. r.pc = "beating"
  OBVIOUS
<1>4. state[n] = "LEADER"
  BY <1>1 DEF RoundsFit
<1> HIDE DEF r, p
<1>5. loop'[n].pc = "beating" /\ \A m \in Nodes : m # n => loop'[m] = loop[m]
  BY <1>2, <1>3
<1>6. \A m \in Nodes : m # p => state'[m] = state[m]
  BY <1>1, <1>2
<1>7. state'[p] # "LEADER"
  <2>1. CASE current_term[n] > current_term[p]
    BY <2>1, <1>1, <1>2
  <2>2. CASE current_term[n] = current_term[p]
    <3>1. state'[p] = state[p]
      BY <2>2, <1>1, <1>2
    <3>2. SUFFICES ASSUME state[p] = "LEADER" PROVE FALSE
      BY <3>1
    <3>3. <<current_term[n], n>> \in elected /\ <<current_term[n], p>> \in elected
      BY <1>1, <1>4, <2>2, <3>2 DEF LeadersElected
    <3>4. ElectionSafety
      BY OneLeader
    <3>5. n = p
      BY <3>3, <3>4 DEF ElectionSafety
    <3>6. QED
      BY <3>5, <1>1
  <2>3. QED
    BY <2>1, <2>2, <1>1, <1>2
<1>8. prev \in Nat /\ prev <= Len(log[n])
  <2>1. next_index[n][p] \in Nat \ {0} /\ Len(log[n]) \in Nat
    BY <1>1, LenProperties DEF LogTypeOK
  <2>2. next_index[n][p] <= Len(log[n]) + 1
    BY <1>1, <1>4 DEF IndexFit
  <2>3. QED
    BY <2>1, <2>2
<1>9. QED
  BY <1>1, <1>2, <1>4, <1>5, <1>6, <1>7, <1>8 DEF p

\* A table of rows in which one entry is replaced.
LEMMA OneEntry ==
    ASSUME NEW S, NEW f \in [Nodes -> [Nodes -> S]], NEW n \in Nodes, NEW p \in Nodes,
           NEW v \in S, NEW g, g = [f EXCEPT ![n][p] = v]
    PROVE  /\ g \in [Nodes -> [Nodes -> S]] /\ g[n][p] = v
           /\ \A m \in Nodes : m # n => g[m] = f[m]
           /\ \A q \in Nodes : q # p => g[n][q] = f[n][q]
<1> DEFINE r == [f[n] EXCEPT ![p] = v]
<1>1. r \in [Nodes -> S] /\ r[p] = v /\ \A q \in Nodes : q # p => r[q] = f[n][q]
  OBVIOUS
<1> HIDE DEF r
<1>2. g = [f EXCEPT ![n] = r]
  BY DEF r
<1>3. QED
  BY <1>1, <1>2

\* What a call of append_entries and its answer keep of them.
LEMMA SendFits ==
    ASSUME BaseInv, NEW n \in Nodes, AppendEntries(n)
    PROVE  /\ Fits
           /\ \E p \in Nodes : /\ Sends(n, p)
                               /\ Accepted(n, p, next_index[n][p] - 1) \/ Refused(n, p, next_index[n][p] - 1)
           /\ log' \in [Nodes -> Seq(Entry)]
           /\ next_index' \in [Nodes -> [Nodes -> Nat \ {0}]]
           /\ match_index' \in [Nodes -> [Nodes -> Nat]]
           /\ commit_index' \in [Nodes -> Nat]
           /\ applied' \in [Nodes -> Seq(Commands)]
           /\ AppliedFits'
<1> USE DEF BaseInv, VoteInv, VoteTypeOK
<1> DEFINE p == loop[n].peer
           prev == next_index[n][p] - 1
           e == SubSeq(log[n], prev + 1, Len(log[n]))
           l == Appended(log[p], prev, e)
           prevTerm == IF prev = 0 THEN 0 ELSE log[n][prev].term
           c == IF commit_index[n] <= commit_index[p] THEN commit_index[p]
                ELSE IF commit_index[n] < Len(l) THEN commit_index[n] ELSE Len(l)
<1>1. /\ p \in Nodes /\ p # n /\ loop[p].pc = "idle" /\ loop[n].pc = "beating"
      /\ state[n] = "LEADER" /\ current_term[n] >= current_term[p]
      /\ current_term' = [current_term EXCEPT ![p] = current_term[n]]
      /\ \A m \in Nodes : m # p => state'[m] = state[m]
      /\ state'[p] # "LEADER"
      /\ loop'[n].pc = "beating" /\ \A m \in Nodes : m # n => loop'[m] = loop[m]
      /\ append_entries(p, n, prev, e)
      /\ UNCHANGED <<elected, misplaced, calls, sent>>
      /\ prev \in Nat /\ prev <= Len(log[n])
  BY SendRoles, Zenon
<1>2. current_term'[p] = current_term[n]
      /\ \A m \in Nodes : m # p => current_term'[m] = current_term[m]
  BY <1>1
<1>3. Fits
  <2>1. RoundsFit'
    BY <1>1, <1>2 DEF RoundsFit
  <2>2. \A f \in elected' : f[1] <= current_term'[f[2]]
    <3>1. \A m \in Nodes : current_term[m] \in Nat /\ current_term'[m] \in Nat /\ current_term'[m] >= current_term[m]
      BY <1>1, <1>2
    <3>2. QED
      BY <1>1, <3>1 DEF LeadersElected
  <2>3. QED
    BY <2>1, <2>2, <1>1, <1>2 DEF Fits, LeadersElected
<1>4. /\ log[n] \in Seq(Entry) /\ log[p] \in Seq(Entry)
      /\ Len(log[n]) \in Nat /\ Len(log[p]) \in Nat
      /\ next_index[n] \in [Nodes -> Nat \ {0}] /\ next_index[n][p] \in Nat \ {0}
      /\ match_index[n] \in [Nodes -> Nat]
      /\ commit_index[n] \in Nat /\ commit_index[p] \in Nat
  BY <1>1, LenProperties DEF LogTypeOK
<1>5. e \in Seq(Entry) /\ Len(e) = Len(log[n]) - prev
  <2>1. \A k \in (prev + 1) .. Len(log[n]) : log[n][k] \in Entry
    BY <1>1, <1>4
  <2>2. /\ e \in Seq(Entry)
        /\ Len(e) = IF prev + 1 <= Len(log[n]) THEN Len(log[n]) - (prev + 1) + 1 ELSE 0
    BY <2>1, <1>1, <1>4, SubSeqProperties
  <2> HIDE DEF e, prev, p
  <2>3. QED
    BY <2>2, <1>1, <1>4
<1> HIDE DEF p, prev, e
<1>6. \/ /\ Consistent(p, prev, prevTerm)
         /\ log' = [log EXCEPT ![p] = l]
         /\ Commit(p, l, c)
         /\ next_index' = [next_index EXCEPT ![n][p] = prev + Len(e) + 1]
         /\ match_index' = [match_index EXCEPT ![n][p] = prev + Len(e)]
      \/ /\ ~ Consistent(p, prev, prevTerm)
         /\ log' = [log EXCEPT ![p] = IF Len(log[p]) >= prev
                                      THEN SubSeq(log[p], 1, prev - 1) ELSE log[p]]
         /\ next_index' = [next_index EXCEPT ![n][p] =
                             IF next_index[n][p] > 1 THEN next_index[n][p] - 1 ELSE 1]
         /\ UNCHANGED <<match_index, commit_index, applied>>
  <2>1. CASE Consistent(p, prev, prevTerm)
    BY <2>1, <1>1 DEF append_entries
  <2>2. CASE ~ Consistent(p, prev, prevTerm)
    BY <2>2, <1>1 DEF append_entries
  <2>3. QED
    BY <2>1, <2>2
<1>7. prev + Len(e) = Len(log[n]) /\ prev = next_index[n][p] - 1
  <2>1. prev + Len(e) = Len(log[n])
    BY <1>1, <1>4, <1>5
  <2>2. QED
    BY <2>1 DEF prev
<1>n. next_index \in [Nodes -> [Nodes -> Nat \ {0}]] /\ match_index \in [Nodes -> [Nodes -> Nat]]
  BY DEF LogTypeOK
<1>8. CASE /\ Consistent(p, prev, prevTerm)
           /\ log' = [log EXCEPT ![p] = l]
           /\ Commit(p, l, c)
           /\ next_index' = [next_index EXCEPT ![n][p] = prev + Len(e) + 1]
           /\ match_index' = [match_index EXCEPT ![n][p] = prev + Len(e)]
  <2>1. prev <= Len(log[p]) /\ (prev = 0 \/ log[p][prev].term = log[n][prev].term)
    BY <1>8, <1>1, <1>4, SMTT(30) DEF Consistent
  <2>2. l \in Seq(Entry)
    BY <2>1, <1>1, <1>4, <1>5, AppendedType
  <2>3. Len(l) \in Nat
    BY <2>2, LenProperties
  <2> HIDE DEF l
  <2>4. c \in Nat /\ (c <= Len(l) \/ c <= Len(applied[p]))
    <3>1. commit_index[p] <= Len(applied[p])
      BY <1>1 DEF AppliedFits
    <3>2. QED
      BY <3>1, <2>3, <1>4
  <2> HIDE DEF c
  <2>5. /\ commit_index' \in [Nodes -> Nat] /\ applied' \in [Nodes -> Seq(Commands)]
        /\ commit_index'[p] = c /\ Len(applied'[p]) = Larger(c, Len(applied[p]))
        /\ \A i \in 1 .. Len(applied'[p]) :
              applied'[p][i] = IF i <= Len(applied[p]) THEN applied[p][i] ELSE l[i].command
        /\ \A s \in Nodes : s # p => /\ commit_index'[s] = commit_index[s]
                                     /\ applied'[s] = applied[s]
    BY <1>8, <2>2, <2>4, <1>1, CommitEffect
  <2>5a. commit_index'[p] <= Len(applied'[p])
    <3>1. Len(applied[p]) \in Nat
      BY <1>1, LenProperties DEF LogTypeOK
    <3>2. QED
      BY <3>1, <2>4, <2>5 DEF Larger
  <2>6. log' \in [Nodes -> Seq(Entry)] /\ log'[p] = l
        /\ \A m \in Nodes : m # p => log'[m] = log[m]
    BY <1>8, <2>2, <1>1 DEF LogTypeOK
  <2>7. next_index' \in [Nodes -> [Nodes -> Nat \ {0}]] /\ next_index'[n][p] = Len(log[n]) + 1
        /\ (\A m \in Nodes : m # n => next_index'[m] = next_index[m])
        /\ \A q \in Nodes : q # p => next_index'[n][q] = next_index[n][q]
    <3>1. prev + Len(e) + 1 \in Nat \ {0} /\ prev + Len(e) + 1 = Len(log[n]) + 1
      <4>1. Len(e) \in Nat /\ prev \in Nat
        BY <1>1, <1>5, LenProperties
      <4>2. prev + Len(e) = Len(log[n])
        BY <1>7
      <4>3. QED
        BY <4>1, <4>2
    <3>2. QED
      BY <1>8, <1>1, <1>n, <3>1, OneEntry, SMTT(30)
  <2>8. match_index' \in [Nodes -> [Nodes -> Nat]] /\ match_index'[n][p] = Len(log[n])
        /\ (\A m \in Nodes : m # n => match_index'[m] = match_index[m])
        /\ \A q \in Nodes : q # p => match_index'[n][q] = match_index[n][q]
    <3>1. match_index' = [match_index EXCEPT ![n][p] = Len(log[n])]
      BY <1>8, <1>7
    <3>2. QED
      BY <3>1, <1>1, <1>4, <1>n, OneEntry, SMTT(30)
  <2>9. AppliedFits'
    BY <2>5, <2>5a DEF AppliedFits
  <2>10. Accepted(n, p, prev)
    <3>1. c = IF commit_index[n] <= commit_index[p] THEN commit_index[p]
              ELSE IF commit_index[n] < Len(log'[p]) THEN commit_index[n] ELSE Len(log'[p])
      BY <2>6, Zenon DEF c
    <3>2. log'[p] = Appended(log[p], prev, SubSeq(log[n], prev + 1, Len(log[n])))
      BY <2>6, Zenon DEF l, e
    <3>3. QED
      BY <3>1, <3>2, <2>1, <2>5, <2>6, <2>7, <2>8, <1>1, Zenon DEF Accepted
  <2>11. Sends(n, p)
    BY <2>5, <2>6, <2>7, <2>8, <1>1, <1>2 DEF Sends
  <2>12. QED
    BY <2>5, <2>6, <2>7, <2>8, <2>9, <2>10, <2>11, <1>1, <1>3, <1>7, Zenon
<1>9. CASE /\ ~ Consistent(p, prev, prevTerm)
           /\ log' = [log EXCEPT ![p] = IF Len(log[p]) >= prev
                                      THEN SubSeq(log[p], 1, prev - 1) ELSE log[p]]
           /\ next_index' = [next_index EXCEPT ![n][p] =
                             IF next_index[n][p] > 1 THEN next_index[n][p] - 1 ELSE 1]
           /\ UNCHANGED <<match_index, commit_index, applied>>
  <2>1. prev \in 1 .. Len(log[n]) /\ (Len(log[p]) >= prev => log[p][prev].term # log[n][prev].term)
    BY <1>9, <1>1, <1>4 DEF Consistent
  <2> DEFINE k == IF Len(log[p]) >= prev THEN SubSeq(log[p], 1, prev - 1) ELSE log[p]
  <2>2. k \in Seq(Entry)
    <3>1. CASE Len(log[p]) >= prev
      <4>1. \A i \in 1 .. (prev - 1) : log[p][i] \in Entry
        BY <3>1, <1>1, <1>4
      <4>2. SubSeq(log[p], 1, prev - 1) \in Seq(Entry)
        BY <4>1, <1>1, SubSeqProperties
      <4>3. QED
        BY <4>2, <3>1
    <3>2. QED
      BY <3>1, <1>4
  <2>3. log'[p] = log[p] \/ (prev <= Len(log[p]) /\ log'[p] = SubSeq(log[p], 1, prev - 1))
    BY <1>9, <1>1, <1>4 DEF LogTypeOK
  <2>3a. log' = [log EXCEPT ![p] = k]
    BY <1>9
  <2> HIDE DEF k
  <2>4. log' \in [Nodes -> Seq(Entry)] /\ \A m \in Nodes : m # p => log'[m] = log[m]
    BY <2>2, <2>3a, <1>1 DEF LogTypeOK
  <2>5. next_index' \in [Nodes -> [Nodes -> Nat \ {0}]]
        /\ next_index'[n][p] >= 1 /\ next_index'[n][p] <= next_index[n][p]
        /\ (\A m \in Nodes : m # n => next_index'[m] = next_index[m])
        /\ \A q \in Nodes : q # p => next_index'[n][q] = next_index[n][q]
    <3> DEFINE v == IF next_index[n][p] > 1 THEN next_index[n][p] - 1 ELSE 1
    <3>1. v \in Nat \ {0} /\ v >= 1 /\ v <= next_index[n][p]
      BY <1>4, SMTT(30)
    <3>2. next_index' = [next_index EXCEPT ![n][p] = v]
      BY <1>9
    <3> HIDE DEF v
    <3>3. QED
      BY <3>1, <3>2, <1>1, <1>n, OneEntry, SMTT(30)
  <2>6. Refused(n, p, prev)
    <3>1. prev <= Len(log[p]) => log[p][prev].term # log[n][prev].term
      BY <2>1, <1>1, <1>4
    <3>2. QED
      BY <2>1, <2>3, <3>1, <2>5, <1>9 DEF Refused
  <2>7. Sends(n, p)
    BY <2>4, <2>5, <1>1, <1>2, <1>9 DEF Sends
  <2>8. QED
    BY <2>4, <2>5, <2>6, <2>7, <1>1, <1>3, <1>7, <1>9 DEF AppliedFits, LogTypeOK
<1>10. QED
  BY <1>6, <1>8, <1>9, Zenon

\* update_commit_index: the leader n commits up to an entry of its own term
\* that a majority holds.
Updates(n) ==
    /\ state[n] = "LEADER"
    /\ commit_index'[n] \in committable(n)
    /\ Len(applied'[n]) = Larger(commit_index'[n], Len(applied[n]))
    /\ \A i \in 1 .. Len(applied'[n]) :
          applied'[n][i] = IF i <= Len(applied[n]) THEN applied[n][i] ELSE log[n][i].command
    /\ \A s \in Nodes : s # n => commit_index'[s] = commit_index[s] /\ applied'[s] = applied[s]

\* The four kinds of step.
QuietKind ==
    /\ Quiet
    /\ UNCHANGED <<commit_index, applied>> \/ \E n \in Nodes : Updates(n)

LeadKind == \E n \in Nodes : Leads(n)

GrowKind == \E n \in Nodes, c \in Commands : Grows(n, c)

SendKind == \E n, p \in Nodes :
    /\ Sends(n, p)
    /\ Accepted(n, p, next_index[n][p] - 1) \/ Refused(n, p, next_index[n][p] - 1)

Kinds ==
    /\ Fits /\ LogTypeOK' /\ AppliedFits'
    /\ QuietKind \/ LeadKind \/ GrowKind \/ SendKind

\* What _update_commit_index keeps of them.
LEMMA UpdateFits ==
    ASSUME BaseInv, NEW n \in Nodes, update_commit_index(n)
    PROVE  Kinds
<1>0. loop[n].pc = "beating" /\ loop' = [loop EXCEPT ![n] = Idle]
      /\ UNCHANGED <<state, current_term, elected, log, next_index, match_index, misplaced, calls, sent>>
      /\ IF committable(n) = {} THEN UNCHANGED <<commit_index, applied>>
         ELSE Commit(n, log[n], CHOOSE i \in committable(n) : \A k \in committable(n) : i >= k)
  BY DEF update_commit_index, Called, raftVars, leaderVars, clientVars, history
<1>1. state[n] = "LEADER"
  BY <1>0 DEF BaseInv, RoundsFit
<1>2. Fits /\ Quiet
  <2>1. Idle.pc = "idle"
    BY DEF Idle
  <2>2. Fits /\ LeadersStay /\ VotersGrow
    BY <1>0, <2>1, CalmFits
  <2>3. QED
    BY <1>0, <2>2 DEF Quiet
<1>3. CASE committable(n) = {}
  <2>1. LogTypeOK' /\ AppliedFits'
    BY <1>0, <1>3 DEF BaseInv, LogTypeOK, AppliedFits
  <2>2. QED
    BY <1>0, <1>2, <1>3, <2>1 DEF Kinds, QuietKind
<1>4. CASE committable(n) # {}
  <2> DEFINE c == CHOOSE i \in committable(n) : \A k \in committable(n) : i >= k
  <2>1. log[n] \in Seq(Entry) /\ Len(log[n]) \in Nat /\ commit_index[n] \in Nat
        /\ Len(applied[n]) \in Nat
    BY LenProperties DEF BaseInv, LogTypeOK
  <2>2. committable(n) \subseteq 0 .. Len(log[n])
    BY <2>1 DEF committable
  <2>3. c \in committable(n)
    BY <1>4, <2>1, <2>2, GreatestExists
  <2>4. Commit(n, log[n], c)
    BY <1>0, <1>4
  <2> HIDE DEF c
  <2>5. c \in Nat /\ c <= Len(log[n])
    BY <2>1, <2>2, <2>3
  <2>6. /\ commit_index' \in [Nodes -> Nat] /\ applied' \in [Nodes -> Seq(Commands)]
        /\ commit_index'[n] = c /\ Len(applied'[n]) = Larger(c, Len(applied[n]))
        /\ \A i \in 1 .. Len(applied'[n]) :
              applied'[n][i] = IF i <= Len(applied[n]) THEN applied[n][i] ELSE log[n][i].command
        /\ \A s \in Nodes : s # n => /\ commit_index'[s] = commit_index[s]
                                     /\ applied'[s] = applied[s]
    BY <2>1, <2>4, <2>5, CommitEffect DEF BaseInv
  <2>7. Updates(n)
    BY <1>1, <2>3, <2>6, Zenon DEF Updates
  <2>8. LogTypeOK'
    BY <1>0, <2>6 DEF BaseInv, LogTypeOK
  <2>9. commit_index'[n] <= Len(applied'[n])
    BY <2>1, <2>5, <2>6 DEF Larger
  <2>10. AppliedFits'
    BY <2>6, <2>9 DEF BaseInv, AppliedFits
  <2>11. QED
    BY <1>2, <2>7, <2>8, <2>10 DEF Kinds, QuietKind
<1>5. QED
  BY <1>3, <1>4

\* Every step is of one of the four kinds.
LEMMA EveryKind ==
    ASSUME BaseInv, [Next]_vars
    PROVE  Kinds
<1>1. ASSUME Fits, Quiet, UNCHANGED <<commit_index, applied, calls, sent>> PROVE Kinds
  BY <1>1 DEF Kinds, QuietKind, Quiet, BaseInv, LogTypeOK, AppliedFits
<1>2. ASSUME NEW n \in Nodes, start_election(n) PROVE Kinds
  BY <1>1, <1>2, StartFits DEF start_election, logVars, clientVars
<1>3. ASSUME NEW n \in Nodes, StartHeartbeats(n) PROVE Kinds
  <2> DEFINE r == [pc |-> "beating", peer |-> NextPeer(n, 0), voters |-> {}]
  <2>1. r.pc = "beating"
    OBVIOUS
  <2>2. /\ loop' = [loop EXCEPT ![n] = r] /\ state[n] = "LEADER"
        /\ UNCHANGED <<state, current_term, elected, log, commit_index, applied, next_index,
                       match_index, misplaced, calls, sent>>
    BY <1>3 DEF StartHeartbeats, raftVars, logVars, leaderVars, clientVars, history
  <2> HIDE DEF r
  <2>3. Fits /\ LeadersStay /\ VotersGrow
    BY <2>1, <2>2, CalmFits
  <2>4. QED
    BY <1>1, <2>2, <2>3 DEF Quiet
<1>4. ASSUME NEW n \in Nodes, RequestVote(n) PROVE Kinds
  BY <1>1, <1>4, RequestVoteFits DEF RequestVote, logVars, clientVars
<1>5. ASSUME NEW n \in Nodes, RequestVoteStale(n) \/ AppendEntriesStale(n) PROVE Kinds
  <2> DEFINE p == loop[n].peer
  <2>1. /\ p \in Nodes /\ current_term[p] > current_term[n] /\ StepDown(n, current_term[p])
        /\ UNCHANGED <<log, commit_index, applied, next_index, match_index, misplaced, calls,
                       sent, elected>>
    BY <1>5 DEF RequestVoteStale, AppendEntriesStale, Calls, logVars, leaderVars, clientVars, history
  <2> HIDE DEF p
  <2>2. QED
    BY <1>1, <2>1, StaleFits
<1>6. ASSUME NEW n \in Nodes, become_leader(n) PROVE Kinds
  <2>1. Fits /\ Leads(n) /\ next_index' \in [Nodes -> [Nodes -> Nat \ {0}]]
        /\ match_index' \in [Nodes -> [Nodes -> Nat]]
    BY <1>6, LeadFits
  <2>2. UNCHANGED <<log, commit_index, applied, calls, sent, misplaced>>
    BY <2>1 DEF Leads
  <2>3. LogTypeOK' /\ AppliedFits'
    BY <2>1, <2>2 DEF BaseInv, LogTypeOK, AppliedFits
  <2>4. QED
    BY <2>1, <2>3 DEF Kinds, LeadKind
<1>7. ASSUME NEW n \in Nodes, LoseElection(n) PROVE Kinds
  <2>1. Idle.pc = "idle"
    BY DEF Idle
  <2>2. /\ loop' = [loop EXCEPT ![n] = Idle]
        /\ UNCHANGED <<state, current_term, elected, log, commit_index, applied, next_index,
                       match_index, misplaced, calls, sent>>
    BY <1>7 DEF LoseElection, raftVars, logVars, leaderVars, clientVars, history
  <2>3. Fits /\ LeadersStay /\ VotersGrow
    BY <2>1, <2>2, CalmFits
  <2>4. QED
    BY <1>1, <2>2, <2>3 DEF Quiet
<1>8. ASSUME NEW n \in Nodes, AppendEntries(n) PROVE Kinds
  <2>1. /\ Fits
        /\ \E p \in Nodes : /\ Sends(n, p)
                            /\ Accepted(n, p, next_index[n][p] - 1) \/ Refused(n, p, next_index[n][p] - 1)
        /\ log' \in [Nodes -> Seq(Entry)]
        /\ next_index' \in [Nodes -> [Nodes -> Nat \ {0}]]
        /\ match_index' \in [Nodes -> [Nodes -> Nat]]
        /\ commit_index' \in [Nodes -> Nat]
        /\ applied' \in [Nodes -> Seq(Commands)]
        /\ AppliedFits'
    BY <1>8, SendFits
  <2>2. UNCHANGED <<misplaced, calls, sent>>
    BY <2>1 DEF Sends
  <2>3. LogTypeOK'
    BY <2>1, <2>2 DEF BaseInv, LogTypeOK
  <2>4. QED
    BY <2>1, <2>3 DEF Kinds, SendKind
<1>9. ASSUME NEW n \in Nodes, update_commit_index(n) PROVE Kinds
  BY <1>9, UpdateFits
<1>10. ASSUME NEW n \in Nodes, NEW c \in Commands, ReplicateCheck(n, c) PROVE Kinds
  <2>1. /\ UNCHANGED <<state, current_term, elected, log, commit_index, applied, next_index,
                       match_index, misplaced, loop>>
        /\ sent' = sent \cup {c} /\ calls' = calls \cup {<<n, c>>}
    BY <1>10 DEF ReplicateCheck, raftVars, logVars, leaderVars, history
  <2>2. Fits /\ Quiet
    BY <2>1, SMTT(30) DEF Fits, Quiet, LeadersStay, VotersGrow, BaseInv, RoundsFit, LeadersElected
  <2>3. LogTypeOK' /\ AppliedFits'
    BY <2>1, SMTT(30) DEF BaseInv, LogTypeOK, AppliedFits
  <2>4. QED
    BY <2>1, <2>2, <2>3 DEF Kinds, QuietKind
<1>11. ASSUME NEW n \in Nodes, NEW c \in Commands, ReplicateAppend(n, c) PROVE Kinds
  <2>1. Fits /\ Grows(n, c) /\ log' \in [Nodes -> Seq(Entry)]
        /\ match_index' \in [Nodes -> [Nodes -> Nat]]
        /\ calls' \subseteq calls /\ sent' = sent
    BY <1>11, GrowFits
  <2>2. UNCHANGED <<commit_index, applied, next_index>> /\ misplaced' \subseteq misplaced \cup {c}
    BY <2>1 DEF Grows
  <2>3. LogTypeOK' /\ AppliedFits'
    BY <2>1, <2>2 DEF BaseInv, LogTypeOK, AppliedFits
  <2>4. QED
    BY <2>1, <2>3 DEF Kinds, GrowKind
<1>12. CASE UNCHANGED vars
  <2>1. UNCHANGED <<state, current_term, elected, log, commit_index, applied, next_index,
                    match_index, misplaced, loop, calls, sent>>
    BY <1>12 DEF vars, raftVars, logVars, leaderVars, clientVars, history
  <2>2. Fits /\ Quiet
    BY <2>1 DEF Fits, Quiet, LeadersStay, VotersGrow, BaseInv, RoundsFit, LeadersElected
  <2>3. QED
    BY <1>1, <2>1, <2>2
<1>13. QED
  BY <1>2, <1>3, <1>4, <1>5, <1>6, <1>7, <1>8, <1>9, <1>10, <1>11, <1>12 DEF Next, RoundStep

\* The indices of a leader stay within its log.
LEMMA IndexKept ==
    ASSUME BaseInv, Kinds
    PROVE  IndexFit'
<1>1. \A n \in Nodes : Len(log[n]) \in Nat /\ log[n] \in Seq(Entry)
  BY LenProperties DEF BaseInv, LogTypeOK
<1>t. \A n, p \in Nodes : next_index[n][p] \in Nat /\ match_index[n][p] \in Nat
  BY DEF BaseInv, LogTypeOK
<1> SUFFICES ASSUME NEW m \in Nodes, NEW q \in Nodes, state'[m] = "LEADER"
             PROVE  next_index'[m][q] <= Len(log'[m]) + 1 /\ match_index'[m][q] <= Len(log'[m])
  BY DEF IndexFit
<1>2. CASE QuietKind
  BY <1>2 DEF QuietKind, Quiet, LeadersStay, BaseInv, IndexFit
<1>3. CASE LeadKind
  <2> PICK n \in Nodes : Leads(n)
    BY <1>3 DEF LeadKind
  <2>1. CASE m = n
    BY <2>1, <1>1 DEF Leads
  <2>2. CASE m # n
    BY <2>2 DEF Leads, BaseInv, IndexFit
  <2>3. QED
    BY <2>1, <2>2
<1>4. CASE GrowKind
  <2> PICK n \in Nodes, c \in Commands : Grows(n, c)
    BY <1>4 DEF GrowKind
  <2>0. /\ state[m] = "LEADER"
        /\ next_index[m][q] <= Len(log[m]) + 1 /\ match_index[m][q] <= Len(log[m])
    BY DEF Grows, BaseInv, IndexFit
  <2>1. CASE m = n
    <3>1. [term |-> current_term[n], command |-> c] \in Entry
      BY DEF Entry, BaseInv, VoteInv, VoteTypeOK
    <3>2. Len(log'[n]) = Len(log[n]) + 1
      BY <3>1, <1>1, AppendProperties DEF Grows
    <3>3. next_index'[n][q] = next_index[n][q]
          /\ match_index'[n][q] \in {match_index[n][q], Len(log[n]) + 1}
      BY DEF Grows
    <3>4. QED
      BY <2>0, <2>1, <3>2, <3>3, <1>1, <1>t
  <2>2. CASE m # n
    BY <2>0, <2>2 DEF Grows
  <2>3. QED
    BY <2>1, <2>2
<1>5. CASE SendKind
  <2> PICK n \in Nodes, p \in Nodes :
        /\ Sends(n, p)
        /\ Accepted(n, p, next_index[n][p] - 1) \/ Refused(n, p, next_index[n][p] - 1)
    BY <1>5 DEF SendKind
  <2>0. m # p /\ state[m] = "LEADER" /\ log'[m] = log[m]
        /\ next_index[m][q] <= Len(log[m]) + 1 /\ match_index[m][q] <= Len(log[m])
    BY DEF Sends, BaseInv, IndexFit
  <2>1. CASE m = n /\ q = p
    <3>1. CASE Accepted(n, p, next_index[n][p] - 1)
      BY <2>0, <2>1, <3>1, <1>1 DEF Accepted
    <3>2. CASE Refused(n, p, next_index[n][p] - 1)
      <4>1. next_index'[n][p] <= next_index[n][p] /\ match_index'[n][p] = match_index[n][p]
        BY <3>2 DEF Refused
      <4>2. next_index'[n][p] \in Nat
        BY DEF Kinds, LogTypeOK
      <4>3. QED
        BY <2>0, <2>1, <4>1, <4>2, <1>1, <1>t
    <3>3. QED
      BY <3>1, <3>2
  <2>2. CASE ~ (m = n /\ q = p)
    BY <2>0, <2>2 DEF Sends
  <2>3. QED
    BY <2>1, <2>2
<1>6. QED
  BY <1>2, <1>3, <1>4, <1>5 DEF Kinds

\* A new cluster satisfies BaseInv.
LEMMA BaseInit == Init => BaseInv
<1> SUFFICES ASSUME Init PROVE BaseInv
  OBVIOUS
<1>1. VoteInv
  BY VoteInit
<1>2. Idle.pc = "idle"
  BY DEF Idle
<1>3. <<>> \in Seq(Entry) /\ <<>> \in Seq(Commands) /\ Len(<<>>) = 0
  BY EmptySeq
<1>4. LogTypeOK
  BY <1>3 DEF Init, LogTypeOK
<1>5. AppliedFits /\ RoundsFit /\ LeadersElected /\ IndexFit
  BY <1>2, <1>3 DEF Init, AppliedFits, RoundsFit, LeadersElected, IndexFit
<1>6. QED
  BY <1>1, <1>4, <1>5 DEF BaseInv

\* Every step keeps BaseInv.
LEMMA BaseNext == BaseInv /\ [Next]_vars => BaseInv'
<1> SUFFICES ASSUME BaseInv, [Next]_vars PROVE BaseInv'
  OBVIOUS
<1>1. VoteInv'
  BY VoteNext DEF BaseInv
<1>2. Kinds
  BY EveryKind
<1>3. IndexFit'
  BY <1>2, IndexKept
<1>4. QED
  BY <1>1, <1>2, <1>3 DEF BaseInv, Kinds, Fits

-----------------------------------------------------------------------------
(* Log matching.                                                           *)

\* Node m has an entry of term t at position i.
Holds(m, i, t) == i \in 1 .. Len(log[m]) /\ log[m][i].term = t

\* Terms do not decrease along a log.
TermsOrdered ==
    \A n \in Nodes : \A j \in 1 .. Len(log[n]) : \A i \in 1 .. j :
        log[n][i].term <= log[n][j].term

\* No entry is of a term its node has not reached.
TermsBelow ==
    \A n \in Nodes : \A i \in 1 .. Len(log[n]) : log[n][i].term <= current_term[n]

\* The term of an entry had a leader.
EntryElected ==
    \A n \in Nodes : \A i \in 1 .. Len(log[n]) :
        \E m \in Nodes : <<log[n][i].term, m>> \in elected

\* A leader has every entry of its term.
LeaderHasOwn ==
    \A n, m \in Nodes : \A i \in 1 .. Len(log[m]) :
        state[n] = "LEADER" /\ log[m][i].term = current_term[n]
            => Holds(n, i, current_term[n])

\* The entries of a term are there without gaps: a log that has one at j has
\* those before j that any other log has.
SameTerm ==
    \A m, n \in Nodes : \A j \in 1 .. Len(log[n]) : \A i \in 1 .. j :
        Holds(m, i, log[n][j].term) => Holds(n, i, log[n][j].term)

\* Equal position and term, equal entries up to there.
Matching ==
    \A m, n \in Nodes : \A j \in 1 .. Len(log[n]) :
        Holds(m, j, log[n][j].term) => \A k \in 1 .. j : log[m][k] = log[n][k]

\* What holds of the logs while no command was misplaced.
LogInv ==
    /\ TermsOrdered
    /\ TermsBelow
    /\ EntryElected
    /\ LeaderHasOwn
    /\ SameTerm
    /\ Matching

\* The new log of m is the beginning of what x had.
Begins(m, x) ==
    /\ Len(log'[m]) <= Len(log[x])
    /\ \A k \in 1 .. Len(log'[m]) : log'[m][k] = log[x][k]

\* All that n has is now in the log of p.
Covers(n, p) ==
    /\ Len(log[n]) <= Len(log'[p])
    /\ \A k \in 1 .. Len(log[n]) : log'[p][k] = log[n][k]

\* What AppendEntries makes of the log of p: no entry comes from elsewhere,
\* nothing goes that n has too.
Overwrites(n, p) ==
    /\ \E x \in {n, p} : Begins(p, x)
    /\ \A k \in 1 .. Len(log[p]) :
          k <= Len(log[n]) /\ log[n][k].term = log[p][k].term
              => k <= Len(log'[p]) /\ \A h \in 1 .. k : log'[p][h] = log[p][h]

\* The types of the logs, for the proofs that need no more.
LEMMA LogTypes ==
    ASSUME BaseInv
    PROVE  \A n \in Nodes :
              /\ log[n] \in Seq(Entry) /\ Len(log[n]) \in Nat /\ current_term[n] \in Nat
              /\ \A i \in 1 .. Len(log[n]) : log[n][i] \in Entry /\ log[n][i].term \in Nat
<1>1. \A n \in Nodes : log[n] \in Seq(Entry) /\ Len(log[n]) \in Nat /\ current_term[n] \in Nat
  BY LenProperties DEF BaseInv, LogTypeOK, VoteInv, VoteTypeOK
<1>2. \A e \in Entry : e.term \in Nat
  BY DEF Entry
<1>3. QED
  BY <1>1, <1>2

\* Both outcomes of AppendEntries overwrite p so.
LEMMA SendOverwrites ==
    ASSUME BaseInv, LogInv, NEW n \in Nodes, NEW p \in Nodes, Sends(n, p),
           Accepted(n, p, next_index[n][p] - 1) \/ Refused(n, p, next_index[n][p] - 1)
    PROVE  /\ Overwrites(n, p)
           /\ Accepted(n, p, next_index[n][p] - 1) => Covers(n, p)
<1> DEFINE prev == next_index[n][p] - 1
<1>1. /\ log[n] \in Seq(Entry) /\ Len(log[n]) \in Nat
      /\ log[p] \in Seq(Entry) /\ Len(log[p]) \in Nat
  BY LogTypes
<1>2. prev \in Nat
  BY SMTT(30) DEF BaseInv, LogTypeOK
<1>3. \A k \in 1 .. Len(log[p]) : k <= Len(log[n]) /\ log[p][k].term = log[n][k].term
          => \A h \in 1 .. k : log[p][h] = log[n][h]
  <2> TAKE k \in 1 .. Len(log[p])
  <2>1. HAVE k <= Len(log[n]) /\ log[p][k].term = log[n][k].term
  <2>2. k \in 1 .. Len(log[n])
    BY <2>1, <1>1
  <2>3. Holds(p, k, log[n][k].term)
    BY <2>1 DEF Holds
  <2>4. QED
    BY <2>2, <2>3 DEF LogInv, Matching
<1> HIDE DEF prev
<1>4. CASE Accepted(n, p, prev)
  <2>1. /\ prev <= Len(log[p]) /\ prev <= Len(log[n])
        /\ prev = 0 \/ log[p][prev].term = log[n][prev].term
        /\ log'[p] = Appended(log[p], prev, SubSeq(log[n], prev + 1, Len(log[n])))
    BY <1>4 DEF Accepted
  <2>2. /\ log'[p] \in Seq(Entry)
        /\ Len(log'[p]) >= Len(log[n])
        /\ \A k \in 1 .. Len(log[n]) : log'[p][k] = log[n][k]
        /\ Len(log'[p]) = Len(log[n]) \/ log'[p] = log[p]
    <3>1. Match(log[p], log[n])
      BY <1>3, Zenon DEF Match
    <3>2. Took(log[p], log[n], log'[p])
      BY <2>1, <1>1, <1>2, <3>1, AppendedTo
    <3>3. QED
      BY <3>2, Zenon DEF Took
  <2>3. Len(log'[p]) \in Nat
    BY <2>2, LenProperties
  <2>4. Covers(n, p)
    BY <2>2, <2>3, <1>1 DEF Covers
  <2>5. \E x \in {n, p} : Begins(p, x)
    <3>1. CASE Len(log'[p]) = Len(log[n])
      BY <3>1, <2>2, <1>1 DEF Begins
    <3>2. CASE log'[p] = log[p]
      BY <3>2, <1>1 DEF Begins
    <3>3. QED
      BY <2>2, <3>1, <3>2
  <2>6. ASSUME NEW k \in 1 .. Len(log[p]), k <= Len(log[n]), log[n][k].term = log[p][k].term
        PROVE  k <= Len(log'[p]) /\ \A h \in 1 .. k : log'[p][h] = log[p][h]
    <3>1. \A h \in 1 .. k : log[p][h] = log[n][h]
      BY <2>6, <1>3
    <3>2. \A h \in 1 .. k : h \in 1 .. Len(log[n])
      BY <2>6, <1>1
    <3>3. QED
      BY <2>2, <2>3, <2>6, <3>1, <3>2, <1>1
  <2>7. QED
    BY <2>4, <2>5, <2>6 DEF Overwrites
<1>5. CASE Refused(n, p, prev) /\ ~ Accepted(n, p, prev)
  <2>1. CASE log'[p] = log[p]
    <3>1. Begins(p, p)
      BY <2>1, <1>1 DEF Begins
    <3>2. QED
      BY <2>1, <3>1, <1>1, <1>5 DEF Overwrites, prev
  <2>2. CASE /\ prev <= Len(log[p]) /\ log[p][prev].term # log[n][prev].term
             /\ log'[p] = SubSeq(log[p], 1, prev - 1)
    <3>0. prev \in 1 .. Len(log[n])
      BY <1>5 DEF Refused
    <3>1. \A k \in 1 .. (prev - 1) : log[p][k] \in Entry
      BY <2>2, <1>1, <1>2
    <3>2. Len(log'[p]) = prev - 1 /\ \A k \in 1 .. (prev - 1) : log'[p][k] = log[p][k]
      <4>1. /\ Len(log'[p]) = IF 1 <= prev - 1 THEN prev - 1 - 1 + 1 ELSE 0
            /\ \A i \in 1 .. (prev - 1 - 1 + 1) : log'[p][i] = log[p][1 + i - 1]
        BY <2>2, <3>1, <1>2, SubSeqProperties
      <4>2. prev - 1 - 1 + 1 = prev - 1 /\ \A i \in 1 .. (prev - 1) : 1 + i - 1 = i
        BY <1>2
      <4>3. QED
        BY <4>1, <4>2, <3>0, <1>1
    <3>3. Begins(p, p)
      BY <2>2, <3>0, <3>2, <1>1 DEF Begins
    <3>4. ASSUME NEW k \in 1 .. Len(log[p]), k <= Len(log[n]), log[n][k].term = log[p][k].term
          PROVE  k <= Len(log'[p]) /\ \A h \in 1 .. k : log'[p][h] = log[p][h]
      <4>1. \A h \in 1 .. k : log[p][h] = log[n][h]
        BY <3>4, <1>3
      <4>2. ~ (prev \in 1 .. k)
        BY <4>1, <2>2
      <4>3. k < prev
        BY <4>2, <3>0, <1>1
      <4>4. QED
        BY <4>3, <3>0, <3>2, <1>1
    <3>5. QED
      BY <3>3, <3>4, <1>5 DEF Overwrites, prev
  <2>3. QED
    BY <2>1, <2>2, <1>5 DEF Refused
<1>6. QED
  BY <1>4, <1>5 DEF prev

\* Beginnings of logs that match still match.
LEMMA PrefixKeeps ==
    ASSUME BaseInv, BaseInv', LogInv, elected \subseteq elected',
           \A m \in Nodes : \E x \in Nodes : Begins(m, x)
    PROVE  TermsOrdered' /\ EntryElected' /\ SameTerm' /\ Matching'
<1>1. \A n \in Nodes : /\ Len(log[n]) \in Nat /\ Len(log'[n]) \in Nat
                       /\ \A i \in 1 .. Len(log[n]) : log[n][i].term \in Nat
  <2>1. \A n \in Nodes : /\ Len(log[n]) \in Nat
                         /\ \A i \in 1 .. Len(log[n]) : log[n][i].term \in Nat
    BY LogTypes
  <2>2. \A n \in Nodes : Len(log'[n]) \in Nat
    BY LenProperties DEF BaseInv, LogTypeOK
  <2>3. QED
    BY <2>1, <2>2
<1>2. TermsOrdered'
  <2> SUFFICES ASSUME NEW n \in Nodes, NEW j \in 1 .. Len(log'[n]), NEW i \in 1 .. j
               PROVE  log'[n][i].term <= log'[n][j].term
    BY DEF TermsOrdered
  <2>1. PICK x \in Nodes : Begins(n, x)
    OBVIOUS
  <2>2. j \in 1 .. Len(log[x]) /\ i \in 1 .. Len(log'[n])
    BY <2>1, <1>1 DEF Begins
  <2>3. QED
    BY <2>1, <2>2 DEF Begins, LogInv, TermsOrdered
<1>3. EntryElected'
  <2> SUFFICES ASSUME NEW n \in Nodes, NEW i \in 1 .. Len(log'[n])
               PROVE  \E m \in Nodes : <<log'[n][i].term, m>> \in elected'
    BY DEF EntryElected
  <2>1. PICK x \in Nodes : Begins(n, x)
    OBVIOUS
  <2>2. i \in 1 .. Len(log[x]) /\ log'[n][i] = log[x][i]
    BY <2>1, <1>1 DEF Begins
  <2>3. QED
    BY <2>2 DEF LogInv, EntryElected
<1>4. SameTerm'
  <2> SUFFICES ASSUME NEW m \in Nodes, NEW n \in Nodes, NEW j \in 1 .. Len(log'[n]),
                      NEW i \in 1 .. j, i \in 1 .. Len(log'[m]), log'[m][i].term = log'[n][j].term
               PROVE  i \in 1 .. Len(log'[n]) /\ log'[n][i].term = log'[n][j].term
    BY SMTT(30) DEF SameTerm, Holds
  <2>1. PICK x \in Nodes : Begins(m, x)
    OBVIOUS
  <2>2. PICK y \in Nodes : Begins(n, y)
    OBVIOUS
  <2>3. i \in 1 .. Len(log'[n])
    BY <1>1
  <2>4. i \in 1 .. Len(log[x]) /\ j \in 1 .. Len(log[y]) /\ log'[m][i] = log[x][i]
        /\ log'[n][j] = log[y][j] /\ log'[n][i] = log[y][i]
    BY <2>1, <2>2, <2>3, <1>1 DEF Begins
  <2>5. Holds(x, i, log[y][j].term)
    BY <2>4 DEF Holds
  <2>6. Holds(y, i, log[y][j].term)
    BY <2>4, <2>5 DEF LogInv, SameTerm
  <2>7. QED
    BY <2>3, <2>4, <2>6 DEF Holds
<1>5. Matching'
  <2> SUFFICES ASSUME NEW m \in Nodes, NEW n \in Nodes, NEW j \in 1 .. Len(log'[n]),
                      j \in 1 .. Len(log'[m]), log'[m][j].term = log'[n][j].term,
                      NEW k \in 1 .. j
               PROVE  log'[m][k] = log'[n][k]
    BY DEF Matching, Holds
  <2>1. PICK x \in Nodes : Begins(m, x)
    OBVIOUS
  <2>2. PICK y \in Nodes : Begins(n, y)
    OBVIOUS
  <2>3. k \in 1 .. Len(log'[n]) /\ k \in 1 .. Len(log'[m])
    BY <1>1
  <2>4. j \in 1 .. Len(log[x]) /\ j \in 1 .. Len(log[y]) /\ log'[m][j] = log[x][j]
        /\ log'[n][j] = log[y][j] /\ log'[n][k] = log[y][k] /\ log'[m][k] = log[x][k]
    BY <2>1, <2>2, <2>3, <1>1 DEF Begins
  <2>5. Holds(x, j, log[y][j].term)
    BY <2>4 DEF Holds
  <2>6. log[x][k] = log[y][k]
    BY <2>4, <2>5 DEF LogInv, Matching
  <2>7. QED
    BY <2>4, <2>6
<1>6. QED
  BY <1>2, <1>3, <1>4, <1>5

\* Two nodes that lead in one term are the same.
LEMMA LeaderUnique ==
    ASSUME BaseInv, NEW m \in Nodes, NEW n \in Nodes, state[m] = "LEADER",
           state[n] = "LEADER", current_term[m] = current_term[n]
    PROVE  m = n
<1>1. ElectionSafety
  BY OneLeader DEF BaseInv
<1>2. <<current_term[m], m>> \in elected /\ <<current_term[m], n>> \in elected
  BY DEF BaseInv, LeadersElected
<1>3. QED
  BY <1>1, <1>2 DEF ElectionSafety

\* The term that a candidate wins had no leader.
LEMMA NobodyElected ==
    ASSUME BaseInv, NEW n \in Nodes, Leads(n), NEW y \in Nodes
    PROVE  <<current_term[n], y>> \notin elected
<1> SUFFICES ASSUME <<current_term[n], y>> \in elected PROVE FALSE
  OBVIOUS
<1>1. PICK Q \in SUBSET Nodes : /\ Majority(Cardinality(Q))
                                /\ \A q \in Q : Supports(q, current_term[n], y)
  BY DEF BaseInv, VoteInv, LeadersSupported
<1>2. loop[n].voters \in SUBSET Nodes /\ Majority(Cardinality(loop[n].voters))
      /\ \A q \in loop[n].voters : Supports(q, current_term[n], n)
  BY DEF Leads, BaseInv, VoteInv, VoteTypeOK, Round, VotersSupport
<1>3. PICK q \in Q : q \in loop[n].voters
  BY <1>1, <1>2, MajoritiesMeet
<1>4. <<current_term[n], q, y>> \in ballots /\ <<current_term[n], q, n>> \in ballots
  BY <1>1, <1>2, <1>3 DEF Supports
<1>5. y = n
  BY <1>4 DEF BaseInv, VoteInv, OneBallot
<1>6. QED
  BY <1>5 DEF Leads

\* Steps that leave the logs alone keep what is said of them.
LEMMA LogKeptSame ==
    ASSUME BaseInv, BaseInv', LogInv, VotesMove, QuietKind \/ LeadKind
    PROVE  LogInv'
<1>0. log' = log /\ elected \subseteq elected'
  BY DEF QuietKind, Quiet, LeadKind, Leads
<1>1. \A n \in Nodes : current_term'[n] >= current_term[n]
  BY DEF VotesMove
<1>2. \A m \in Nodes : Begins(m, m)
  BY <1>0, LogTypes DEF Begins
<1>3. TermsOrdered' /\ EntryElected' /\ SameTerm' /\ Matching'
  BY <1>0, <1>2, PrefixKeeps
<1>4. TermsBelow'
  <2>1. \A n \in Nodes : current_term[n] \in Nat /\ current_term'[n] \in Nat
    BY DEF BaseInv, VoteInv, VoteTypeOK
  <2>2. \A n \in Nodes : \A i \in 1 .. Len(log[n]) : log[n][i].term \in Nat
    BY LogTypes
  <2>3. QED
    BY <1>0, <1>1, <2>1, <2>2 DEF LogInv, TermsBelow
<1>5. LeaderHasOwn'
  <2> SUFFICES ASSUME NEW n \in Nodes, NEW m \in Nodes, NEW i \in 1 .. Len(log'[m]),
                      state'[n] = "LEADER", log'[m][i].term = current_term'[n]
               PROVE  i \in 1 .. Len(log'[n]) /\ log'[n][i].term = current_term'[n]
    BY DEF LeaderHasOwn, Holds
  <2>1. CASE state[n] = "LEADER" /\ current_term'[n] = current_term[n]
    <3>1. Holds(n, i, current_term[n])
      BY <1>0, <2>1 DEF LogInv, LeaderHasOwn
    <3>2. QED
      BY <1>0, <2>1, <3>1 DEF Holds
  <2>2. CASE Leads(n)
    <3>1. current_term'[n] = current_term[n]
      BY <2>2 DEF Leads
    <3>2. PICK y \in Nodes : <<log[m][i].term, y>> \in elected
      BY <1>0 DEF LogInv, EntryElected
    <3>3. <<current_term[n], y>> \notin elected
      BY <2>2, NobodyElected
    <3>4. QED
      BY <1>0, <3>1, <3>2, <3>3
  <2>3. (state[n] = "LEADER" /\ current_term'[n] = current_term[n]) \/ Leads(n)
    <3>1. CASE QuietKind
      BY <3>1 DEF QuietKind, Quiet, LeadersStay
    <3>2. CASE LeadKind
      BY <3>2 DEF LeadKind, Leads
    <3>3. QED
      BY <3>1, <3>2
  <2>4. QED
    BY <2>1, <2>2, <2>3
<1>6. QED
  BY <1>3, <1>4, <1>5 DEF LogInv

\* AppendEntries keeps it: only beginnings of old logs are left.
LEMMA LogKeptSend ==
    ASSUME BaseInv, BaseInv', LogInv, NEW n \in Nodes, NEW p \in Nodes,
           Sends(n, p), Overwrites(n, p)
    PROVE  LogInv'
<1>0. \A m \in Nodes : Len(log[m]) \in Nat /\ current_term[m] \in Nat
                       /\ \A i \in 1 .. Len(log[m]) : log[m][i].term \in Nat
  BY LogTypes
<1>l. \A m \in Nodes : Len(log'[m]) \in Nat
  BY LenProperties DEF BaseInv, LogTypeOK
<1>1. PICK x \in {n, p} : Begins(p, x)
  BY DEF Overwrites
<1>2. \A m \in Nodes : m # p => Begins(m, m)
  BY <1>0 DEF Sends, Begins
<1>3. \A m \in Nodes : \E y \in Nodes : Begins(m, y)
  BY <1>1, <1>2
<1>4. TermsOrdered' /\ EntryElected' /\ SameTerm' /\ Matching'
  BY <1>3, PrefixKeeps DEF Sends
<1>5. TermsBelow'
  <2> SUFFICES ASSUME NEW m \in Nodes, NEW i \in 1 .. Len(log'[m])
               PROVE  log'[m][i].term <= current_term'[m]
    BY DEF TermsBelow
  <2>1. CASE m # p
    BY <2>1 DEF Sends, LogInv, TermsBelow
  <2>2. CASE m = p
    <3>1. i \in 1 .. Len(log[x]) /\ log'[p][i] = log[x][i]
      BY <2>2, <1>0, <1>1, <1>l DEF Begins
    <3>2. log[x][i].term <= current_term[x] /\ log[x][i].term \in Nat
      BY <3>1, <1>0 DEF LogInv, TermsBelow
    <3>3. current_term[x] <= current_term'[p]
      BY <1>0 DEF Sends
    <3>4. current_term'[p] \in Nat
      BY <1>0 DEF Sends
    <3>5. QED
      BY <2>2, <3>1, <3>2, <3>3, <3>4, <1>0
  <2>3. QED
    BY <2>1, <2>2
<1>6. LeaderHasOwn'
  <2> SUFFICES ASSUME NEW a \in Nodes, NEW m \in Nodes, NEW i \in 1 .. Len(log'[m]),
                      state'[a] = "LEADER", log'[m][i].term = current_term'[a]
               PROVE  i \in 1 .. Len(log'[a]) /\ log'[a][i].term = current_term'[a]
    BY DEF LeaderHasOwn, Holds
  <2>1. a # p /\ state[a] = "LEADER" /\ current_term'[a] = current_term[a] /\ log'[a] = log[a]
    BY DEF Sends
  <2>2. PICK y \in Nodes : Begins(m, y)
    BY <1>3
  <2>3. i \in 1 .. Len(log[y]) /\ log'[m][i] = log[y][i]
    BY <2>2, <1>0, <1>l DEF Begins
  <2>4. Holds(a, i, current_term[a])
    BY <2>1, <2>3 DEF LogInv, LeaderHasOwn
  <2>5. QED
    BY <2>1, <2>4 DEF Holds
<1>7. QED
  BY <1>4, <1>5, <1>6 DEF LogInv

\* What replicate makes of a leader's log.
LEMMA GrowLog ==
    ASSUME BaseInv, NEW n \in Nodes, NEW c \in Commands, Grows(n, c)
    PROVE  /\ Len(log'[n]) = Len(log[n]) + 1
           /\ log'[n][Len(log[n]) + 1].term = current_term[n]
           /\ \A i \in 1 .. Len(log[n]) : log'[n][i] = log[n][i]
<1> DEFINE e == [term |-> current_term[n], command |-> c]
<1>1. e \in Entry /\ e.term = current_term[n]
  BY DEF Entry, BaseInv, VoteInv, VoteTypeOK
<1>2. log[n] \in Seq(Entry) /\ log'[n] = Append(log[n], e)
  BY LogTypes DEF Grows
<1> HIDE DEF e
<1>3. QED
  BY <1>1, <1>2, AppendProperties

\* A leader's new entry keeps it: no other log has one of this term there.
LEMMA LogKeptGrow ==
    ASSUME BaseInv, BaseInv', LogInv, NEW n \in Nodes, NEW c \in Commands,
           Grows(n, c), state[n] = "LEADER"
    PROVE  LogInv'
<1> DEFINE L == Len(log[n])
           T == current_term[n]
<1>0. \A m \in Nodes : Len(log[m]) \in Nat /\ current_term[m] \in Nat
                       /\ \A i \in 1 .. Len(log[m]) : log[m][i].term \in Nat
  BY LogTypes
<1>1. /\ Len(log'[n]) = L + 1
      /\ log'[n][L + 1].term = T
      /\ \A i \in 1 .. L : log'[n][i] = log[n][i]
  BY GrowLog
<1>2. /\ \A m \in Nodes : m # n => log'[m] = log[m]
      /\ state' = state /\ current_term' = current_term /\ elected' = elected
  BY DEF Grows
<1>3. \A m \in Nodes : m # n => ~ Holds(m, L + 1, T)
  <2> SUFFICES ASSUME NEW m \in Nodes, Holds(m, L + 1, T) PROVE FALSE
    OBVIOUS
  <2>1. Holds(n, L + 1, T)
    BY DEF Holds, LogInv, LeaderHasOwn
  <2>2. QED
    BY <2>1, <1>0 DEF Holds
<1> HIDE DEF L, T
<1>L. L \in Nat /\ T \in Nat /\ Len(log[n]) = L /\ current_term[n] = T
  BY <1>0 DEF L, T
<1>h. \A m \in Nodes : \A i \in 1 .. Len(log'[m]) :
        \/ m = n /\ i = L + 1
        \/ i \in 1 .. Len(log[m]) /\ log'[m][i] = log[m][i]
  BY <1>0, <1>1, <1>2, <1>L
<1>4. TermsOrdered'
  <2> SUFFICES ASSUME NEW m \in Nodes, NEW j \in 1 .. Len(log'[m]), NEW i \in 1 .. j
               PROVE  log'[m][i].term <= log'[m][j].term
    BY DEF TermsOrdered
  <2>1. CASE m # n
    BY <2>1, <1>2 DEF LogInv, TermsOrdered
  <2>2. CASE m = n /\ j <= L
    BY <2>2, <1>1, <1>L, SMTT(30) DEF LogInv, TermsOrdered
  <2>3. CASE m = n /\ j = L + 1
    <3>1. \A k \in 1 .. L : log[n][k].term <= T
      BY <1>L DEF LogInv, TermsBelow
    <3>2. QED
      BY <2>3, <3>1, <1>1, <1>L
  <2>4. QED
    BY <2>1, <2>2, <2>3, <1>1, <1>L, SMTT(30)
<1>5. TermsBelow'
  BY <1>0, <1>1, <1>2, <1>L, SMTT(30) DEF LogInv, TermsBelow
<1>6. EntryElected'
  <2>1. <<T, n>> \in elected
    BY <1>L DEF BaseInv, LeadersElected
  <2>2. QED
    <3> SUFFICES ASSUME NEW m \in Nodes, NEW i \in 1 .. Len(log'[m])
                 PROVE  \E y \in Nodes : <<log'[m][i].term, y>> \in elected'
      BY DEF EntryElected
    <3>1. CASE m = n /\ i = L + 1
      BY <3>1, <2>1, <1>1, <1>2
    <3>2. CASE i \in 1 .. Len(log[m]) /\ log'[m][i] = log[m][i]
      BY <3>2, <1>2 DEF LogInv, EntryElected
    <3>3. QED
      BY <3>1, <3>2, <1>h
<1>7. LeaderHasOwn'
  <2> SUFFICES ASSUME NEW a \in Nodes, NEW m \in Nodes, NEW i \in 1 .. Len(log'[m]),
                      state[a] = "LEADER", log'[m][i].term = current_term[a]
               PROVE  i \in 1 .. Len(log'[a]) /\ log'[a][i].term = current_term[a]
    BY <1>2 DEF LeaderHasOwn, Holds
  <2>1. CASE m = n /\ i = L + 1
    <3>1. a = n
      BY <2>1, <1>1, <1>L, LeaderUnique
    <3>2. QED
      BY <3>1, <2>1
  <2>2. CASE i \in 1 .. Len(log[m]) /\ log'[m][i] = log[m][i]
    <3>1. Holds(a, i, current_term[a])
      BY <2>2 DEF LogInv, LeaderHasOwn
    <3>2. i \in 1 .. Len(log[a]) /\ log[a][i].term = current_term[a]
      BY <3>1 DEF Holds
    <3>3. CASE a = n
      BY <3>2, <3>3, <1>1, <1>L
    <3>4. CASE a # n
      BY <3>2, <3>4, <1>2
    <3>5. QED
      BY <3>3, <3>4
  <2>3. QED
    BY <2>1, <2>2, <1>h
<1>8. SameTerm'
  <2> SUFFICES ASSUME NEW m \in Nodes, NEW a \in Nodes, NEW j \in 1 .. Len(log'[a]),
                      NEW i \in 1 .. j, i \in 1 .. Len(log'[m]), log'[m][i].term = log'[a][j].term
               PROVE  i \in 1 .. Len(log'[a]) /\ log'[a][i].term = log'[a][j].term
    BY DEF SameTerm, Holds
  <2>0. i \in 1 .. Len(log'[a])
    BY <1>0, <1>1, <1>2, <1>L
  <2>1. CASE a = n /\ j = L + 1
    <3>1. CASE m = n
      BY <2>0, <2>1, <3>1
    <3>2. CASE m # n
      <4>1. i \in 1 .. Len(log[m]) /\ log[m][i].term = current_term[n]
        BY <2>1, <3>2, <1>1, <1>2, <1>L
      <4>2. Holds(n, i, T)
        BY <4>1, <1>L DEF LogInv, LeaderHasOwn
      <4>3. QED
        BY <2>0, <2>1, <4>2, <1>1, <1>L DEF Holds
    <3>3. QED
      BY <3>1, <3>2
  <2>2. CASE j \in 1 .. Len(log[a]) /\ log'[a][j] = log[a][j]
    <3>0. i \in 1 .. Len(log[a]) /\ log'[a][i] = log[a][i]
      <4>1. i \in 1 .. Len(log[a])
        BY <2>2, <1>0
      <4>2. CASE a = n
        BY <4>1, <4>2, <1>1, <1>L
      <4>3. CASE a # n
        BY <4>1, <4>3, <1>2
      <4>4. QED
        BY <4>2, <4>3
    <3>1. CASE m = n /\ i = L + 1
      <4>1. log[a][j].term = T
        BY <2>2, <3>1, <1>1
      <4>2. Holds(n, j, T)
        BY <4>1, <2>2, <1>L DEF LogInv, LeaderHasOwn
      <4>3. QED
        BY <4>2, <3>1, <1>L DEF Holds
    <3>2. CASE i \in 1 .. Len(log[m]) /\ log'[m][i] = log[m][i]
      <4>1. Holds(m, i, log[a][j].term)
        BY <2>2, <3>2 DEF Holds
      <4>2. Holds(a, i, log[a][j].term)
        BY <4>1, <2>2 DEF LogInv, SameTerm
      <4>3. QED
        BY <2>0, <2>2, <3>0, <4>2 DEF Holds
    <3>3. QED
      BY <3>1, <3>2, <1>h
  <2>3. QED
    BY <2>1, <2>2, <1>h
<1>9. Matching'
  <2> SUFFICES ASSUME NEW m \in Nodes, NEW a \in Nodes, NEW j \in 1 .. Len(log'[a]),
                      j \in 1 .. Len(log'[m]), log'[m][j].term = log'[a][j].term,
                      NEW k \in 1 .. j
               PROVE  log'[m][k] = log'[a][k]
    BY DEF Matching, Holds
  <2>1. CASE m = a
    BY <2>1
  <2>2. CASE m = n /\ a # n /\ j = L + 1
    BY <2>2, <1>1, <1>2, <1>3 DEF Holds
  <2>3. CASE a = n /\ m # n /\ j = L + 1
    BY <2>3, <1>1, <1>2, <1>3 DEF Holds
  <2>4. CASE /\ j \in 1 .. Len(log[m]) /\ log'[m][j] = log[m][j]
             /\ j \in 1 .. Len(log[a]) /\ log'[a][j] = log[a][j]
    <3>1. Holds(m, j, log[a][j].term)
      BY <2>4 DEF Holds
    <3>2. log[m][k] = log[a][k]
      BY <3>1, <2>4 DEF LogInv, Matching
    <3>3. k \in 1 .. Len(log[m]) /\ k \in 1 .. Len(log[a])
      BY <2>4, <1>0
    <3>4. QED
      BY <3>2, <3>3, <1>1, <1>2, <1>L
  <2>5. QED
    BY <2>1, <2>2, <2>3, <2>4, <1>h
<1>10. QED
  BY <1>4, <1>5, <1>6, <1>7, <1>8, <1>9 DEF LogInv

-----------------------------------------------------------------------------
(* Entries that stay.                                                      *)

\* Node m leads in a term after t, or has an entry of one.
Later(m, t) ==
    \/ state[m] = "LEADER" /\ current_term[m] > t
    \/ \E k \in 1 .. Len(log[m]) : log[m][k].term > t

\* The nodes of Q hold the entry of term t at j, and so does everybody who
\* comes after it or may yet win an election with a vote from Q.
Chosen(j, t, Q) ==
    /\ \A q \in Q : Holds(q, j, t) /\ current_term[q] >= t
    /\ \A m \in Nodes : Later(m, t) => Holds(m, j, t)
    /\ \A m \in Nodes : loop[m].pc = "electing" /\ current_term[m] > t
                           /\ loop[m].voters \cap Q # {} => Holds(m, j, t)

\* The leader n of term t will never have a majority for position i: too many
\* have moved on without it.
Blocked(n, i, t) ==
    \E Q \in SUBSET Nodes :
        /\ Majority(Cardinality(Q))
        /\ \A q \in Q : current_term[q] > t /\ match_index[n][q] < i

\* An entry of its own term that a leader holds is lost to it, or it has been
\* chosen by those that acknowledged it.
AckInv ==
    \A n \in Nodes, i, t \in Nat :
        state[n] = "LEADER" /\ current_term[n] = t /\ Holds(n, i, t) =>
            \/ Blocked(n, i, t)
            \/ \E Q \in SUBSET Nodes :
                  /\ \A q \in Nodes : match_index[n][q] >= i => q \in Q
                  /\ Chosen(i, t, Q)

\* Who voted for a candidate has reached its term.
LEMMA VoterTerms ==
    ASSUME BaseInv, NEW m \in Nodes, loop[m].pc = "electing", NEW v \in loop[m].voters
    PROVE  v \in Nodes /\ current_term[v] >= current_term[m]
<1>1. v \in Nodes /\ current_term[v] \in Nat /\ current_term[m] \in Nat
  BY DEF BaseInv, VoteInv, VoteTypeOK, Round
<1>2. <<current_term[m], v, m>> \in ballots
  BY DEF BaseInv, VoteInv, VotersSupport, Supports
<1>3. \/ current_term[v] > current_term[m]
      \/ current_term[v] = current_term[m]
  BY <1>2 DEF BaseInv, VoteInv, BallotsHeld
<1>4. QED
  BY <1>1, <1>3

\* A candidate with an up-to-date log holds what the voter holds, if those
\* that come later hold it.
LEMMA Carries ==
    ASSUME BaseInv, LogInv, NEW m \in Nodes, NEW v \in Nodes, UpToDate(m, v),
           NEW j \in Nat, NEW t \in Nat, Holds(v, j, t),
           Later(m, t) => Holds(m, j, t)
    PROVE  Holds(m, j, t)
<1>0. /\ Len(log[m]) \in Nat /\ Len(log[v]) \in Nat
      /\ \A i \in 1 .. Len(log[m]) : log[m][i].term \in Nat
      /\ \A i \in 1 .. Len(log[v]) : log[v][i].term \in Nat
  BY LogTypes
<1>1. j \in 1 .. Len(log[v]) /\ log[v][j].term = t /\ Len(log[v]) \in 1 .. Len(log[v])
  BY <1>0 DEF Holds
<1>2. LastTerm(v) = log[v][Len(log[v])].term
  BY <1>0, <1>1 DEF LastTerm
<1>3. t <= LastTerm(v) /\ LastTerm(v) \in Nat
  BY <1>0, <1>1, <1>2 DEF LogInv, TermsOrdered
<1>4. LastTerm(m) >= t /\ LastTerm(m) \in Nat
      /\ (LastTerm(m) = t => Len(log[m]) >= Len(log[v]))
      /\ (Len(log[m]) > 0 => LastTerm(m) = log[m][Len(log[m])].term)
  <2>1. CASE log[m] = <<>>
    <3>1. LastTerm(m) = 0 /\ Len(log[m]) = 0
      BY <2>1, EmptySeq DEF LastTerm
    <3>2. QED
      BY <3>1, <1>0, <1>3 DEF UpToDate
  <2>2. CASE log[m] # <<>>
    <3>1. LastTerm(m) = log[m][Len(log[m])].term
      BY <2>2 DEF LastTerm
    <3>2. Len(log[m]) > 0
      BY <2>2, <1>0, EmptySeq, LogTypes
    <3>3. LastTerm(m) \in Nat
      BY <3>1, <3>2, <1>0
    <3>4. QED
      BY <3>1, <3>3, <1>0, <1>3 DEF UpToDate
  <2>3. QED
    BY <2>1, <2>2
<1>5. CASE LastTerm(m) > t
  <2>1. Len(log[m]) > 0
    <3> SUFFICES ASSUME Len(log[m]) = 0 PROVE FALSE
      BY <1>0
    <3>1. log[m] = <<>>
      BY EmptySeq, LogTypes
    <3>2. QED
      BY <3>1, <1>5 DEF LastTerm
  <2>2. Len(log[m]) \in 1 .. Len(log[m]) /\ log[m][Len(log[m])].term > t
    BY <2>1, <1>0, <1>4, <1>5
  <2>3. Later(m, t)
    BY <2>2 DEF Later
  <2>4. QED
    BY <2>3
<1>6. CASE LastTerm(m) = t
  <2>1. Len(log[m]) \in 1 .. Len(log[m]) /\ log[m][Len(log[m])].term = t /\ j \in 1 .. Len(log[m])
    BY <1>0, <1>1, <1>4, <1>6
  <2>2. Holds(v, j, log[m][Len(log[m])].term)
    BY <2>1, <1>1 DEF Holds
  <2>3. QED
    BY <2>1, <2>2 DEF LogInv, SameTerm
<1>7. QED
  BY <1>4, <1>5, <1>6

\* A leader of a term not before t has what was chosen in it.
LEMMA LeaderHasChosen ==
    ASSUME BaseInv, LogInv, NEW j \in Nat, NEW t \in Nat, NEW Q \in SUBSET Nodes,
           Chosen(j, t, Q), NEW q \in Q, NEW n \in Nodes, state[n] = "LEADER",
           current_term[n] >= t
    PROVE  Holds(n, j, t)
<1>1. current_term[n] \in Nat
  BY LogTypes
<1>2. CASE current_term[n] > t
  BY <1>2 DEF Chosen, Later
<1>3. CASE current_term[n] = t
  <2>1. Holds(q, j, t) /\ q \in Nodes
    BY DEF Chosen
  <2>2. QED
    BY <1>3, <2>1 DEF Holds, LogInv, LeaderHasOwn
<1>4. QED
  BY <1>1, <1>2, <1>3

\* Another node of term t that holds the entry can join Q: it votes for no
\* candidate of a later term without leaving the term.
LEMMA ChosenJoin ==
    ASSUME BaseInv, NEW j \in Nat, NEW t \in Nat, NEW Q \in SUBSET Nodes,
           Chosen(j, t, Q), NEW p \in Nodes, Holds(p, j, t), current_term[p] = t
    PROVE  Chosen(j, t, Q \cup {p})
<1>1. \A q \in Q \cup {p} : Holds(q, j, t) /\ current_term[q] >= t
  BY DEF Chosen
<1>2. ASSUME NEW m \in Nodes, loop[m].pc = "electing", current_term[m] > t,
             loop[m].voters \cap (Q \cup {p}) # {}
      PROVE  Holds(m, j, t)
  <2>1. p \notin loop[m].voters
    <3> SUFFICES ASSUME p \in loop[m].voters PROVE FALSE
      OBVIOUS
    <3>1. current_term[p] >= current_term[m] /\ current_term[m] \in Nat
      BY <1>2, VoterTerms, LogTypes
    <3>2. QED
      BY <3>1, <1>2
  <2>2. loop[m].voters \cap Q # {}
    BY <1>2, <2>1
  <2>3. QED
    BY <1>2, <2>2 DEF Chosen
<1>3. QED
  BY <1>1, <1>2 DEF Chosen

\* A chosen entry stays chosen in a step that leaves the logs alone: a vote
\* from Q goes to a candidate that holds it.
LEMMA ChosenQuiet ==
    ASSUME BaseInv, BaseInv', LogInv, VotesMove, Quiet,
           NEW j \in Nat, NEW t \in Nat, NEW Q \in SUBSET Nodes, Chosen(j, t, Q)
    PROVE  Chosen(j, t, Q)'
<1>0. log' = log /\ \A m \in Nodes : current_term[m] \in Nat /\ current_term'[m] \in Nat
                                     /\ current_term'[m] >= current_term[m]
  BY DEF Quiet, VotesMove, BaseInv, VoteInv, VoteTypeOK
<1>1. \A m \in Nodes : Holds(m, j, t)' <=> Holds(m, j, t)
  BY <1>0 DEF Holds
<1>2. \A q \in Q : Holds(q, j, t)' /\ current_term'[q] >= t
  BY <1>0, <1>1 DEF Chosen
<1>3. ASSUME NEW m \in Nodes, Later(m, t)' PROVE Holds(m, j, t)'
  <2>1. Later(m, t)
    BY <1>0, <1>3 DEF Later, Quiet, LeadersStay
  <2>2. QED
    BY <2>1, <1>1 DEF Chosen
<1>4. ASSUME NEW m \in Nodes, loop'[m].pc = "electing", current_term'[m] > t,
             NEW v \in loop'[m].voters, v \in Q
      PROVE  Holds(m, j, t)'
  <2>1. CASE loop[m].pc = "electing" /\ v \in loop[m].voters /\ current_term'[m] = current_term[m]
    <3>1. Holds(m, j, t)
      BY <1>4, <2>1 DEF Chosen
    <3>2. QED
      BY <3>1, <1>1
  <2>2. CASE UpToDate(m, v)
    <3>1. Holds(v, j, t) /\ (Later(m, t) => Holds(m, j, t))
      BY <1>4 DEF Chosen
    <3>2. v \in Nodes
      BY <1>4
    <3>3. Holds(m, j, t)
      BY <2>2, <3>1, <3>2, Carries
    <3>4. QED
      BY <3>3, <1>1
  <2>3. QED
    BY <1>4, <2>1, <2>2 DEF Quiet, VotersGrow
<1>5. QED
  BY <1>2, <1>3, <1>4 DEF Chosen

\* It stays chosen when a leader is made, if that one has a vote from Q or is
\* of no later term.
LEMMA ChosenLead ==
    ASSUME BaseInv, NEW n \in Nodes, Leads(n),
           NEW j \in Nat, NEW t \in Nat, NEW Q \in SUBSET Nodes, Chosen(j, t, Q),
           current_term[n] > t => loop[n].voters \cap Q # {}
    PROVE  Chosen(j, t, Q)'
<1>0. log' = log /\ current_term' = current_term
  BY DEF Leads
<1>1. \A m \in Nodes : Holds(m, j, t)' <=> Holds(m, j, t)
  BY <1>0 DEF Holds
<1>2. \A q \in Q : Holds(q, j, t)' /\ current_term'[q] >= t
  BY <1>0, <1>1 DEF Chosen
<1>3. ASSUME NEW m \in Nodes, Later(m, t)' PROVE Holds(m, j, t)'
  <2>1. CASE Later(m, t)
    BY <2>1, <1>1 DEF Chosen
  <2>2. CASE m = n /\ current_term[n] > t
    <3>1. Holds(n, j, t)
      BY <2>2 DEF Leads, Chosen
    <3>2. QED
      BY <2>2, <3>1, <1>1
  <2>3. QED
    BY <1>0, <1>3, <2>1, <2>2 DEF Later, Leads
<1>4. ASSUME NEW m \in Nodes, loop'[m].pc = "electing", current_term'[m] > t,
             loop'[m].voters \cap Q # {}
      PROVE  Holds(m, j, t)'
  <2>1. loop'[m] = loop[m]
    BY <1>4 DEF Leads
  <2>2. Holds(m, j, t)
    BY <1>0, <1>4, <2>1 DEF Chosen
  <2>3. QED
    BY <2>2, <1>1
<1>5. QED
  BY <1>2, <1>3, <1>4 DEF Chosen

\* It stays chosen when a leader appends to its log.
LEMMA ChosenGrow ==
    ASSUME BaseInv, NEW n \in Nodes, NEW c \in Commands, Grows(n, c), state[n] = "LEADER",
           NEW j \in Nat, NEW t \in Nat, NEW Q \in SUBSET Nodes, Chosen(j, t, Q)
    PROVE  Chosen(j, t, Q)'
<1>0. state' = state /\ current_term' = current_term /\ loop' = loop
      /\ \A m \in Nodes : m # n => log'[m] = log[m]
  BY DEF Grows
<1>1. /\ Len(log'[n]) = Len(log[n]) + 1 /\ Len(log[n]) \in Nat
      /\ log'[n][Len(log[n]) + 1].term = current_term[n]
      /\ \A i \in 1 .. Len(log[n]) : log'[n][i] = log[n][i]
  BY GrowLog, LogTypes
<1>2. \A m \in Nodes : Holds(m, j, t) => Holds(m, j, t)'
  BY <1>0, <1>1 DEF Holds
<1>3. ASSUME NEW m \in Nodes, Later(m, t)' PROVE Later(m, t)
  <2>1. CASE m # n
    BY <1>0, <1>3, <2>1 DEF Later
  <2>2. CASE m = n
    <3>1. CASE state[n] = "LEADER" /\ current_term[n] > t
      BY <2>2, <3>1 DEF Later
    <3>2. CASE \E k \in 1 .. Len(log'[n]) : log'[n][k].term > t
      <4>1. PICK k \in 1 .. Len(log'[n]) : log'[n][k].term > t
        BY <3>2
      <4>2. CASE k \in 1 .. Len(log[n])
        BY <2>2, <4>1, <4>2, <1>1 DEF Later
      <4>3. CASE k = Len(log[n]) + 1
        BY <2>2, <4>1, <4>3, <1>1 DEF Later
      <4>4. QED
        BY <4>2, <4>3, <1>1
    <3>3. QED
      BY <1>0, <1>3, <2>2, <3>1, <3>2 DEF Later
  <2>3. QED
    BY <2>1, <2>2
<1>4. QED
  BY <1>0, <1>2, <1>3 DEF Chosen

\* It stays chosen under AppendEntries: the sender has it too, and so do the
\* logs that hold anything later.
LEMMA ChosenSend ==
    ASSUME BaseInv, BaseInv', LogInv, NEW n \in Nodes, NEW p \in Nodes,
           Sends(n, p), Overwrites(n, p),
           NEW j \in Nat, NEW t \in Nat, NEW Q \in SUBSET Nodes, Chosen(j, t, Q)
    PROVE  Chosen(j, t, Q)'
<1>0. \A m \in Nodes : /\ Len(log[m]) \in Nat /\ Len(log'[m]) \in Nat /\ current_term[m] \in Nat
                       /\ \A i \in 1 .. Len(log[m]) : log[m][i].term \in Nat
  <2>1. \A m \in Nodes : Len(log'[m]) \in Nat
    BY LenProperties DEF BaseInv, LogTypeOK
  <2>2. QED
    BY <2>1, LogTypes
<1>1. \A m \in Nodes : m # p => /\ log'[m] = log[m] /\ state'[m] = state[m]
                                /\ current_term'[m] = current_term[m]
  BY DEF Sends
<1>2. \A m \in Nodes : m # p => (Holds(m, j, t)' <=> Holds(m, j, t))
  BY <1>1 DEF Holds
<1>3. current_term'[p] = current_term[n] /\ current_term[n] >= current_term[p] /\ state'[p] # "LEADER"
      /\ state[n] = "LEADER"
  BY DEF Sends
<1>4. ASSUME p \in Q PROVE Holds(p, j, t)' /\ current_term'[p] >= t
  <2>1. Holds(p, j, t) /\ current_term[p] >= t
    BY <1>4 DEF Chosen
  <2>2. current_term[n] >= t
    BY <2>1, <1>0, <1>3
  <2>3. Holds(n, j, t)
    BY <1>3, <1>4, <2>2, LeaderHasChosen
  <2>4. j \in 1 .. Len(log[p]) /\ j <= Len(log[n]) /\ log[n][j].term = log[p][j].term
    BY <2>1, <2>3, <1>0 DEF Holds
  <2>5. j <= Len(log'[p]) /\ log'[p][j] = log[p][j]
    BY <2>4, <1>0 DEF Overwrites
  <2>6. QED
    BY <2>1, <2>2, <2>5, <1>0, <1>3 DEF Holds
<1>5. ASSUME Later(p, t)' PROVE Holds(p, j, t)'
  <2>1. PICK k \in 1 .. Len(log'[p]) : log'[p][k].term > t
    BY <1>3, <1>5 DEF Later
  <2>2. PICK x \in {n, p} : Begins(p, x)
    BY DEF Overwrites
  <2>3. k \in 1 .. Len(log[x]) /\ log[x][k].term > t /\ x \in Nodes
    BY <2>1, <2>2, <1>0 DEF Begins
  <2>4. Later(x, t)
    BY <2>3 DEF Later
  <2>5. Holds(x, j, t)
    BY <2>3, <2>4 DEF Chosen
  <2>6. j < k
    <3> SUFFICES ASSUME k <= j PROVE FALSE
      BY <2>1, <2>2, <1>0
    <3>1. log[x][k].term <= log[x][j].term
      BY <2>3, <2>5, <1>0 DEF Holds, LogInv, TermsOrdered
    <3>2. QED
      BY <3>1, <2>3, <2>5, <1>0 DEF Holds
  <2>7. j \in 1 .. Len(log'[p])
    BY <2>1, <2>5, <2>6, <1>0 DEF Holds
  <2>8. QED
    BY <2>2, <2>5, <2>7 DEF Holds, Begins
<1>6. \A q \in Q : Holds(q, j, t)' /\ current_term'[q] >= t
  BY <1>1, <1>2, <1>4 DEF Chosen
<1>7. ASSUME NEW m \in Nodes, Later(m, t)' PROVE Holds(m, j, t)'
  <2>1. CASE m = p
    BY <1>5, <1>7, <2>1
  <2>2. CASE m # p
    <3>1. Later(m, t)
      BY <1>1, <1>7, <2>2 DEF Later
    <3>2. QED
      BY <3>1, <2>2, <1>2 DEF Chosen
  <2>3. QED
    BY <2>1, <2>2
<1>8. ASSUME NEW m \in Nodes, loop'[m].pc = "electing", current_term'[m] > t,
             loop'[m].voters \cap Q # {}
      PROVE  Holds(m, j, t)'
  <2>1. m # n /\ loop'[m] = loop[m] /\ m # p
    BY <1>8 DEF Sends
  <2>2. Holds(m, j, t)
    BY <2>1, <1>1, <1>8 DEF Chosen
  <2>3. QED
    BY <2>1, <2>2, <1>2
<1>9. QED
  BY <1>6, <1>7, <1>8 DEF Chosen

MayJoin ==
    \A j, t \in Nat, Q \in SUBSET Nodes, p \in Nodes :
        Chosen(j, t, Q) /\ Holds(p, j, t) /\ current_term[p] = t => Chosen(j, t, Q \cup {p})

\* The same before and after a step.
LEMMA JoinAfter == BaseInv' => MayJoin'
<1>1. BaseInv => MayJoin
  BY ChosenJoin DEF MayJoin
<1>2. QED
  BY <1>1, PTL

\* Who has moved on cannot come back, and acknowledges nothing any more.
LEMMA BlockedStays ==
    ASSUME BaseInv, BaseInv', VotesMove, NEW n \in Nodes, NEW i \in Nat, NEW t \in Nat,
           Blocked(n, i, t),
           \A q \in Nodes : match_index'[n][q] # match_index[n][q] => current_term[q] <= t
    PROVE  Blocked(n, i, t)'
<1>1. PICK Q \in SUBSET Nodes :
        /\ Majority(Cardinality(Q))
        /\ \A q \in Q : current_term[q] > t /\ match_index[n][q] < i
  BY DEF Blocked
<1>2. \A q \in Nodes : current_term[q] \in Nat /\ current_term'[q] \in Nat
                       /\ current_term'[q] >= current_term[q]
  BY DEF BaseInv, VoteInv, VoteTypeOK, VotesMove
<1>3. \A q \in Q : current_term'[q] > t /\ match_index'[n][q] < i
  BY <1>1, <1>2
<1>4. QED
  BY <1>1, <1>3 DEF Blocked

\* A quiet step acknowledges nothing and unblocks nobody.
LEMMA AckQuiet ==
    ASSUME BaseInv, BaseInv', LogInv, AckInv, VotesMove, Quiet
    PROVE  AckInv'
<1> SUFFICES ASSUME NEW n \in Nodes, NEW i \in Nat, NEW t \in Nat,
                    state'[n] = "LEADER", current_term'[n] = t, Holds(n, i, t)'
             PROVE  \/ Blocked(n, i, t)'
                    \/ \E Q \in SUBSET Nodes :
                          /\ \A q \in Nodes : match_index'[n][q] >= i => q \in Q
                          /\ Chosen(i, t, Q)'
  BY DEF AckInv
<1>1. state[n] = "LEADER" /\ current_term[n] = t /\ match_index' = match_index /\ log' = log
  BY DEF Quiet, LeadersStay
<1>2. Holds(n, i, t)
  BY <1>1 DEF Holds
<1>3. CASE Blocked(n, i, t)
  BY <1>1, <1>3, BlockedStays
<1>4. CASE \E Q \in SUBSET Nodes :
              /\ \A q \in Nodes : match_index[n][q] >= i => q \in Q
              /\ Chosen(i, t, Q)
  <2>1. PICK Q \in SUBSET Nodes : /\ \A q \in Nodes : match_index[n][q] >= i => q \in Q
                                  /\ Chosen(i, t, Q)
    BY <1>4
  <2>2. Chosen(i, t, Q)'
    BY <2>1, ChosenQuiet
  <2>3. QED
    BY <1>1, <2>1, <2>2
<1>5. QED
  BY <1>1, <1>2, <1>3, <1>4 DEF AckInv

\* A new leader has no entry of its term; its voters, if none of them has
\* acknowledged another leader's entry, block that one.
LEMMA AckLead ==
    ASSUME BaseInv, BaseInv', LogInv, AckInv, VotesMove, NEW a \in Nodes, Leads(a)
    PROVE  AckInv'
<1> SUFFICES ASSUME NEW n \in Nodes, NEW i \in Nat, NEW t \in Nat,
                    state'[n] = "LEADER", current_term'[n] = t, Holds(n, i, t)'
             PROVE  \/ Blocked(n, i, t)'
                    \/ \E Q \in SUBSET Nodes :
                          /\ \A q \in Nodes : match_index'[n][q] >= i => q \in Q
                          /\ Chosen(i, t, Q)'
  BY DEF AckInv
<1>1. log' = log /\ current_term' = current_term
  BY DEF Leads
<1>2. Holds(n, i, t)
  BY <1>1 DEF Holds
<1>3. n # a
  <2> SUFFICES ASSUME n = a PROVE FALSE
    OBVIOUS
  <2>1. PICK y \in Nodes : <<log[a][i].term, y>> \in elected
    BY <1>2 DEF Holds, LogInv, EntryElected
  <2>2. <<current_term[a], y>> \notin elected
    BY NobodyElected
  <2>3. QED
    BY <2>1, <2>2, <1>1, <1>2 DEF Holds
<1>4. state[n] = "LEADER" /\ current_term[n] = t /\ match_index'[n] = match_index[n]
  BY <1>1, <1>3 DEF Leads
<1>5. CASE Blocked(n, i, t)
  BY <1>4, <1>5, BlockedStays
<1>6. CASE \E Q \in SUBSET Nodes :
              /\ \A q \in Nodes : match_index[n][q] >= i => q \in Q
              /\ Chosen(i, t, Q)
  <2>1. PICK Q \in SUBSET Nodes : /\ \A q \in Nodes : match_index[n][q] >= i => q \in Q
                                  /\ Chosen(i, t, Q)
    BY <1>6
  <2>2. CASE current_term[a] > t => loop[a].voters \cap Q # {}
    <3>1. Chosen(i, t, Q)'
      BY <2>1, <2>2, ChosenLead
    <3>2. QED
      BY <1>4, <2>1, <3>1
  <2>3. CASE current_term[a] > t /\ loop[a].voters \cap Q = {}
    <3> DEFINE V == loop[a].voters
    <3>1. V \in SUBSET Nodes /\ Majority(Cardinality(V)) /\ loop[a].pc = "electing"
      BY DEF Leads, BaseInv, VoteInv, VoteTypeOK, Round
    <3>2. \A v \in V : current_term[v] >= current_term[a] /\ current_term[v] \in Nat
      BY <3>1, VoterTerms, LogTypes
    <3>3. \A v \in V : ~ (match_index[n][v] >= i) /\ match_index[n][v] \in Nat
      <4>1. \A v \in V : v \in Nodes /\ v \notin Q
        BY <2>3, <3>1
      <4>2. \A v \in Nodes : match_index[n][v] \in Nat
        BY DEF BaseInv, LogTypeOK
      <4>3. QED
        BY <2>1, <4>1, <4>2
    <3>4. current_term[a] \in Nat
      BY LogTypes
    <3> HIDE DEF V
    <3>5. \A v \in V : current_term'[v] > t /\ match_index'[n][v] < i
      BY <2>3, <3>2, <3>3, <3>4, <1>1, <1>4
    <3>6. QED
      BY <3>1, <3>5 DEF Blocked
  <2>4. QED
    BY <2>2, <2>3
<1>7. QED
  BY <1>2, <1>4, <1>5, <1>6 DEF AckInv

\* A call of append_entries adds an acknowledgement only of what the peer then has.
LEMMA AckSend ==
    ASSUME BaseInv, BaseInv', LogInv, AckInv, VotesMove, NEW a \in Nodes, NEW p \in Nodes,
           Sends(a, p), Overwrites(a, p),
           Accepted(a, p, next_index[a][p] - 1) \/ Refused(a, p, next_index[a][p] - 1),
           Accepted(a, p, next_index[a][p] - 1) => Covers(a, p)
    PROVE  AckInv'
<1> SUFFICES ASSUME NEW n \in Nodes, NEW i \in Nat, NEW t \in Nat,
                    state'[n] = "LEADER", current_term'[n] = t, Holds(n, i, t)'
             PROVE  \/ Blocked(n, i, t)'
                    \/ \E Q \in SUBSET Nodes :
                          /\ \A q \in Nodes : match_index'[n][q] >= i => q \in Q
                          /\ Chosen(i, t, Q)'
  BY DEF AckInv
<1>1. n # p /\ state[n] = "LEADER" /\ current_term[n] = t /\ log'[n] = log[n]
  BY DEF Sends
<1>2. Holds(n, i, t)
  BY <1>1 DEF Holds
<1>3. \A q \in Nodes : match_index'[n][q] # match_index[n][q] =>
         /\ n = a /\ q = p /\ current_term[p] <= t
         /\ Accepted(a, p, next_index[a][p] - 1)
  <2>1. \A q \in Nodes : match_index'[n][q] # match_index[n][q] => n = a /\ q = p
    BY DEF Sends
  <2>2. current_term[a] >= current_term[p] /\ current_term[a] \in Nat /\ current_term[p] \in Nat
    BY LogTypes DEF Sends
  <2>3. Refused(a, p, next_index[a][p] - 1) => match_index'[a][p] = match_index[a][p]
    BY DEF Refused
  <2>4. QED
    BY <2>1, <2>2, <2>3, <1>1
<1>4. CASE Blocked(n, i, t)
  BY <1>3, <1>4, BlockedStays
<1>5. CASE \E Q \in SUBSET Nodes :
              /\ \A q \in Nodes : match_index[n][q] >= i => q \in Q
              /\ Chosen(i, t, Q)
  <2>1. PICK Q \in SUBSET Nodes : /\ \A q \in Nodes : match_index[n][q] >= i => q \in Q
                                  /\ Chosen(i, t, Q)
    BY <1>5
  <2>2. Chosen(i, t, Q)'
    BY <2>1, ChosenSend
  <2>3. CASE \A q \in Nodes : match_index'[n][q] = match_index[n][q]
    BY <2>1, <2>2, <2>3
  <2>4. CASE n = a /\ Accepted(a, p, next_index[a][p] - 1)
    <3>1. i \in 1 .. Len(log[a]) /\ log[a][i].term = t /\ Covers(a, p)
      BY <1>2, <2>4 DEF Holds
    <3>2. Len(log[a]) \in Nat /\ Len(log'[p]) \in Nat
      BY LenProperties DEF BaseInv, LogTypeOK
    <3>3. Holds(p, i, t)'
      BY <3>1, <3>2 DEF Covers, Holds
    <3>4. current_term'[p] = t
      BY <1>1, <2>4 DEF Sends
    <3>5. Chosen(i, t, Q \cup {p})'
      BY <2>2, <3>3, <3>4, JoinAfter DEF MayJoin
    <3>6. \A q \in Nodes : match_index'[n][q] >= i => q \in Q \cup {p}
      BY <2>1, <1>3
    <3>7. QED
      BY <3>5, <3>6
  <2>5. QED
    BY <2>3, <2>4, <1>3
<1>6. QED
  BY <1>1, <1>2, <1>4, <1>5 DEF AckInv

\* Somebody later was elected by a majority that has left term t.
LEMMA LaterBlocks ==
    ASSUME BaseInv, LogInv, NEW m \in Nodes, NEW t \in Nat, Later(m, t)
    PROVE  \E Q \in SUBSET Nodes : /\ Majority(Cardinality(Q))
                                   /\ \A q \in Q : current_term[q] > t
<1>1. \E y \in Nodes, u \in Nat : u > t /\ <<u, y>> \in elected
  <2>1. CASE state[m] = "LEADER" /\ current_term[m] > t
    BY <2>1, LogTypes DEF BaseInv, LeadersElected
  <2>2. CASE \E k \in 1 .. Len(log[m]) : log[m][k].term > t
    <3>1. PICK k \in 1 .. Len(log[m]) : log[m][k].term > t
      BY <2>2
    <3>2. log[m][k].term \in Nat
      BY LogTypes
    <3>3. PICK y \in Nodes : <<log[m][k].term, y>> \in elected
      BY DEF LogInv, EntryElected
    <3>4. QED
      BY <3>1, <3>2, <3>3
  <2>3. QED
    BY <2>1, <2>2 DEF Later
<1>2. PICK y \in Nodes, u \in Nat : u > t /\ <<u, y>> \in elected
  BY <1>1
<1>3. PICK Q \in SUBSET Nodes : /\ Majority(Cardinality(Q))
                                /\ \A q \in Q : Supports(q, u, y)
  BY <1>2 DEF BaseInv, VoteInv, LeadersSupported
<1>4. ASSUME NEW q \in Q PROVE current_term[q] > t
  <2>1. <<u, q, y>> \in ballots /\ q \in Nodes
    BY <1>3 DEF Supports
  <2>2. current_term[q] > u \/ current_term[q] = u
    BY <2>1 DEF BaseInv, VoteInv, BallotsHeld
  <2>3. current_term[q] \in Nat
    BY <2>1, LogTypes
  <2>4. QED
    BY <2>2, <2>3, <1>2
<1>5. QED
  BY <1>3, <1>4

\* A command appended by a leader is acknowledged by that leader alone.
LEMMA AckGrow ==
    ASSUME BaseInv, BaseInv', LogInv, AckInv, VotesMove, NEW a \in Nodes, NEW c \in Commands,
           Grows(a, c), state[a] = "LEADER"
    PROVE  AckInv'
<1> SUFFICES ASSUME NEW n \in Nodes, NEW i \in Nat, NEW t \in Nat,
                    state'[n] = "LEADER", current_term'[n] = t, Holds(n, i, t)'
             PROVE  \/ Blocked(n, i, t)'
                    \/ \E Q \in SUBSET Nodes :
                          /\ \A q \in Nodes : match_index'[n][q] >= i => q \in Q
                          /\ Chosen(i, t, Q)'
  BY DEF AckInv
<1>1. state[n] = "LEADER" /\ current_term[n] = t /\ current_term' = current_term
  BY DEF Grows
<1>2. /\ Len(log'[a]) = Len(log[a]) + 1 /\ Len(log[a]) \in Nat
      /\ \A k \in 1 .. Len(log[a]) : log'[a][k] = log[a][k]
      /\ \A m \in Nodes : m # a => log'[m] = log[m]
  BY GrowLog, LogTypes DEF Grows
<1>3. \A q \in Nodes : match_index'[n][q] # match_index[n][q] => n = a /\ q = a
  BY DEF Grows
<1>4. CASE Holds(n, i, t)
  <2>1. CASE Blocked(n, i, t)
    <3>1. current_term[n] <= t
      BY <1>1
    <3>2. QED
      BY <1>3, <2>1, <3>1, BlockedStays
  <2>2. CASE \E Q \in SUBSET Nodes :
              /\ \A q \in Nodes : match_index[n][q] >= i => q \in Q
              /\ Chosen(i, t, Q)
    <3>1. PICK Q \in SUBSET Nodes : /\ \A q \in Nodes : match_index[n][q] >= i => q \in Q
                                    /\ Chosen(i, t, Q)
      BY <2>2
    <3>2. Chosen(i, t, Q \cup {n})
      BY <3>1, <1>1, <1>4, ChosenJoin
    <3>3. Chosen(i, t, Q \cup {n})'
      BY <3>2, ChosenGrow
    <3>4. \A q \in Nodes : match_index'[n][q] >= i => q \in Q \cup {n}
      BY <3>1, <1>3
    <3>5. QED
      BY <3>3, <3>4
  <2>3. QED
    BY <1>1, <1>4, <2>1, <2>2 DEF AckInv
<1>5. CASE n = a /\ i = Len(log[a]) + 1
  <2>1. \A q \in Nodes : match_index[a][q] \in Nat /\ match_index[a][q] < i
    <3>1. \A q \in Nodes : match_index[a][q] \in Nat
      BY DEF BaseInv, LogTypeOK
    <3>2. \A q \in Nodes : match_index[a][q] <= Len(log[a])
      BY DEF BaseInv, IndexFit
    <3>3. QED
      BY <1>2, <1>5, <3>1, <3>2
  <2>2. CASE \E m \in Nodes : Later(m, t)
    <3>1. PICK Q \in SUBSET Nodes : Majority(Cardinality(Q)) /\ \A q \in Q : current_term[q] > t
      BY <2>2, LaterBlocks
    <3>2. Blocked(n, i, t)
      BY <2>1, <3>1, <1>5 DEF Blocked
    <3>3. current_term[n] <= t
      BY <1>1
    <3>4. QED
      BY <1>3, <3>2, <3>3, BlockedStays
  <2>3. CASE ~ \E m \in Nodes : Later(m, t)
    <3>1. Chosen(i, t, {})
      BY <2>3 DEF Chosen
    <3>2. Chosen(i, t, {})'
      BY <3>1, ChosenGrow
    <3>3. Chosen(i, t, {} \cup {n})'
      BY <3>2, <1>1, JoinAfter DEF MayJoin
    <3>4. \A q \in Nodes : match_index'[n][q] >= i => q \in {} \cup {n}
      BY <2>1, <1>3, <1>5
    <3>5. QED
      BY <3>3, <3>4
  <2>4. QED
    BY <2>2, <2>3
<1>6. Holds(n, i, t) \/ (n = a /\ i = Len(log[a]) + 1)
  BY <1>2 DEF Holds
<1>7. QED
  BY <1>4, <1>5, <1>6

-----------------------------------------------------------------------------
(* Commitment.                                                             *)

\* The first c entries of s lie below an entry that a majority has chosen,
\* and that majority has them too.
SettledBy(s, c, j, t, Q) ==
    /\ Majority(Cardinality(Q))
    /\ Chosen(j, t, Q)
    /\ t <= current_term[s]
    /\ c <= j /\ c <= Len(log[s])
    /\ \A q \in Q : \A k \in 1 .. c : log[s][k] = log[q][k]

Settled(s, c) == \E j, t \in Nat, Q \in SUBSET Nodes : SettledBy(s, c, j, t, Q)

\* What is committed is settled, and what was applied is just that.
CommitInv ==
    \A s \in Nodes :
        /\ commit_index[s] > 0 => Settled(s, commit_index[s])
        /\ commit_index[s] <= Len(log[s])
        /\ Len(applied[s]) = commit_index[s]
        /\ \A i \in 1 .. commit_index[s] : applied[s][i] = log[s][i].command

\* The first k entries of m survive the step.
Keeps(m, k) ==
    /\ k <= Len(log'[m])
    /\ \A h \in 1 .. k : log'[m][h] = log[m][h]

\* A majority has a member.
LEMMA MajorityInhabited ==
    ASSUME NEW Q \in SUBSET Nodes, Majority(Cardinality(Q)) PROVE \E q \in Nodes : q \in Q
<1>1. Q \cap Q # {}
  BY MajoritiesMeet
<1>2. QED
  BY <1>1

\* Every kind of step keeps a chosen entry of a majority chosen, and the
\* entries up to it at those nodes; it keeps the settled entries of s.
LEMMA SettledKeeps ==
    ASSUME BaseInv, BaseInv', LogInv, VotesMove, Kinds, misplaced' = {},
           NEW s \in Nodes, NEW c \in Nat, c > 0, NEW j \in Nat, NEW t \in Nat,
           NEW Q \in SUBSET Nodes, SettledBy(s, c, j, t, Q)
    PROVE  /\ Chosen(j, t, Q)'
           /\ \A q \in Q : Keeps(q, j)
           /\ Keeps(s, c)
<1>0. \A m \in Nodes : Len(log[m]) \in Nat /\ current_term[m] \in Nat
  BY LogTypes
<1>1. /\ Majority(Cardinality(Q)) /\ Chosen(j, t, Q) /\ t <= current_term[s]
      /\ c <= j /\ c <= Len(log[s])
      /\ \A q \in Q : \A k \in 1 .. c : log[s][k] = log[q][k]
  BY DEF SettledBy
<1>2. \A q \in Q : Holds(q, j, t) /\ q \in Nodes /\ j \in 1 .. Len(log[q])
  BY <1>1 DEF Chosen, Holds
<1>3. ASSUME \A m \in Nodes : Keeps(m, Len(log[m]))
      PROVE  (\A q \in Q : Keeps(q, j)) /\ Keeps(s, c)
  <2>1. ASSUME NEW m \in Nodes, NEW k \in Nat, k <= Len(log[m]) PROVE Keeps(m, k)
    <3>1. Len(log'[m]) \in Nat
      BY LenProperties DEF BaseInv, LogTypeOK
    <3>2. QED
      BY <2>1, <3>1, <1>0, <1>3 DEF Keeps
  <2>2. \A q \in Q : q \in Nodes /\ j <= Len(log[q])
    BY <1>2, <1>0
  <2>3. QED
    BY <2>1, <2>2, <1>1
<1>4. ASSUME log' = log PROVE (\A q \in Q : Keeps(q, j)) /\ Keeps(s, c)
  <2>1. \A m \in Nodes : Keeps(m, Len(log[m]))
    BY <1>0, <1>4 DEF Keeps
  <2>2. QED
    BY <2>1, <1>3
<1>5. CASE QuietKind
  <2>1. Quiet /\ log' = log
    BY <1>5 DEF QuietKind, Quiet
  <2>2. Chosen(j, t, Q)'
    BY <2>1, <1>1, ChosenQuiet
  <2>3. QED
    BY <2>1, <2>2, <1>4
<1>6. CASE LeadKind
  <2>1. PICK n \in Nodes : Leads(n)
    BY <1>6 DEF LeadKind
  <2>2. loop[n].voters \in SUBSET Nodes /\ Majority(Cardinality(loop[n].voters)) /\ log' = log
    BY <2>1 DEF Leads, BaseInv, VoteInv, VoteTypeOK, Round
  <2>3. loop[n].voters \cap Q # {}
    BY <2>2, <1>1, MajoritiesMeet
  <2>4. Chosen(j, t, Q)'
    BY <2>1, <2>3, <1>1, ChosenLead
  <2>5. QED
    BY <2>2, <2>4, <1>4
<1>7. CASE GrowKind
  <2>1. PICK n \in Nodes, e \in Commands : Grows(n, e)
    BY <1>7 DEF GrowKind
  <2>2. state[n] = "LEADER"
    BY <2>1 DEF Grows
  <2>3. Chosen(j, t, Q)'
    BY <2>1, <2>2, <1>1, ChosenGrow
  <2>4. \A m \in Nodes : Keeps(m, Len(log[m]))
    <3>1. /\ Len(log'[n]) = Len(log[n]) + 1
          /\ \A i \in 1 .. Len(log[n]) : log'[n][i] = log[n][i]
      BY <2>1, GrowLog
    <3>2. \A m \in Nodes : m # n => log'[m] = log[m]
      BY <2>1 DEF Grows
    <3>3. QED
      BY <3>1, <3>2, <1>0, SMTT(30) DEF Keeps
  <2>5. QED
    BY <2>3, <2>4, <1>3
<1>8. CASE SendKind
  <2>1. PICK n \in Nodes, p \in Nodes :
          /\ Sends(n, p)
          /\ Accepted(n, p, next_index[n][p] - 1) \/ Refused(n, p, next_index[n][p] - 1)
    BY <1>8 DEF SendKind
  <2>2. Overwrites(n, p)
    BY <2>1, SendOverwrites
  <2>3. Chosen(j, t, Q)'
    BY <2>1, <2>2, <1>1, ChosenSend
  <2>4. state[n] = "LEADER" /\ current_term[n] >= current_term[p]
        /\ \A m \in Nodes : m # p => log'[m] = log[m]
    BY <2>1 DEF Sends
  <2>5. ASSUME NEW k \in 1 .. Len(log[p]), k <= Len(log[n]), log[n][k].term = log[p][k].term
        PROVE  Keeps(p, k)
    BY <2>2, <2>5 DEF Overwrites, Keeps
  <2>6. ASSUME NEW q \in Q PROVE Keeps(q, j)
    <3>1. CASE q # p
      BY <3>1, <2>4, <1>2, <1>0 DEF Keeps
    <3>2. CASE q = p
      <4>1. current_term[n] >= t
        BY <2>4, <3>2, <1>0, <1>1 DEF Chosen
      <4>2. Holds(n, j, t)
        BY <2>4, <4>1, <1>1, LeaderHasChosen
      <4>3. j \in 1 .. Len(log[p]) /\ j <= Len(log[n]) /\ log[n][j].term = log[p][j].term
        BY <3>2, <4>2, <1>0, <1>2 DEF Holds
      <4>4. QED
        BY <3>2, <4>3, <2>5
    <3>3. QED
      BY <3>1, <3>2
  <2>7. Keeps(s, c)
    <3>1. CASE s # p
      BY <3>1, <2>4, <1>0, <1>1 DEF Keeps
    <3>2. CASE s = p
      <4>1. current_term[n] >= t
        BY <2>4, <3>2, <1>0, <1>1
      <4>2. PICK q \in Q : q \in Nodes
        BY <1>1, MajorityInhabited
      <4>3. Holds(n, j, t)
        BY <2>4, <4>1, <4>2, <1>1, LeaderHasChosen
      <4>4. Holds(q, j, log[n][j].term) /\ j \in 1 .. Len(log[n])
        BY <4>3, <1>2 DEF Holds
      <4>5. \A k \in 1 .. j : log[q][k] = log[n][k]
        BY <4>4, <4>2 DEF LogInv, Matching
      <4>6. c \in 1 .. j /\ c \in 1 .. c /\ c \in 1 .. Len(log[p]) /\ c <= Len(log[n])
        BY <4>4, <3>2, <1>0, <1>1
      <4>7. log[n][c] = log[p][c]
        BY <4>2, <4>5, <4>6, <3>2, <1>1
      <4>8. QED
        BY <4>6, <4>7, <3>2, <2>5
    <3>3. QED
      BY <3>1, <3>2
  <2>8. QED
    BY <2>3, <2>6, <2>7
<1>9. QED
  BY <1>5, <1>6, <1>7, <1>8 DEF Kinds

\* What is settled stays so.
LEMMA SettledStays ==
    ASSUME BaseInv, BaseInv', LogInv, VotesMove, Kinds, misplaced' = {},
           NEW s \in Nodes, NEW c \in Nat, c > 0, Settled(s, c)
    PROVE  Settled(s, c)' /\ Keeps(s, c)
<1>1. PICK j \in Nat, t \in Nat, Q \in SUBSET Nodes : SettledBy(s, c, j, t, Q)
  BY DEF Settled
<1>2. Chosen(j, t, Q)' /\ (\A q \in Q : Keeps(q, j)) /\ Keeps(s, c)
  BY <1>1, SettledKeeps
<1>3. current_term[s] \in Nat /\ current_term'[s] \in Nat /\ current_term'[s] >= current_term[s]
  BY DEF BaseInv, VoteInv, VoteTypeOK, VotesMove
<1>4. /\ Majority(Cardinality(Q)) /\ t <= current_term[s] /\ c <= j
      /\ \A q \in Q : \A k \in 1 .. c : log[s][k] = log[q][k]
  BY <1>1 DEF SettledBy
<1>5. \A q \in Q : \A k \in 1 .. c : log'[s][k] = log'[q][k]
  BY <1>2, <1>4 DEF Keeps
<1>6. SettledBy(s, c, j, t, Q)'
  BY <1>2, <1>3, <1>4, <1>5 DEF SettledBy, Keeps
<1>7. QED
  BY <1>2, <1>6 DEF Settled

\* update_commit_index commits what is settled: those that acknowledged are a
\* majority, and none of them can be in one that blocks the entry.
LEMMA CommittableSettled ==
    ASSUME BaseInv, LogInv, AckInv, NEW n \in Nodes, state[n] = "LEADER",
           NEW c \in committable(n)
    PROVE  c \in Nat /\ c > commit_index[n] /\ c <= Len(log[n]) /\ Settled(n, c)
<1> DEFINE t == current_term[n]
           R == {p \in Nodes : p = n \/ match_index[n][p] >= c}
<1>0. /\ Len(log[n]) \in Nat /\ t \in Nat /\ commit_index[n] \in Nat
      /\ \A q \in Nodes : match_index[n][q] \in Nat /\ current_term[q] \in Nat
  BY LogTypes DEF BaseInv, LogTypeOK
<1>1. /\ c \in (commit_index[n] + 1) .. Len(log[n]) /\ log[n][c].term = t
      /\ Majority(Cardinality(R))
  BY DEF committable
<1>2. c \in Nat /\ c > commit_index[n] /\ c <= Len(log[n]) /\ c \in 1 .. Len(log[n])
  BY <1>0, <1>1
<1>3. Holds(n, c, t)
  BY <1>1, <1>2 DEF Holds
<1>4. R \in SUBSET Nodes /\ \A q \in R : q = n \/ match_index[n][q] >= c
  OBVIOUS
<1> HIDE DEF R, t
<1>t. current_term[n] = t
  BY DEF t
<1>5. ~ Blocked(n, c, t)
  <2> SUFFICES ASSUME Blocked(n, c, t) PROVE FALSE
    OBVIOUS
  <2>1. PICK B \in SUBSET Nodes :
          /\ Majority(Cardinality(B))
          /\ \A q \in B : current_term[q] > t /\ match_index[n][q] < c
    BY DEF Blocked
  <2>2. PICK q \in B : q \in R
    BY <2>1, <1>1, <1>4, MajoritiesMeet
  <2>3. current_term[q] > t /\ match_index[n][q] < c
    BY <2>1, <2>2
  <2>4. q = n \/ match_index[n][q] >= c
    BY <2>2, <1>4
  <2>5. QED
    BY <2>3, <2>4, <1>0, <1>2, <1>t
<1>6. PICK Q \in SUBSET Nodes : /\ \A q \in Nodes : match_index[n][q] >= c => q \in Q
                                /\ Chosen(c, t, Q)
  BY <1>0, <1>2, <1>3, <1>5, <1>t DEF AckInv
<1>7. Chosen(c, t, Q \cup {n})
  BY <1>0, <1>2, <1>3, <1>6, <1>t, ChosenJoin
<1>8. R \subseteq Q \cup {n}
  BY <1>4, <1>6
<1>9. Chosen(c, t, R)
  BY <1>7, <1>8 DEF Chosen
<1>10. \A q \in R : \A k \in 1 .. c : log[n][k] = log[q][k]
  <2> TAKE q \in R
  <2>1. Holds(q, c, t) /\ q \in Nodes
    BY <1>4, <1>9 DEF Chosen
  <2>2. \A k \in 1 .. c : log[q][k] = log[n][k]
    BY <2>1, <1>1, <1>2 DEF LogInv, Matching
  <2>3. QED
    BY <2>2
<1>11. SettledBy(n, c, c, t, R)
  BY <1>0, <1>1, <1>2, <1>9, <1>10, <1>t DEF SettledBy
<1>12. QED
  BY <1>0, <1>2, <1>4, <1>11 DEF Settled

\* A node whose commit_index and applied commands stay keeps them right.
LEMMA CommitSame ==
    ASSUME BaseInv, BaseInv', LogInv, CommitInv, VotesMove, Kinds, misplaced' = {},
           NEW s \in Nodes, commit_index'[s] = commit_index[s],
           Len(applied'[s]) = Len(applied[s]),
           \A i \in 1 .. commit_index[s] : applied'[s][i] = applied[s][i]
    PROVE  /\ commit_index'[s] > 0 => Settled(s, commit_index[s])'
           /\ commit_index'[s] <= Len(log'[s])
           /\ Len(applied'[s]) = commit_index'[s]
           /\ \A i \in 1 .. commit_index'[s] : applied'[s][i] = log'[s][i].command
<1>1. PICK c \in Nat : c = commit_index[s]
  BY DEF BaseInv, LogTypeOK
<1>2. /\ c > 0 => Settled(s, c)
      /\ c <= Len(log[s]) /\ Len(applied[s]) = c
      /\ \A i \in 1 .. c : applied[s][i] = log[s][i].command
  BY <1>1 DEF CommitInv
<1>3. CASE c = 0
  <2>1. Len(log'[s]) \in Nat
    BY LenProperties DEF BaseInv, LogTypeOK
  <2>2. QED
    BY <1>1, <1>2, <1>3, <2>1
<1>4. CASE c > 0
  <2>1. Settled(s, c)' /\ Keeps(s, c)
    BY <1>2, <1>4, SettledStays
  <2>2. Settled(s, commit_index[s])'
    BY <2>1, <1>1
  <2>3. QED
    BY <1>1, <1>2, <2>1, <2>2 DEF Keeps
<1>5. QED
  BY <1>3, <1>4

\* update_commit_index.
LEMMA CommitUpdate ==
    ASSUME BaseInv, BaseInv', LogInv, AckInv, CommitInv, VotesMove, Kinds, misplaced' = {},
           NEW n \in Nodes, Updates(n), log' = log
    PROVE  /\ commit_index'[n] > 0 => Settled(n, commit_index[n])'
           /\ commit_index'[n] <= Len(log'[n])
           /\ Len(applied'[n]) = commit_index'[n]
           /\ \A i \in 1 .. commit_index'[n] : applied'[n][i] = log'[n][i].command
<1>1. PICK c \in committable(n) : c = commit_index'[n]
  BY DEF Updates
<1>2. c \in Nat /\ c > commit_index[n] /\ c <= Len(log[n]) /\ Settled(n, c) /\ commit_index[n] \in Nat
  BY <1>1, CommittableSettled DEF Updates, BaseInv, LogTypeOK
<1>3. Settled(n, c)'
  BY <1>2, SettledStays
<1>4. Settled(n, commit_index[n])'
  BY <1>1, <1>3
<1>5. Len(applied[n]) = commit_index[n]
      /\ \A i \in 1 .. commit_index[n] : applied[n][i] = log[n][i].command
  BY DEF CommitInv
<1>6. Len(applied'[n]) = c
  BY <1>1, <1>2, <1>5 DEF Updates, Larger
<1>7. \A i \in 1 .. c : applied'[n][i] = log[n][i].command
  <2> TAKE i \in 1 .. c
  <2>1. applied'[n][i] = IF i <= Len(applied[n]) THEN applied[n][i] ELSE log[n][i].command
    BY <1>6 DEF Updates
  <2>2. i <= commit_index[n] => i \in 1 .. commit_index[n]
    BY <1>2
  <2>3. QED
    BY <2>1, <2>2, <1>5
<1>8. QED
  BY <1>1, <1>2, <1>4, <1>6, <1>7

\* A follower that accepts entries takes over what its leader has committed.
LEMMA CommitAccept ==
    ASSUME BaseInv, BaseInv', LogInv, CommitInv, VotesMove, Kinds, misplaced' = {},
           NEW n \in Nodes, NEW p \in Nodes, Sends(n, p),
           Accepted(n, p, next_index[n][p] - 1), Covers(n, p)
    PROVE  /\ commit_index'[p] > 0 => Settled(p, commit_index[p])'
           /\ commit_index'[p] <= Len(log'[p])
           /\ Len(applied'[p]) = commit_index'[p]
           /\ \A i \in 1 .. commit_index'[p] : applied'[p][i] = log'[p][i].command
<1>0. /\ commit_index[n] \in Nat /\ commit_index[p] \in Nat
      /\ Len(log[n]) \in Nat /\ Len(log'[p]) \in Nat
  BY LenProperties DEF BaseInv, LogTypeOK
<1>1. /\ commit_index[n] <= Len(log[n]) /\ Len(applied[p]) = commit_index[p]
      /\ \A i \in 1 .. commit_index[p] : applied[p][i] = log[p][i].command
  BY DEF CommitInv
<1>2. /\ commit_index'[p] = IF commit_index[n] <= commit_index[p] THEN commit_index[p]
                            ELSE IF commit_index[n] < Len(log'[p]) THEN commit_index[n]
                                 ELSE Len(log'[p])
      /\ Len(applied'[p]) = Larger(commit_index'[p], Len(applied[p]))
      /\ \A i \in 1 .. Len(applied'[p]) :
            applied'[p][i] = IF i <= Len(applied[p]) THEN applied[p][i] ELSE log'[p][i].command
  BY DEF Accepted
<1>3. Len(log[n]) <= Len(log'[p]) /\ \A k \in 1 .. Len(log[n]) : log'[p][k] = log[n][k]
  BY DEF Covers
<1>4. CASE commit_index[n] <= commit_index[p]
  <2>1. commit_index'[p] = commit_index[p]
    BY <1>2, <1>4
  <2>2. Len(applied'[p]) = Len(applied[p])
    BY <2>1, <1>0, <1>1, <1>2 DEF Larger
  <2>3. \A i \in 1 .. commit_index[p] : applied'[p][i] = applied[p][i]
    BY <2>2, <1>0, <1>1, <1>2
  <2>4. QED
    BY <2>1, <2>2, <2>3, CommitSame
<1>5. CASE commit_index[n] > commit_index[p]
  <2>1. commit_index'[p] = commit_index[n]
    BY <1>0, <1>1, <1>2, <1>3, <1>5
  <2>2. PICK c \in Nat : c = commit_index[n]
    BY <1>0
  <2>3. c > 0 /\ Settled(n, c) /\ c <= Len(log[n])
    BY <2>2, <1>0, <1>1, <1>5 DEF CommitInv
  <2>4. Settled(n, c)'
    BY <2>3, SettledStays
  <2>5. Settled(p, c)'
    <3>1. PICK j \in Nat, t \in Nat, Q \in SUBSET Nodes : SettledBy(n, c, j, t, Q)'
      BY <2>4 DEF Settled
    <3>2. current_term'[n] = current_term[n] /\ current_term'[p] = current_term[n] /\ log'[n] = log[n]
      BY DEF Sends
    <3>3. \A k \in 1 .. c : log'[p][k] = log'[n][k]
      BY <2>3, <3>2, <1>0, <1>3
    <3>4. /\ Majority(Cardinality(Q)) /\ Chosen(j, t, Q)' /\ t <= current_term'[n] /\ c <= j
          /\ \A q \in Q : \A k \in 1 .. c : log'[n][k] = log'[q][k]
      BY <3>1 DEF SettledBy
    <3>5. c <= Len(log'[p])
      BY <2>3, <1>0, <1>3
    <3>6. \A q \in Q : \A k \in 1 .. c : log'[p][k] = log'[q][k]
      BY <3>3, <3>4
    <3>7. SettledBy(p, c, j, t, Q)'
      BY <3>2, <3>4, <3>5, <3>6 DEF SettledBy
    <3>8. QED
      BY <3>7 DEF Settled
  <2>6. Settled(p, commit_index[p])'
    BY <2>1, <2>2, <2>5
  <2>7. Len(applied'[p]) = commit_index'[p]
    BY <2>1, <1>0, <1>1, <1>2, <1>5 DEF Larger
  <2>8. ASSUME NEW i \in 1 .. commit_index'[p] PROVE applied'[p][i] = log'[p][i].command
    <3>1. applied'[p][i] = IF i <= commit_index[p] THEN applied[p][i] ELSE log'[p][i].command
      BY <2>7, <1>1, <1>2
    <3>2. CASE i <= commit_index[p]
      <4>1. PICK d \in Nat : d = commit_index[p]
        BY <1>0
      <4>2. d > 0 /\ Settled(p, d) /\ i \in 1 .. d
        BY <3>2, <4>1, <2>1, <1>0 DEF CommitInv
      <4>3. Keeps(p, d)
        BY <4>2, SettledStays
      <4>4. log'[p][i] = log[p][i]
        BY <4>2, <4>3 DEF Keeps
      <4>5. QED
        BY <3>1, <3>2, <4>1, <4>2, <4>4, <1>1
    <3>3. QED
      BY <3>1, <3>2
  <2>9. commit_index'[p] <= Len(log'[p])
    BY <2>1, <1>0, <1>1, <1>3
  <2>10. QED
    BY <2>6, <2>7, <2>8, <2>9
<1>6. QED
  BY <1>0, <1>4, <1>5

\* Every kind of step keeps what is committed settled.
LEMMA CommitKept ==
    ASSUME BaseInv, BaseInv', LogInv, AckInv, CommitInv, VotesMove, Kinds, misplaced' = {}
    PROVE  CommitInv'
<1> SUFFICES ASSUME NEW s \in Nodes
             PROVE  /\ commit_index'[s] > 0 => Settled(s, commit_index[s])'
                    /\ commit_index'[s] <= Len(log'[s])
                    /\ Len(applied'[s]) = commit_index'[s]
                    /\ \A i \in 1 .. commit_index'[s] : applied'[s][i] = log'[s][i].command
  BY DEF CommitInv
<1>1. CASE commit_index'[s] = commit_index[s] /\ applied'[s] = applied[s]
  BY <1>1, CommitSame
<1>2. CASE Updates(s) /\ log' = log
  BY <1>2, CommitUpdate
<1>3. ASSUME NEW n \in Nodes, Sends(n, s), Accepted(n, s, next_index[n][s] - 1)
      PROVE  /\ commit_index'[s] > 0 => Settled(s, commit_index[s])'
             /\ commit_index'[s] <= Len(log'[s])
             /\ Len(applied'[s]) = commit_index'[s]
             /\ \A i \in 1 .. commit_index'[s] : applied'[s][i] = log'[s][i].command
  <2>1. Covers(n, s)
    BY <1>3, SendOverwrites
  <2>2. QED
    BY <1>3, <2>1, CommitAccept
<1>4. \/ commit_index'[s] = commit_index[s] /\ applied'[s] = applied[s]
      \/ Updates(s) /\ log' = log
      \/ \E n \in Nodes : Sends(n, s) /\ Accepted(n, s, next_index[n][s] - 1)
  <2>1. CASE QuietKind
    BY <2>1 DEF QuietKind, Quiet, Updates
  <2>2. CASE LeadKind
    BY <2>2 DEF LeadKind, Leads
  <2>3. CASE GrowKind
    BY <2>3 DEF GrowKind, Grows
  <2>4. CASE SendKind
    <3>1. PICK n \in Nodes, p \in Nodes :
            /\ Sends(n, p)
            /\ Accepted(n, p, next_index[n][p] - 1) \/ Refused(n, p, next_index[n][p] - 1)
      BY <2>4 DEF SendKind
    <3>2. CASE s # p
      BY <3>1, <3>2 DEF Sends
    <3>3. CASE s = p /\ Refused(n, p, next_index[n][p] - 1)
      BY <3>3 DEF Refused
    <3>4. QED
      BY <3>1, <3>2, <3>3
  <2>5. QED
    BY <2>1, <2>2, <2>3, <2>4 DEF Kinds
<1>5. QED
  BY <1>1, <1>2, <1>3, <1>4

-----------------------------------------------------------------------------
(* The invariant as long as replicate found only leaders.                  *)

\* The inductive invariant.
RaftInv == BaseInv /\ (misplaced = {} => LogInv /\ AckInv /\ CommitInv)

\* A new cluster satisfies RaftInv.
LEMMA RaftInit == Init => RaftInv
<1> SUFFICES ASSUME Init PROVE RaftInv
  OBVIOUS
<1>1. BaseInv
  BY BaseInit
<1>2. /\ \A n \in Nodes : log[n] = <<>> /\ commit_index[n] = 0 /\ applied[n] = <<>> /\ Len(log[n]) = 0
                          /\ Len(applied[n]) = 0
  BY EmptySeq DEF Init
<1>3. LogInv
  BY <1>2 DEF LogInv, TermsOrdered, TermsBelow, EntryElected, LeaderHasOwn, SameTerm, Matching, Holds
<1>4. AckInv
  BY <1>2 DEF AckInv, Holds
<1>5. CommitInv
  BY <1>2 DEF CommitInv
<1>6. QED
  BY <1>1, <1>3, <1>4, <1>5 DEF RaftInv

\* Every step keeps RaftInv.
LEMMA RaftNext == RaftInv /\ [Next]_vars => RaftInv'
<1> SUFFICES ASSUME RaftInv, [Next]_vars PROVE RaftInv'
  OBVIOUS
<1>0. BaseInv /\ BaseInv'
  BY BaseNext DEF RaftInv
<1>1. Kinds
  BY <1>0, EveryKind
<1>2. VotesMove
  BY <1>0, EveryVoteStep DEF BaseInv, VoteStep
<1>3. SUFFICES ASSUME misplaced' = {} PROVE LogInv' /\ AckInv' /\ CommitInv'
  BY <1>0 DEF RaftInv
<1>4. misplaced = {}
  BY <1>1, <1>3 DEF Kinds, QuietKind, Quiet, LeadKind, Leads, GrowKind, Grows, SendKind, Sends
<1>5. LogInv /\ AckInv /\ CommitInv
  BY <1>4 DEF RaftInv
<1>6. CommitInv'
  BY <1>0, <1>1, <1>2, <1>3, <1>5, CommitKept
<1>7. CASE QuietKind
  <2>1. LogInv'
    BY <1>0, <1>2, <1>5, <1>7, LogKeptSame
  <2>2. AckInv'
    BY <1>0, <1>2, <1>5, <1>7, AckQuiet DEF QuietKind
  <2>3. QED
    BY <2>1, <2>2, <1>6
<1>8. CASE LeadKind
  <2>1. LogInv'
    BY <1>0, <1>2, <1>5, <1>8, LogKeptSame
  <2>2. AckInv'
    BY <1>0, <1>2, <1>5, <1>8, AckLead DEF LeadKind
  <2>3. QED
    BY <2>1, <2>2, <1>6
<1>9. CASE GrowKind
  <2>1. PICK n \in Nodes, c \in Commands : Grows(n, c)
    BY <1>9 DEF GrowKind
  <2>2. state[n] = "LEADER"
    BY <2>1, <1>3 DEF Grows
  <2>3. LogInv'
    BY <2>1, <2>2, <1>0, <1>5, LogKeptGrow
  <2>4. AckInv'
    BY <2>1, <2>2, <1>0, <1>2, <1>5, AckGrow
  <2>5. QED
    BY <2>3, <2>4, <1>6
<1>10. CASE SendKind
  <2>1. PICK n \in Nodes, p \in Nodes :
          /\ Sends(n, p)
          /\ Accepted(n, p, next_index[n][p] - 1) \/ Refused(n, p, next_index[n][p] - 1)
    BY <1>10 DEF SendKind
  <2>2. Overwrites(n, p) /\ (Accepted(n, p, next_index[n][p] - 1) => Covers(n, p))
    BY <2>1, <1>0, <1>5, SendOverwrites
  <2>3. LogInv'
    BY <2>1, <2>2, <1>0, <1>5, LogKeptSend
  <2>4. AckInv'
    BY <2>1, <2>2, <1>0, <1>2, <1>5, AckSend
  <2>5. QED
    BY <2>3, <2>4, <1>6
<1>11. QED
  BY <1>1, <1>7, <1>8, <1>9, <1>10 DEF Kinds

\* RaftInv contains log matching, entry by entry.
LEMMA InvMatches == RaftInv => LogMatching
<1> SUFFICES ASSUME RaftInv, misplaced = {}, NEW m \in Nodes, NEW n \in Nodes,
                    NEW i \in 1 .. (IF Len(log[m]) < Len(log[n]) THEN Len(log[m])
                                                                 ELSE Len(log[n])),
                    log[m][i].term = log[n][i].term
             PROVE  SubSeq(log[m], 1, i) = SubSeq(log[n], 1, i)
  BY DEF LogMatching
<1>1. BaseInv /\ Matching
  BY DEF RaftInv, LogInv
<1>2. log[m] \in Seq(Entry) /\ log[n] \in Seq(Entry) /\ Len(log[m]) \in Nat /\ Len(log[n]) \in Nat
  BY <1>1, LogTypes
<1>3. i \in 1 .. Len(log[m]) /\ i \in 1 .. Len(log[n])
  BY <1>2
<1>4. Holds(m, i, log[n][i].term)
  BY <1>3 DEF Holds
<1>5. \A k \in 1 .. i : log[m][k] = log[n][k]
  BY <1>1, <1>3, <1>4 DEF Matching
<1>6. SubSeq(log[m], 1, i) = [k \in 1 .. i |-> log[m][k]]
      /\ SubSeq(log[n], 1, i) = [k \in 1 .. i |-> log[n][k]]
  BY <1>2, <1>3, SubSeqRestrict DEF Restrict
<1>7. QED
  BY <1>5, <1>6

\* Two committed positions are kept by majorities, which share a node.
LEMMA InvAgrees == RaftInv => CommittedAgree
<1> SUFFICES ASSUME RaftInv, misplaced = {}, NEW m \in Nodes, NEW n \in Nodes,
                    NEW i \in (DOMAIN applied[m]) \cap (DOMAIN applied[n])
             PROVE  applied[m][i] = applied[n][i]
  BY DEF CommittedAgree, PrefixAgree
<1>1. BaseInv /\ CommitInv
  BY DEF RaftInv
<1>2. \A s \in Nodes : applied[s] \in Seq(Commands) /\ commit_index[s] \in Nat
  BY <1>1 DEF BaseInv, LogTypeOK
<1>3. ASSUME NEW s \in Nodes, i \in DOMAIN applied[s]
      PROVE  /\ i \in 1 .. commit_index[s] /\ applied[s][i] = log[s][i].command
             /\ \E Q \in SUBSET Nodes : /\ Majority(Cardinality(Q))
                                        /\ \A q \in Q : log[s][i] = log[q][i]
  <2>1. i \in 1 .. commit_index[s]
    BY <1>1, <1>2, <1>3, LenProperties DEF CommitInv
  <2>2. Settled(s, commit_index[s]) /\ applied[s][i] = log[s][i].command
    BY <2>1, <1>1, <1>2 DEF CommitInv
  <2>3. PICK j \in Nat, t \in Nat, Q \in SUBSET Nodes : SettledBy(s, commit_index[s], j, t, Q)
    BY <2>2 DEF Settled
  <2>4. Majority(Cardinality(Q)) /\ \A q \in Q : log[s][i] = log[q][i]
    BY <2>1, <2>3 DEF SettledBy
  <2>5. QED
    BY <2>1, <2>2, <2>4
<1>4. PICK Q \in SUBSET Nodes : Majority(Cardinality(Q)) /\ \A q \in Q : log[m][i] = log[q][i]
  BY <1>3
<1>5. PICK R \in SUBSET Nodes : Majority(Cardinality(R)) /\ \A q \in R : log[n][i] = log[q][i]
  BY <1>3
<1>6. PICK q \in Q : q \in R
  BY <1>4, <1>5, MajoritiesMeet
<1>7. log[m][i] = log[n][i]
  BY <1>4, <1>5, <1>6
<1>8. QED
  BY <1>3, <1>7

\* Every reachable state satisfies the inductive invariant, whatever the order
\* of elections, append_entries calls, commits and replicate calls.
THEOREM RaftInvariance == Spec => []RaftInv
BY RaftInit, RaftNext, PTL DEF Spec

\* Terms, votes, logs, indices and applied commands keep their types: in
\* particular next_index of a leader never falls below 1, and _apply_logs hands
\* over only commands.
THEOREM RaftTypes == Spec => []TypeOK
<1>1. RaftInv => TypeOK
  BY DEF RaftInv, BaseInv, VoteInv, VoteTypeOK, LogTypeOK, TypeOK
<1>2. QED
  BY <1>1, RaftInvariance, PTL

\* As long as replicate appended only to a leader's log, append_entries leaves
\* two logs that agree on an entry's position and term with equal prefixes.
THEOREM LogsMatch == Spec => []LogMatching
BY RaftInvariance, InvMatches, PTL

\* As long as replicate appended only to a leader's log, _update_commit_index
\* and the leaderCommit of append_entries never let _apply_logs give two nodes
\* different commands for one position.
THEOREM CommitsAgree == Spec => []CommittedAgree
BY RaftInvariance, InvAgrees, PTL
=============================================================================
