--------------------------- MODULE ElectionProofs ---------------------------
(***************************************************************************)
(* Proofs about the bulletin board of AIGIS, for any voters, options, keys *)
(* and numbers of retries, crashes and commits that fail: nobody is in the *)
(* table twice, accepted ballots stay, refusals have a reason, and the     *)
(* committed table implements Poll.  The inductive invariant adds that the *)
(* seen nullifiers are those of committed rows, that the row of the ballot *)
(* being handled is the last one of the open transaction, and that a call  *)
(* of cast_vote has one ballot, which is in one place.  The tally is right *)
(* by an induction over the rows of the table, the Merkle trees are sound  *)
(* by inductions over their levels.                                        *)
(***************************************************************************)
EXTENDS Election, FiniteSetTheorems, SequenceTheorems, WellFoundedInduction, TLAPS

Try == [option : Options, answer : Answers]

\* A client makes one call at a time.
TriesOK ==
    /\ tries \in [Voters -> Seq(Try)]
    /\ \A v \in Voters : Len(tries[v]) <= MaxTries[v]
    /\ \A v \in Voters : \A t \in 1 .. Len(tries[v]) :
         tries[v][t].answer = "waiting" => t = Len(tries[v])

\* The table and the open transaction are sequences of rows.
SeqsOK == \E R : rows \in Seq(R) /\ pending \in Seq(R)

\* seen_nullifiers holds those of committed rows.
SeenCommitted == seen \subseteq load_nullifiers

\* The ballot being handled is the last row of the open transaction.
HandlingLast ==
    handling # NoBallot => pending # <<>> /\ pending[Len(pending)].ballot = handling

SameCall(b, c) == Voter(b) = Voter(c) /\ b.timestamp = c.timestamp

\* A call has one ballot, which is well formed and on the wire or in the handler.
WireOK ==
    \A b \in wire :
        /\ b.votes # <<>>
        /\ b.proof.inputs = <<b.proof.inputs[1], Voter(b)>>
        /\ \A c \in wire : SameCall(b, c) => b = c
        /\ handling # NoBallot => ~SameCall(b, handling)

ElectionInv ==
    /\ TypeOK
    /\ TriesOK
    /\ SeqsOK
    /\ OneVotePerVoter
    /\ SeenCommitted
    /\ HandlingLast
    /\ AcceptedCounted
    /\ WireOK

-----------------------------------------------------------------------------
(* What steps do to the clients' calls. *)

\* The calls made so far stay, with their options and what was accepted.
CallsStay ==
    \A v \in Voters :
        /\ Len(tries[v]) <= Len(tries'[v])
        /\ \A t \in 1 .. Len(tries[v]) :
             /\ tries'[v][t].option = tries[v][t].option
             /\ tries[v][t].answer = "accepted" => tries'[v][t].answer = "accepted"

\* A step adds calls and committed rows, and changes none.
Extends ==
    /\ CallsStay
    /\ Len(rows) <= Len(rows')
    /\ \A i \in 1 .. Len(rows) : rows'[i] = rows[i]

\* No call is answered "accepted" by the step.
NoneAccepted ==
    \A v \in Voters : \A t \in 1 .. Len(tries'[v]) :
        tries'[v][t].answer = "accepted" =>
            t \in 1 .. Len(tries[v]) /\ tries[v][t].answer = "accepted"

\* Concatenation, as the board's connection sees the table.
LEMMA Concatenated ==
  ASSUME NEW R, NEW a \in Seq(R), NEW b \in Seq(R)
  PROVE  /\ a \o b \in Seq(R)
         /\ Len(a \o b) = Len(a) + Len(b)
         /\ \A i \in 1 .. Len(a) : (a \o b)[i] = a[i]
         /\ \A i \in 1 .. Len(b) : (a \o b)[Len(a) + i] = b[i]
  OBVIOUS

\* The committed rows are the first of the table.
LEMMA RowsInTable ==
  ASSUME SeqsOK
  PROVE  /\ Len(rows) \in Nat /\ Len(pending) \in Nat /\ Len(Table) = Len(rows) + Len(pending)
         /\ \A i \in 1 .. Len(rows) : i \in 1 .. Len(Table) /\ Table[i] = rows[i]
         /\ \A i \in 1 .. Len(pending) : Table[Len(rows) + i] = pending[i]
<1>1. PICK R : rows \in Seq(R) /\ pending \in Seq(R)
  BY DEF SeqsOK
<1> QED  BY <1>1, Concatenated DEF Table

\* Answer: one call gets its answer if it waits, and nothing else changes.
LEMMA AnswerStep ==
  ASSUME TriesOK, NEW b, IsBallot(b), NEW answer \in Answers, Answer(b, answer)
  PROVE  /\ TriesOK'
         /\ \A v \in Voters : Len(tries'[v]) = Len(tries[v])
         /\ \A v \in Voters : \A t \in 1 .. Len(tries[v]) :
              /\ tries'[v][t].option = tries[v][t].option
              /\ tries'[v][t].answer =
                   IF v = Voter(b) /\ t = b.timestamp /\ tries[v][t].answer = "waiting"
                   THEN answer ELSE tries[v][t].answer
<1> DEFINE w == Voter(b)
           s == b.timestamp
           old == tries[w]
           new == [old EXCEPT ![s] = [old[s] EXCEPT !.answer = IF @ = "waiting" THEN answer ELSE @]]
<1>1. w \in Voters /\ s \in 1 .. Len(tries[w]) /\ old \in Seq(Try) /\ old[s] \in Try
  BY DEF IsBallot, TriesOK
<1>2. tries' = [tries EXCEPT ![w] = new]
  BY DEF Answer
<1>3. new \in Seq(Try) /\ Len(new) = Len(old)
  BY <1>1 DEF Try
<1>4. \A t \in 1 .. Len(old) :
        /\ new[t].option = old[t].option
        /\ new[t].answer = IF t = s /\ old[t].answer = "waiting" THEN answer ELSE old[t].answer
  BY <1>1 DEF Try
<1> HIDE DEF new, old, w, s
<1>5. tries' \in [Voters -> Seq(Try)] /\ \A v \in Voters : tries'[v] = IF v = w THEN new ELSE tries[v]
  BY <1>1, <1>2, <1>3 DEF TriesOK
<1>6. TriesOK'
  <2>1. \A v \in Voters : Len(tries'[v]) = Len(tries[v])
    BY <1>3, <1>5 DEF old
  <2>2. \A v \in Voters : \A t \in 1 .. Len(tries[v]) :
          tries'[v][t].answer = "waiting" => tries[v][t].answer = "waiting"
    BY <1>4, <1>5 DEF old
  <2> QED  BY <1>5, <2>1, <2>2 DEF TriesOK
<1> QED  BY <1>3, <1>4, <1>5, <1>6 DEF TriesOK, old, w, s

\* A ballot of a call stays one when the calls stay.
LEMMA BallotStays ==
  ASSUME TriesOK, TriesOK', CallsStay, NEW b, IsBallot(b)
  PROVE  IsBallot(b)'
  BY DEF IsBallot, TriesOK, CallsStay, Voter

\* A step that leaves the table and the handler alone keeps the invariant if it keeps the
\* calls, accepts nobody, marks only committed rows as seen and treats the wire well.
LEMMA QuietStep ==
  ASSUME ElectionInv, UNCHANGED <<rows, pending, handling>>,
         TriesOK', CallsStay, NoneAccepted,
         registry' \subseteq Voters, snapshot' \in [Voters -> SUBSET Voters],
         up' \in BOOLEAN, handling # NoBallot => up', ~up' => pending = <<>>,
         seen' \subseteq load_nullifiers,
         crashes' \in 0 .. MaxCrashes, faults' \in 0 .. MaxFaults,
         \A b \in wire' : IsBallot(b)', WireOK'
  PROVE  ElectionInv' /\ Extends
<1>1. TriesOK
  BY DEF ElectionInv, TypeOK
<1>2. \A b : IsBallot(b) => IsBallot(b)'
  BY <1>1, BallotStays
<1>4. Table' = Table /\ load_nullifiers' = load_nullifiers
  BY DEF Table, load_nullifiers, Voter
<1>5. seen' \subseteq Voters
  <2>1. PICK R : rows \in Seq(R) /\ pending \in Seq(R)
    BY DEF ElectionInv, SeqsOK
  <2>2. \A i \in 1 .. Len(rows) : i \in 1 .. Len(Table) /\ Table[i] = rows[i]
    BY <2>1, Concatenated DEF Table
  <2>3. \A i \in 1 .. Len(Table) : Voter(Table[i].ballot) \in Voters
    BY DEF ElectionInv, TypeOK, IsBallot
  <2> QED  BY <2>2, <2>3 DEF load_nullifiers
<1>6. TypeOK'
  <2>1. \A i \in 1 .. Len(Table') : IsBallot(Table[i].ballot)'
    <3> SUFFICES ASSUME NEW i \in 1 .. Len(Table) PROVE IsBallot(Table[i].ballot)'
      BY <1>4
    <3> DEFINE c == Table[i].ballot
    <3>1. IsBallot(c)
      BY DEF ElectionInv, TypeOK
    <3> QED  BY <1>2, <1>4, <3>1 DEF IsBallot, Voter
  <2>2. handling' # NoBallot => up' /\ IsBallot(handling)'
    BY <1>2 DEF ElectionInv, TypeOK, IsBallot, Voter
  <2> QED  BY <1>4, <1>5, <2>1, <2>2 DEF TypeOK, TriesOK, Try
<1>7. (SeqsOK /\ OneVotePerVoter /\ SeenCommitted /\ HandlingLast)'
  BY <1>4 DEF ElectionInv, SeqsOK, OneVotePerVoter, SeenCommitted, HandlingLast, Voter
<1>8. AcceptedCounted'
  BY DEF ElectionInv, AcceptedCounted, NoneAccepted, Voter
<1>9. Extends
  BY RowsInTable DEF ElectionInv, Extends
<1> QED  BY <1>6, <1>7, <1>8, <1>9 DEF ElectionInv

\* The wire only loses ballots and the handler only ends.
LEMMA WireShrinks ==
  ASSUME ElectionInv, wire' \subseteq wire, handling' \in {handling, NoBallot}
  PROVE  WireOK'
  BY DEF ElectionInv, WireOK, SameCall, Voter

\* register_voter, FetchRegistry and LoseBallot touch neither calls nor board.
LEMMA OutsideStep ==
  ASSUME ElectionInv,
         \/ \E v \in Voters : register_voter(v) \/ FetchRegistry(v)
         \/ \E b \in wire : LoseBallot(b)
  PROVE  ElectionInv' /\ Extends
<1>1. UNCHANGED <<rows, pending, handling, tries, seen, up, crashes, faults>> /\ wire' \subseteq wire
  BY DEF register_voter, FetchRegistry, LoseBallot, board, client
<1>2. registry' \subseteq Voters /\ snapshot' \in [Voters -> SUBSET Voters]
  BY DEF register_voter, FetchRegistry, LoseBallot, client, ElectionInv, TypeOK
<1>3. TriesOK /\ TriesOK' /\ CallsStay /\ NoneAccepted
  <2>1. TriesOK  BY DEF ElectionInv, TypeOK
  <2>2. \A v_1 \in Voters : Len(tries[v_1]) \in Nat  BY <2>1 DEF TriesOK
  <2> QED  BY <1>1, <2>1, <2>2 DEF TriesOK, CallsStay, NoneAccepted
<1>4. \A c \in wire' : IsBallot(c)'
  BY <1>1, <1>3, BallotStays DEF ElectionInv, TypeOK
<1>5. WireOK'
  BY <1>1, WireShrinks
<1> QED  BY <1>1, <1>2, <1>3, <1>4, <1>5, QuietStep DEF ElectionInv, TypeOK, SeenCommitted

\* BulletinBoard is opened again: what is seen is read from the committed rows.
LEMMA OpenStep ==
  ASSUME ElectionInv, initialize_server
  PROVE  ElectionInv' /\ Extends
<1>1. UNCHANGED <<rows, pending, handling, tries, wire, registry, snapshot, crashes, faults>> /\ up'
  BY DEF initialize_server, client
<1>2. TriesOK /\ TriesOK' /\ CallsStay /\ NoneAccepted
  <2>1. TriesOK  BY DEF ElectionInv, TypeOK
  <2>2. \A v \in Voters : Len(tries[v]) \in Nat  BY <2>1 DEF TriesOK
  <2> QED  BY <1>1, <2>1, <2>2 DEF TriesOK, CallsStay, NoneAccepted
<1>3. \A c \in wire' : IsBallot(c)'
  BY <1>1, <1>2, BallotStays DEF ElectionInv, TypeOK
<1>4. WireOK'
  BY <1>1, WireShrinks
<1>5. seen' \subseteq load_nullifiers
  BY DEF initialize_server
<1> QED  BY <1>1, <1>2, <1>3, <1>4, <1>5, QuietStep DEF ElectionInv, TypeOK, initialize_server

\* The client's side of a broken connection.
LEMMA DisconnectStep ==
  ASSUME ElectionInv, NEW v \in Voters, Disconnect(v)
  PROVE  ElectionInv' /\ Extends
<1>1. UNCHANGED <<rows, pending, handling, wire, registry, snapshot, up, seen, crashes, faults>>
  BY DEF Disconnect, board
<1>2. TriesOK
  BY DEF ElectionInv, TypeOK
<1>3. TriesOK' /\ CallsStay /\ NoneAccepted
  <2> DEFINE old == tries[v]
             n == Len(old)
             new == [old EXCEPT ![n] = [old[n] EXCEPT !.answer = "error"]]
  <2>1. old \in Seq(Try) /\ n \in 1 .. Len(old)
    BY <1>2 DEF TriesOK, Disconnect, Waiting
  <2>2. tries' = [tries EXCEPT ![v] = new]
    BY DEF Disconnect
  <2>3. old[n] \in Try
    BY <2>1
  <2>4. new \in Seq(Try) /\ Len(new) = Len(old)
    BY <2>1, <2>3 DEF Try, Answers
  <2>5. \A t \in 1 .. Len(old) :
          /\ new[t].option = old[t].option
          /\ new[t].answer = IF t = n THEN "error" ELSE old[t].answer
    BY <2>1, <2>3 DEF Try
  <2> HIDE DEF new, n, old
  <2>6. tries' \in [Voters -> Seq(Try)] /\ \A w \in Voters : tries'[w] = IF w = v THEN new ELSE tries[w]
    BY <1>2, <2>2, <2>4 DEF TriesOK
  <2>7. \A w \in Voters : Len(tries'[w]) = Len(tries[w]) /\ Len(tries[w]) \in Nat
    <3>1. \A w \in Voters : tries[w] \in Seq(Try)
      BY <1>2 DEF TriesOK
    <3>2. \A w \in Voters : Len(tries[w]) \in Nat
      BY <3>1
    <3> QED  BY <2>4, <2>6, <3>2 DEF old
  <2>8. TriesOK'
    <3>1. \A t \in 1 .. Len(old) : new[t].answer # "waiting"
      BY <1>2, <2>5 DEF TriesOK, old, n
    <3>2. \A w \in Voters : \A t \in 1 .. Len(tries'[w]) : tries'[w][t].answer = "waiting" => t = Len(tries'[w])
      BY <1>2, <2>6, <2>7, <3>1 DEF TriesOK, old
    <3> QED  BY <1>2, <2>6, <2>7, <3>2 DEF TriesOK
  <2>9. CallsStay
    <3>1. old[n].answer = "waiting"
      BY <1>2 DEF Disconnect, Waiting, TriesOK, old, n
    <3> QED  BY <2>5, <2>6, <2>7, <3>1 DEF CallsStay, old
  <2>10. NoneAccepted
    BY <2>5, <2>6, <2>7 DEF NoneAccepted, old
  <2> QED  BY <2>8, <2>9, <2>10
<1>4. \A c \in wire' : IsBallot(c)'
  BY <1>1, <1>2, <1>3, BallotStays DEF ElectionInv, TypeOK
<1>5. WireOK'
  BY <1>1, WireShrinks
<1> QED  BY <1>1, <1>3, <1>4, <1>5, QuietStep DEF ElectionInv, TypeOK, SeenCommitted

\* append_ballot refuses.
LEMMA RefuseStep ==
  ASSUME ElectionInv, NEW b \in wire, Refuse(b)
  PROVE  ElectionInv' /\ Extends
<1>1. UNCHANGED <<rows, pending, handling, registry, snapshot, up, seen, crashes, faults>> /\ wire' \subseteq wire
  BY DEF Refuse, board
<1>2. TriesOK /\ IsBallot(b)
  BY DEF ElectionInv, TypeOK
<1>3. TriesOK' /\ CallsStay /\ NoneAccepted
  <2>1. "rejected" \in Answers /\ Answer(b, "rejected")
    BY DEF Refuse, Answers
  <2>2. \A v \in Voters : Len(tries[v]) \in Nat
    BY <1>2 DEF TriesOK
  <2> QED  BY <1>2, <2>1, <2>2, AnswerStep DEF CallsStay, NoneAccepted
<1>4. \A c \in wire' : IsBallot(c)'
  BY <1>1, <1>2, <1>3, BallotStays DEF ElectionInv, TypeOK
<1>5. WireOK'
  BY <1>1, WireShrinks
<1> QED  BY <1>1, <1>3, <1>4, <1>5, QuietStep DEF ElectionInv, TypeOK, SeenCommitted

\* cast_vote: a new call with a ballot of its own.
LEMMA CastStep ==
  ASSUME ElectionInv, NEW v \in Voters, NEW option \in Options,
         NEW r \in [Options -> Randoms], cast_vote(v, option, r)
  PROVE  ElectionInv' /\ Extends
<1> DEFINE call == [option |-> option, answer |-> "waiting"]
           n == Len(tries[v]) + 1
           b == create_ballot(v, RootOf[snapshot[v]], option, r, n)
<1>1. UNCHANGED <<rows, pending, handling, registry, snapshot, up, seen, crashes, faults>>
  BY DEF cast_vote, board
<1>2. TriesOK
  BY DEF ElectionInv, TypeOK
<1>3. /\ tries' = [tries EXCEPT ![v] = Append(tries[v], call)]
      /\ wire' = wire \cup {b}
      /\ Len(tries[v]) < MaxTries[v]
  BY DEF cast_vote
<1>4. tries[v] \in Seq(Try) /\ call \in Try /\ n \in Nat
  <2>1. tries[v] \in Seq(Try)  BY <1>2 DEF TriesOK
  <2>2. call \in Try  BY DEF Try, Answers
  <2> QED  BY <2>1, <2>2
<1>5. Voter(b) = v /\ b.timestamp = n /\ b.votes # <<>> /\ b.proof.inputs = <<b.proof.inputs[1], Voter(b)>>
  <2>1. b.proof = [inputs |-> <<RootOf[snapshot[v]], v>>, nullifier |-> v] /\ b.timestamp = n
    BY DEF create_ballot, create_membership_proof, Nullifier
  <2>2. DOMAIN b.votes = Options /\ 1 \in Options
    BY BoundsAssumption DEF create_ballot, Options
  <2> HIDE DEF b, n
  <2>3. b.votes # <<>>
    BY <2>2
  <2>4. Voter(b) = v /\ b.proof.inputs = <<RootOf[snapshot[v]], v>>
    BY <2>1 DEF Voter
  <2>5. b.proof.inputs = <<b.proof.inputs[1], Voter(b)>>
    BY <2>4
  <2> QED  BY <2>1, <2>3, <2>4, <2>5
<1> HIDE DEF b, call
<1>6. /\ tries' \in [Voters -> Seq(Try)]
      /\ \A w \in Voters : w # v => tries'[w] = tries[w]
      /\ Len(tries'[v]) = n
      /\ \A t \in 1 .. Len(tries[v]) : tries'[v][t] = tries[v][t]
      /\ tries'[v][n] = call
      /\ \A w \in Voters : Len(tries[w]) \in Nat
  BY <1>2, <1>3, <1>4 DEF TriesOK
<1>7. TriesOK'
  <2>1. \A w \in Voters : Len(tries'[w]) <= MaxTries[w]
    BY <1>2, <1>3, <1>6, BoundsAssumption DEF TriesOK
  <2>2. \A t \in 1 .. Len(tries[v]) : tries[v][t].answer # "waiting"
    BY DEF cast_vote, Waiting
  <2>3. ASSUME NEW w \in Voters, NEW t \in 1 .. Len(tries'[w]), tries'[w][t].answer = "waiting"
        PROVE  t = Len(tries'[w])
    <3>1. CASE w = v
      <4>1. Len(tries[v]) \in Nat /\ Len(tries'[v]) = Len(tries[v]) + 1
        BY <1>6
      <4>2. CASE t \in 1 .. Len(tries[v])
        <5>1. tries'[v][t] = tries[v][t] /\ tries[v][t].answer # "waiting"
          BY <1>6, <2>2, <4>2
        <5> QED  BY <2>3, <3>1, <5>1
      <4>3. CASE t \notin 1 .. Len(tries[v])
        BY <3>1, <4>1, <4>3
      <4> QED  BY <4>2, <4>3
    <3>2. CASE w # v
      BY <1>2, <1>6, <2>3, <3>2 DEF TriesOK
    <3> QED  BY <3>1, <3>2
  <2> QED  BY <1>6, <2>1, <2>3 DEF TriesOK
<1>8. CallsStay
  BY <1>6 DEF CallsStay
<1>9. NoneAccepted
  <2>1. call.answer # "accepted"
    BY DEF call
  <2> QED  BY <1>6, <2>1 DEF NoneAccepted
<1>10. \A c \in wire' : IsBallot(c)'
  <2>1. ASSUME NEW c \in wire PROVE IsBallot(c)'
    <3>1. IsBallot(c)  BY DEF ElectionInv, TypeOK
    <3> QED  BY <1>2, <1>7, <1>8, <3>1, BallotStays
  <2>2. Voter(b) \in Voters /\ b.timestamp \in 1 .. Len(tries'[Voter(b)])
    BY <1>4, <1>5, <1>6
  <2>3. ASSUME NEW c \in {b} PROVE IsBallot(c)'
    BY <2>2 DEF IsBallot, Voter
  <2> QED  BY <1>3, <2>1, <2>3
<1>11. WireOK'
  <2>1. ASSUME NEW c, IsBallot(c) PROVE ~SameCall(b, c) /\ ~SameCall(c, b)
    BY <1>2, <1>4, <1>5, <2>1 DEF IsBallot, SameCall, TriesOK
  <2>2. \A c \in wire : IsBallot(c)
    BY DEF ElectionInv, TypeOK
  <2>3. handling # NoBallot => IsBallot(handling)
    BY DEF ElectionInv, TypeOK
  <2>4. ASSUME NEW c \in wire' PROVE c.votes # <<>> /\ c.proof.inputs = <<c.proof.inputs[1], Voter(c)>>
    BY <1>3, <1>5 DEF ElectionInv, WireOK
  <2>5. ASSUME NEW c \in wire', NEW d \in wire', SameCall(c, d) PROVE c = d
    BY <1>3, <2>1, <2>2, <2>5 DEF ElectionInv, WireOK
  <2>6. ASSUME NEW c \in wire', handling # NoBallot PROVE ~SameCall(c, handling)
    BY <1>3, <2>1, <2>3, <2>6 DEF ElectionInv, WireOK
  <2> QED  BY <1>1, <2>4, <2>5, <2>6 DEF WireOK, SameCall, Voter
<1> QED  BY <1>1, <1>7, <1>8, <1>9, <1>10, <1>11, QuietStep DEF ElectionInv, TypeOK, SeenCommitted

-----------------------------------------------------------------------------
(* Steps that change the table. *)

\* The handler ends without a commit, and the open transaction may be undone.
LEMMA UndoneStep ==
  ASSUME ElectionInv, rows' = rows, pending' \in {pending, <<>>}, handling' = NoBallot,
         TriesOK', CallsStay, NoneAccepted, wire' \subseteq wire,
         UNCHANGED <<registry, snapshot>>,
         up' \in BOOLEAN, ~up' => pending' = <<>>,
         seen' \subseteq seen,
         crashes' \in 0 .. MaxCrashes, faults' \in 0 .. MaxFaults
  PROVE  ElectionInv' /\ Extends
<1>1. TriesOK /\ SeqsOK
  BY DEF ElectionInv, TypeOK
<1>2. PICK R : rows \in Seq(R) /\ pending \in Seq(R)
  BY <1>1 DEF SeqsOK
<1>3. SeqsOK'
  <2>1. <<>> \in Seq(R)
    OBVIOUS
  <2>2. rows' \in Seq(R) /\ pending' \in Seq(R)
    BY <1>2, <2>1
  <2> QED  BY <2>2 DEF SeqsOK
<1>4. Len(Table') <= Len(Table) /\ Len(Table') \in Nat /\ Len(Table) \in Nat /\ \A i \in 1 .. Len(Table') : Table'[i] = Table[i]
  <2>1. CASE pending' = pending
    BY <1>2, <2>1, Concatenated DEF Table
  <2>2. CASE pending' = <<>>
    <3>1. Len(Table') = Len(rows) /\ \A i \in 1 .. Len(rows) : Table'[i] = rows[i]
      BY <1>2, <2>2 DEF Table
    <3> QED  BY <1>1, <3>1, RowsInTable
  <2> QED  BY <2>1, <2>2
<1>5. \A i \in 1 .. Len(Table') : IsBallot(Table[i].ballot)'
  <2> SUFFICES ASSUME NEW i \in 1 .. Len(Table') PROVE IsBallot(Table[i].ballot)'
    OBVIOUS
  <2> DEFINE c == Table[i].ballot
  <2>1. IsBallot(c)
    BY <1>4 DEF ElectionInv, TypeOK
  <2>2. Voter(c) \in Voters /\ c.timestamp \in 1 .. Len(tries'[Voter(c)])
    BY <1>1, <2>1, BallotStays DEF IsBallot, TriesOK, CallsStay
  <2>3. Table'[i].ballot = c
    BY <1>4
  <2> QED  BY <2>2, <2>3 DEF IsBallot, Voter
<1>6. \A b \in wire' : IsBallot(b)'
  BY <1>1, BallotStays DEF ElectionInv, TypeOK
<1>7. TypeOK'
  BY <1>5, <1>6 DEF ElectionInv, TypeOK, TriesOK, Try
<1>8. OneVotePerVoter'
  BY <1>4 DEF ElectionInv, OneVotePerVoter, Voter
<1>9. (SeenCommitted /\ HandlingLast)'
  BY DEF ElectionInv, SeenCommitted, HandlingLast, load_nullifiers, Voter
<1>10. AcceptedCounted'
  BY DEF ElectionInv, AcceptedCounted, NoneAccepted, Voter
<1>11. WireOK'
  BY WireShrinks
<1>12. Extends
  BY <1>1, RowsInTable DEF Extends
<1> QED  BY <1>3, <1>7, <1>8, <1>9, <1>10, <1>11, <1>12 DEF ElectionInv

\* A commit that fails.
LEMMA CommitFailsStep ==
  ASSUME ElectionInv, CommitFails
  PROVE  ElectionInv' /\ Extends
<1>1. /\ UNCHANGED <<registry, snapshot, wire, up, seen, rows, crashes>>
      /\ handling' = NoBallot /\ pending' \in {pending, <<>>}
      /\ faults < MaxFaults /\ faults' = faults + 1 /\ handling # NoBallot
  BY DEF CommitFails
<1>2. TriesOK /\ IsBallot(handling) /\ up
  BY <1>1 DEF ElectionInv, TypeOK
<1>3. TriesOK' /\ CallsStay /\ NoneAccepted
  <2>1. "rejected" \in Answers /\ Answer(handling, "rejected")
    BY DEF CommitFails, Answers
  <2>2. \A v \in Voters : Len(tries[v]) \in Nat
    BY <1>2 DEF TriesOK
  <2> QED  BY <1>2, <2>1, <2>2, AnswerStep DEF CallsStay, NoneAccepted
<1>4. crashes' \in 0 .. MaxCrashes /\ faults' \in 0 .. MaxFaults /\ up' \in BOOLEAN
  BY <1>1, BoundsAssumption DEF ElectionInv, TypeOK
<1> QED  BY <1>1, <1>2, <1>3, <1>4, UndoneStep

\* The process ends.
LEMMA CrashStep ==
  ASSUME ElectionInv, Crash
  PROVE  ElectionInv' /\ Extends
<1> DEFINE ended(c) == IF c.answer = "waiting" THEN [c EXCEPT !.answer = "error"] ELSE c
<1>1. /\ UNCHANGED <<registry, snapshot, rows, faults>>
      /\ handling' = NoBallot /\ pending' = <<>> /\ seen' = {} /\ wire' = {} /\ up' = FALSE
      /\ crashes < MaxCrashes /\ crashes' = crashes + 1
      /\ tries' = [v \in Voters |-> [t \in 1 .. Len(tries[v]) |-> ended(tries[v][t])]]
  BY DEF Crash
<1>2. TriesOK
  BY DEF ElectionInv, TypeOK
<1>3. \A c \in Try : ended(c) \in Try /\ ended(c).option = c.option
                     /\ (ended(c).answer = "accepted" <=> c.answer = "accepted")
                     /\ ended(c).answer # "waiting"
  BY DEF Try, Answers
<1> HIDE DEF ended
<1>4. ASSUME NEW v \in Voters
      PROVE  /\ tries'[v] \in Seq(Try) /\ Len(tries'[v]) = Len(tries[v]) /\ Len(tries[v]) \in Nat
             /\ \A t \in 1 .. Len(tries[v]) : tries[v][t] \in Try /\ tries'[v][t] = ended(tries[v][t])
  <2>1. tries[v] \in Seq(Try)
    BY <1>2 DEF TriesOK
  <2>2. Len(tries[v]) \in Nat /\ \A t \in 1 .. Len(tries[v]) : tries[v][t] \in Try
    BY <2>1
  <2>3. tries'[v] = [t \in 1 .. Len(tries[v]) |-> ended(tries[v][t])]
    BY <1>1
  <2> QED  BY <1>3, <2>2, <2>3
<1>5. tries' \in [Voters -> Seq(Try)]
  <2>1. DOMAIN tries' = Voters /\ tries' = [v \in Voters |-> tries'[v]]
    BY <1>1
  <2> QED  BY <1>4, <2>1
<1>6. TriesOK'
  BY <1>2, <1>3, <1>4, <1>5 DEF TriesOK
<1>7. CallsStay /\ NoneAccepted
  BY <1>3, <1>4 DEF CallsStay, NoneAccepted
<1>8. crashes' \in 0 .. MaxCrashes /\ faults' \in 0 .. MaxFaults
  BY <1>1, BoundsAssumption DEF ElectionInv, TypeOK
<1> QED  BY <1>1, <1>6, <1>7, <1>8, UndoneStep

\* A row that is inserted comes last, and no other row is its voter's.
LEMMA InsertStep ==
  ASSUME ElectionInv, NEW b \in wire, Insert(b)
  PROVE  ElectionInv' /\ Extends
<1> DEFINE e == Entry(b)
<1>1. /\ UNCHANGED <<registry, snapshot, tries, up, root, seen, rows, crashes, faults>>
      /\ wire' = wire \ {b} /\ pending' = Append(pending, e) /\ handling' = b
      /\ up /\ ~Taken(b) /\ handling = NoBallot
  BY DEF Insert, client, Refused
<1>2. TriesOK /\ SeqsOK /\ IsBallot(b) /\ e.ballot = b
  BY DEF ElectionInv, TypeOK, TriesOK, Try, Entry
<1> HIDE DEF e
<1>3. PICK R : rows \in Seq(R) /\ pending \in Seq(R)
  BY <1>2 DEF SeqsOK
<1>4. rows \in Seq(R \cup {e}) /\ pending \in Seq(R \cup {e})
  BY <1>3
<1>5. rows' \in Seq(R \cup {e}) /\ pending' \in Seq(R \cup {e}) /\ pending' # <<>> /\ pending'[Len(pending')] = e
  BY <1>1, <1>4
<1>6. /\ Len(Table) \in Nat /\ Len(Table') = Len(Table) + 1 /\ Table'[Len(Table) + 1] = e
      /\ \A i \in 1 .. Len(Table) : Table'[i] = Table[i]
  BY <1>1, <1>4 DEF Table
<1>7. TypeOK'
  <2>1. \A i \in 1 .. Len(Table') : IsBallot(Table'[i].ballot)
    BY <1>2, <1>6 DEF ElectionInv, TypeOK
  <2>2. \A c : IsBallot(c) => (Voter(c) \in Voters /\ c.timestamp \in 1 .. Len(tries'[Voter(c)]))
    BY <1>1 DEF IsBallot
  <2>3. \A i \in 1 .. Len(Table') : IsBallot(Table[i].ballot)'
    BY <2>1, <2>2 DEF IsBallot, Voter
  <2>4. IsBallot(handling)' /\ \A c \in wire' : IsBallot(c)'
    BY <1>1, <1>2 DEF ElectionInv, TypeOK, IsBallot, Voter
  <2> QED  BY <1>1, <2>3, <2>4 DEF ElectionInv, TypeOK
<1>8. OneVotePerVoter'
  BY <1>1, <1>2, <1>6 DEF ElectionInv, OneVotePerVoter, Taken, Voter
<1>9. (SeqsOK /\ SeenCommitted /\ HandlingLast)'
  <2>1. SeqsOK'  BY <1>5 DEF SeqsOK
  <2>2. SeenCommitted'  BY <1>1 DEF ElectionInv, SeenCommitted, load_nullifiers, Voter
  <2>3. HandlingLast'  BY <1>1, <1>2, <1>5 DEF HandlingLast
  <2> QED  BY <2>1, <2>2, <2>3
<1>10. AcceptedCounted'
  BY <1>1 DEF ElectionInv, AcceptedCounted, Voter
<1>11. WireOK'
  BY <1>1 DEF ElectionInv, WireOK, SameCall, Voter
<1>12. TriesOK' /\ Extends
  <2>1. \A v \in Voters : Len(tries[v]) \in Nat
    BY <1>2 DEF TriesOK
  <2> QED  BY <1>1, <1>2, <2>1, RowsInTable DEF TriesOK, Extends, CallsStay
<1> QED  BY <1>7, <1>8, <1>9, <1>10, <1>11, <1>12 DEF ElectionInv

\* A commit keeps the table as it is, and the ballot accepted is its last row.
LEMMA CommittedTable ==
  ASSUME ElectionInv, Commit
  PROVE  /\ rows' = Table /\ pending' = <<>> /\ Table' = Table /\ SeqsOK'
         /\ Len(Table) \in 1 .. Len(Table) /\ Table[Len(Table)].ballot = handling
<1>1. PICK R : rows \in Seq(R) /\ pending \in Seq(R)
  BY DEF ElectionInv, SeqsOK
<1>2. rows' = Table /\ pending' = <<>> /\ handling # NoBallot
  BY DEF Commit
<1>3. Table \in Seq(R)
  BY <1>1, Concatenated DEF Table
<1>4. Table' = Table /\ SeqsOK'
  <2>1. Table \o <<>> = Table  BY <1>3
  <2>2. Table' = Table  BY <1>2, <2>1 DEF Table
  <2>3. rows' \in Seq(R) /\ pending' \in Seq(R)  BY <1>2, <1>3
  <2> QED  BY <2>2, <2>3 DEF SeqsOK
<1>5. Len(pending) \in 1 .. Len(pending) /\ pending[Len(pending)].ballot = handling
  BY <1>1, <1>2 DEF ElectionInv, HandlingLast
<1>6. Len(Table) = Len(rows) + Len(pending) /\ Table[Len(rows) + Len(pending)] = pending[Len(pending)] /\ Len(rows) \in Nat
  BY <1>5, RowsInTable DEF ElectionInv
<1> QED  BY <1>2, <1>4, <1>5, <1>6

\* The commit: what is accepted or seen is in the table.
LEMMA CommitStep ==
  ASSUME ElectionInv, Commit
  PROVE  ElectionInv' /\ Extends
<1>1. /\ UNCHANGED <<registry, snapshot, wire, up, root, crashes, faults>>
      /\ seen' = seen \cup {Voter(handling)} /\ handling' = NoBallot /\ handling # NoBallot
  BY DEF Commit
<1>2. TriesOK /\ SeqsOK /\ IsBallot(handling) /\ up
  BY <1>1 DEF ElectionInv, TypeOK
<1>3. /\ rows' = Table /\ pending' = <<>> /\ Table' = Table /\ SeqsOK'
      /\ Len(Table) \in 1 .. Len(Table) /\ Table[Len(Table)].ballot = handling
  BY CommittedTable
<1>4. /\ TriesOK'
      /\ \A v \in Voters : Len(tries'[v]) = Len(tries[v]) /\ Len(tries[v]) \in Nat
      /\ \A v \in Voters : \A t \in 1 .. Len(tries[v]) :
           /\ tries'[v][t].option = tries[v][t].option
           /\ tries[v][t].answer = "accepted" => tries'[v][t].answer = "accepted"
           /\ tries'[v][t].answer = "accepted" =>
                \/ tries[v][t].answer = "accepted"
                \/ v = Voter(handling) /\ t = handling.timestamp
  <2>1. "accepted" \in Answers /\ Answer(handling, "accepted")
    BY DEF Commit, Answers
  <2>2. \A v \in Voters : Len(tries[v]) \in Nat
    BY <1>2 DEF TriesOK
  <2> QED  BY <1>2, <2>1, <2>2, AnswerStep
<1>5. CallsStay
  BY <1>4 DEF CallsStay
<1>6. \A c : IsBallot(c) => (Voter(c) \in Voters /\ c.timestamp \in 1 .. Len(tries'[Voter(c)]))
  BY <1>4 DEF IsBallot
<1>7. TypeOK'
  <2>1. \A i \in 1 .. Len(Table') : IsBallot(Table'[i].ballot)
    BY <1>3 DEF ElectionInv, TypeOK
  <2>2. \A i \in 1 .. Len(Table') : IsBallot(Table[i].ballot)'
    BY <1>6, <2>1 DEF IsBallot, Voter
  <2>3. \A c \in wire' : IsBallot(c)'
    BY <1>1, <1>6 DEF ElectionInv, TypeOK, IsBallot, Voter
  <2>4. seen' \subseteq Voters
    BY <1>1, <1>2 DEF ElectionInv, TypeOK, IsBallot
  <2> QED  BY <1>1, <1>2, <1>3, <1>4, <2>2, <2>3, <2>4 DEF ElectionInv, TypeOK, TriesOK, Try
<1>8. OneVotePerVoter'
  BY <1>3 DEF ElectionInv, OneVotePerVoter, Voter
<1>9. SeenCommitted'
  <2>1. load_nullifiers' = {Voter(Table[i].ballot) : i \in 1 .. Len(Table)}
    BY <1>3 DEF load_nullifiers, Voter
  <2>2. Voter(handling) \in load_nullifiers'
    BY <1>3, <2>1
  <2>3. load_nullifiers \subseteq load_nullifiers'
    BY <1>2, <2>1, RowsInTable DEF load_nullifiers
  <2> QED  BY <1>1, <2>2, <2>3 DEF ElectionInv, SeenCommitted
<1>10. HandlingLast'
  BY <1>1 DEF HandlingLast
<1>11. AcceptedCounted'
  <2> SUFFICES ASSUME NEW v \in Voters, NEW t \in 1 .. Len(tries[v]), tries'[v][t].answer = "accepted"
               PROVE  \E i \in 1 .. Len(Table) : Voter(Table[i].ballot) = v /\ Table[i].ballot.timestamp = t
    BY <1>3, <1>4 DEF AcceptedCounted, Voter
  <2>1. CASE tries[v][t].answer = "accepted"
    <3>1. PICK i \in 1 .. Len(rows) : Voter(rows[i].ballot) = v /\ rows[i].ballot.timestamp = t
      BY <2>1 DEF ElectionInv, AcceptedCounted
    <3>2. i \in 1 .. Len(Table) /\ Table[i] = rows[i]
      BY <1>2, RowsInTable
    <3> QED  BY <3>1, <3>2
  <2>2. CASE v = Voter(handling) /\ t = handling.timestamp
    BY <1>3, <2>2
  <2> QED  BY <1>4, <2>1, <2>2
<1>12. WireOK'
  BY <1>1, WireShrinks
<1>13. Extends
  BY <1>2, <1>3, <1>5, RowsInTable DEF Extends
<1> QED  BY <1>3, <1>4, <1>7, <1>8, <1>9, <1>10, <1>11, <1>12, <1>13 DEF ElectionInv

-----------------------------------------------------------------------------
(* The theorems. *)

\* An election that has not begun satisfies the invariant.
LEMMA ElectionInit == Init => ElectionInv
<1> SUFFICES ASSUME Init PROVE ElectionInv
  OBVIOUS
<1>1. /\ registry = {} /\ snapshot = [v \in Voters |-> {}] /\ tries = [v \in Voters |-> <<>>]
      /\ wire = {} /\ up = FALSE /\ seen = {} /\ rows = <<>> /\ pending = <<>> /\ handling = NoBallot
      /\ crashes = 0 /\ faults = 0
  BY DEF Init
<1>2. Table = <<>> /\ SeqsOK
  <2>1. rows \in Seq({}) /\ pending \in Seq({})  BY <1>1
  <2> QED  BY <1>1, <2>1 DEF Table, SeqsOK
<1>3. tries \in [Voters -> Seq(Try)] /\ \A v \in Voters : Len(tries[v]) = 0
  BY <1>1
<1>4. TriesOK
  BY <1>3, BoundsAssumption DEF TriesOK
<1>6. TypeOK
  <2>1. snapshot \in [Voters -> SUBSET Voters]
    BY <1>1
  <2>2. tries \in [Voters -> Seq([option : Options, answer : Answers])] /\ \A v \in Voters : Len(tries[v]) <= MaxTries[v]
    BY <1>4 DEF TriesOK, Try
  <2>3. \A i \in 1 .. Len(Table) : IsBallot(Table[i].ballot)
    BY <1>2
  <2>4. crashes \in 0 .. MaxCrashes /\ faults \in 0 .. MaxFaults
    BY <1>1, BoundsAssumption
  <2> QED  BY <1>1, <2>1, <2>2, <2>3, <2>4 DEF TypeOK
<1>5. OneVotePerVoter /\ SeenCommitted /\ HandlingLast /\ AcceptedCounted /\ WireOK
  BY <1>1, <1>2, <1>3 DEF OneVotePerVoter, SeenCommitted, HandlingLast, AcceptedCounted, WireOK
<1> QED  BY <1>2, <1>4, <1>5, <1>6 DEF ElectionInv

\* A stuttering step keeps the invariant.
LEMMA ElectionStutter ==
  ASSUME ElectionInv, UNCHANGED vars
  PROVE  ElectionInv' /\ Extends
<1>1. UNCHANGED <<registry, snapshot, tries, wire, up, seen, rows, pending, handling, crashes, faults>>
  BY DEF vars, client, board
<1>2. TypeOK'
  BY <1>1 DEF ElectionInv, TypeOK, Table, IsBallot, Voter
<1>3. (SeqsOK /\ OneVotePerVoter /\ SeenCommitted /\ HandlingLast)'
  <2>1. (SeqsOK /\ HandlingLast)'
    BY <1>1 DEF ElectionInv, SeqsOK, HandlingLast
  <2>2. OneVotePerVoter'
    BY <1>1 DEF ElectionInv, OneVotePerVoter, Table, Voter
  <2>3. SeenCommitted'
    BY <1>1 DEF ElectionInv, SeenCommitted, load_nullifiers, Voter
  <2> QED  BY <2>1, <2>2, <2>3
<1>4. (AcceptedCounted /\ WireOK)'
  BY <1>1 DEF ElectionInv, AcceptedCounted, WireOK, SameCall, Voter
<1>5. TriesOK' /\ Extends
  <2>1. \A v \in Voters : Len(tries[v]) \in Nat
    BY DEF ElectionInv, TriesOK
  <2> QED  BY <1>1, <2>1, RowsInTable DEF ElectionInv, TriesOK, Extends, CallsStay
<1> QED  BY <1>2, <1>3, <1>4, <1>5 DEF ElectionInv

\* Every step keeps the invariant, and changes no call and no committed row.
LEMMA ElectionNext == ElectionInv /\ [Next]_vars => ElectionInv' /\ Extends
<1> SUFFICES ASSUME ElectionInv, [Next]_vars PROVE ElectionInv' /\ Extends
  OBVIOUS
<1>1. CASE \/ \E v \in Voters : register_voter(v) \/ FetchRegistry(v)
           \/ \E b \in wire : LoseBallot(b)
  BY <1>1, OutsideStep
<1>2. CASE \E v \in Voters : Disconnect(v)
  BY <1>2, DisconnectStep
<1>3. CASE \E v \in Voters, option \in Options, r \in [Options -> Randoms] : cast_vote(v, option, r)
  BY <1>3, CastStep
<1>4. CASE \E b \in wire : Refuse(b)
  BY <1>4, RefuseStep
<1>5. CASE \E b \in wire : Insert(b)
  BY <1>5, InsertStep
<1>6. CASE initialize_server
  BY <1>6, OpenStep
<1>7. CASE Commit
  BY <1>7, CommitStep
<1>8. CASE CommitFails
  BY <1>8, CommitFailsStep
<1>9. CASE Crash
  BY <1>9, CrashStep
<1>10. CASE UNCHANGED vars
  BY <1>10, ElectionStutter
<1> QED  BY <1>1, <1>2, <1>3, <1>4, <1>5, <1>6, <1>7, <1>8, <1>9, <1>10 DEF Next

\* The inductive invariant holds of every election.
THEOREM ElectionInvariance == Spec => []ElectionInv
  BY ElectionInit, ElectionNext, PTL DEF Spec

\* Ballots on the wire, in the handler and in the table belong to calls of cast_vote.
THEOREM ElectionTypes == Spec => []TypeOK
<1>1. ElectionInv => TypeOK
  BY DEF ElectionInv
<1> QED  BY <1>1, ElectionInvariance, PTL

\* append_ballot never lets a voter into the table twice.
THEOREM NobodyTwice == Spec => []OneVotePerVoter
<1>1. ElectionInv => OneVotePerVoter
  BY DEF ElectionInv
<1> QED  BY <1>1, ElectionInvariance, PTL

\* A client told "accepted" finds its ballot in the committed table.
THEOREM AcceptedStays == Spec => []AcceptedCounted
<1>1. ElectionInv => AcceptedCounted
  BY DEF ElectionInv
<1> QED  BY <1>1, ElectionInvariance, PTL

-----------------------------------------------------------------------------
(* Refusals. *)

\* Calls that a step does not answer "rejected".
NoneRejected ==
    \A v \in Voters : \A t \in 1 .. Len(tries[v]) :
        tries[v][t].answer = "waiting" => tries'[v][t].answer # "rejected"

\* What RefusalExplained says of one step.
Explained ==
    \A b \in wire :
       (/\ tries[Voter(b)][b.timestamp].answer = "waiting"
        /\ tries'[Voter(b)][b.timestamp].answer = "rejected")
       => Taken(b) \/ b.proof.inputs[1] # root

\* Only Refuse and CommitFails answer "rejected".
LEMMA OthersDoNotReject ==
  ASSUME ElectionInv,
         \/ \E v \in Voters : register_voter(v) \/ FetchRegistry(v) \/ Disconnect(v)
         \/ \E v \in Voters, option \in Options, r \in [Options -> Randoms] : cast_vote(v, option, r)
         \/ \E b \in wire : LoseBallot(b) \/ Insert(b)
         \/ initialize_server \/ Commit \/ Crash
         \/ UNCHANGED vars
  PROVE  NoneRejected
<1>1. TriesOK
  BY DEF ElectionInv
<1>2. CASE tries' = tries
  BY <1>2 DEF NoneRejected
<1>3. ASSUME NEW v \in Voters, Disconnect(v) PROVE NoneRejected
  <2>1. tries' = [tries EXCEPT ![v] = [tries[v] EXCEPT ![Len(tries[v])] =
                    [tries[v][Len(tries[v])] EXCEPT !.answer = "error"]]]
    BY <1>3 DEF Disconnect
  <2>2. tries \in [Voters -> Seq(Try)]
    BY <1>1 DEF TriesOK
  <2>3. \A w \in Voters : w # v => tries'[w] = tries[w]
    BY <2>1, <2>2
  <2>4. \A t \in 1 .. Len(tries[v]) : tries'[v][t] =
          IF t = Len(tries[v]) THEN [tries[v][t] EXCEPT !.answer = "error"] ELSE tries[v][t]
    <3> DEFINE old == tries[v]
               last == [old[Len(old)] EXCEPT !.answer = "error"]
    <3>1. old \in Seq(Try) /\ tries'[v] = [old EXCEPT ![Len(old)] = last]
      BY <2>1, <2>2
    <3>2. \A t \in 1 .. Len(old) : t \in DOMAIN old
      BY <3>1
    <3> HIDE DEF last, old
    <3>3. \A t \in 1 .. Len(old) : tries'[v][t] = IF t = Len(old) THEN last ELSE old[t]
      BY <3>1, <3>2
    <3> QED  BY <3>3 DEF old, last
  <2>5. \A t \in 1 .. Len(tries[v]) : [tries[v][t] EXCEPT !.answer = "error"].answer = "error"
    <3>1. \A t \in 1 .. Len(tries[v]) : tries[v][t] \in Try
      BY <2>2
    <3> QED  BY <3>1 DEF Try
  <2> QED  BY <2>3, <2>4, <2>5, ZenonT(30) DEF NoneRejected
<1>4. ASSUME NEW v \in Voters, NEW option \in Options, NEW r \in [Options -> Randoms],
             cast_vote(v, option, r)
      PROVE  NoneRejected
  <2>1. tries' = [tries EXCEPT ![v] = Append(tries[v], [option |-> option, answer |-> "waiting"])]
    BY <1>4 DEF cast_vote
  <2>2. tries \in [Voters -> Seq(Try)]
    BY <1>1 DEF TriesOK
  <2>3. \A w \in Voters : \A t \in 1 .. Len(tries[w]) : tries'[w][t] = tries[w][t]
    BY <2>1, <2>2
  <2> QED  BY <2>3 DEF NoneRejected
<1>5. CASE Commit
  <2>1. IsBallot(handling) /\ "accepted" \in Answers /\ Answer(handling, "accepted")
    BY <1>5 DEF Commit, Answers, ElectionInv, TypeOK
  <2>2. \A v \in Voters : \A t \in 1 .. Len(tries[v]) :
          tries'[v][t].answer \in {"accepted", tries[v][t].answer}
    BY <1>1, <2>1, AnswerStep
  <2> QED  BY <2>2 DEF NoneRejected
<1>6. CASE Crash
  <2>1. tries' = [v \in Voters |-> [t \in 1 .. Len(tries[v]) |->
                    IF tries[v][t].answer = "waiting" THEN [tries[v][t] EXCEPT !.answer = "error"]
                    ELSE tries[v][t]]]
    BY <1>6 DEF Crash
  <2>2. \A v \in Voters : tries[v] \in Seq(Try)
    BY <1>1 DEF TriesOK
  <2>3. \A v \in Voters : \A t \in 1 .. Len(tries[v]) : tries[v][t] \in Try
    BY <2>2
  <2>4. \A c \in Try : [c EXCEPT !.answer = "error"].answer = "error"
    BY DEF Try
  <2>5. \A v \in Voters : \A t \in 1 .. Len(tries[v]) :
          tries[v][t].answer = "waiting" => tries'[v][t] = [tries[v][t] EXCEPT !.answer = "error"]
    BY <2>1
  <2> QED  BY <2>3, <2>4, <2>5 DEF NoneRejected
<1>7. \/ tries' = tries
      \/ \E v \in Voters : Disconnect(v)
      \/ \E v \in Voters, option \in Options, r \in [Options -> Randoms] : cast_vote(v, option, r)
      \/ Commit \/ Crash
  BY DEF register_voter, FetchRegistry, LoseBallot, Insert, initialize_server, client, vars
<1> QED  BY <1>2, <1>3, <1>4, <1>5, <1>6, <1>7

\* A refused ballot has its voter in the table, or proves membership under another root.
LEMMA RefuseExplained ==
  ASSUME ElectionInv, NEW c \in wire, Refuse(c)
  PROVE  Explained
<1> SUFFICES ASSUME NEW b \in wire,
                    tries[Voter(b)][b.timestamp].answer = "waiting",
                    tries'[Voter(b)][b.timestamp].answer = "rejected"
             PROVE  Taken(b) \/ b.proof.inputs[1] # root
  BY DEF Explained
<1>1. TriesOK /\ IsBallot(c) /\ IsBallot(b) /\ Answer(c, "rejected") /\ "rejected" \in Answers /\ Refused(c)
  BY DEF ElectionInv, TypeOK, Refuse, Answers
<1>2. SameCall(b, c)
  BY <1>1, AnswerStep DEF SameCall, IsBallot
<1>3. b = c
  BY <1>2 DEF ElectionInv, WireOK
<1>4. CASE check_nullifier_used(b)
  <2>1. PICK i \in 1 .. Len(rows) : Voter(rows[i].ballot) = Voter(b)
    BY <1>4 DEF check_nullifier_used, ElectionInv, SeenCommitted, load_nullifiers
  <2>2. i \in 1 .. Len(Table) /\ Table[i] = rows[i]
    BY RowsInTable DEF ElectionInv
  <2> QED  BY <2>1, <2>2 DEF Taken
<1>5. CASE ~validate_ballot(b)
  <2>1. b.votes # <<>> /\ b.proof.inputs = <<b.proof.inputs[1], Voter(b)>>
    BY DEF ElectionInv, WireOK
  <2>2. b.proof.inputs # <<root, Voter(b)>>
    BY <1>5, <2>1 DEF validate_ballot, verify_membership_proof, Voter
  <2> QED  BY <2>1, <2>2
<1> QED  BY <1>1, <1>3, <1>4, <1>5 DEF Refused

\* The commit that fails belongs to a ballot that has left the wire.
LEMMA CommitFailsExplained ==
  ASSUME ElectionInv, CommitFails
  PROVE  Explained
<1> SUFFICES ASSUME NEW b \in wire,
                    tries[Voter(b)][b.timestamp].answer = "waiting",
                    tries'[Voter(b)][b.timestamp].answer = "rejected"
             PROVE  FALSE
  BY DEF Explained
<1>1. TriesOK /\ IsBallot(handling) /\ IsBallot(b) /\ Answer(handling, "rejected")
      /\ "rejected" \in Answers /\ handling # NoBallot
  BY DEF ElectionInv, TypeOK, CommitFails, Answers
<1>2. SameCall(b, handling)
  BY <1>1, AnswerStep DEF SameCall, IsBallot
<1> QED  BY <1>1, <1>2 DEF ElectionInv, WireOK

\* append_ballot refuses a ballot on the wire only for a voter that is in the table, or
\* for a root that is not the board's.
THEOREM RefusalsExplained == Spec => RefusalExplained
<1>1. ElectionInv /\ [Next]_vars => [Explained]_vars
  <2> SUFFICES ASSUME ElectionInv, [Next]_vars PROVE Explained
    OBVIOUS
  <2>1. NoneRejected => Explained
    BY DEF NoneRejected, Explained, ElectionInv, TypeOK, IsBallot
  <2>2. CASE \E c \in wire : Refuse(c)
    BY <2>2, RefuseExplained
  <2>3. CASE CommitFails
    BY <2>3, CommitFailsExplained
  <2> QED  BY <2>1, <2>2, <2>3, OthersDoNotReject DEF Next
<1>2. [Explained]_vars => [\A b \in wire :
       (/\ tries[Voter(b)][b.timestamp].answer = "waiting"
        /\ tries'[Voter(b)][b.timestamp].answer = "rejected")
       => Taken(b) \/ b.proof.inputs[1] # root]_vars
  BY DEF Explained
<1> QED  BY <1>1, <1>2, ElectionInvariance, PTL DEF Spec, RefusalExplained

-----------------------------------------------------------------------------
(* The committed table implements Poll. *)

\* The choice a row counts for, and that it is a choice of a voter.
LEMMA CountedChoice ==
  ASSUME ElectionInv, NEW i \in 1 .. Len(rows)
  PROVE  /\ Voter(rows[i].ballot) \in load_nullifiers
         /\ Counted[Voter(rows[i].ballot)] = ChoiceOf(rows[i])
         /\ ChoiceOf(rows[i]) \in Options
         /\ IsBallot(rows[i].ballot)
<1>1. i \in 1 .. Len(Table) /\ Table[i] = rows[i]
  BY RowsInTable DEF ElectionInv
<1>2. Voter(rows[i].ballot) \in load_nullifiers
  BY DEF load_nullifiers
<1>3. IsBallot(rows[i].ballot)
  BY <1>1 DEF ElectionInv, TypeOK
<1>4. ChoiceOf(rows[i]) \in Options
  <2> DEFINE v == Voter(rows[i].ballot)
             t == rows[i].ballot.timestamp
  <2>1. v \in Voters /\ t \in 1 .. Len(tries[v])
    BY <1>3 DEF IsBallot
  <2>2. tries[v] \in Seq(Try)
    BY <2>1 DEF ElectionInv, TriesOK
  <2>3. tries[v][t] \in Try
    BY <2>1, <2>2
  <2> QED  BY <2>3 DEF ChoiceOf, Try
<1>5. Counted[Voter(rows[i].ballot)] = ChoiceOf(rows[i])
  <2> DEFINE v == Voter(rows[i].ballot)
             j == CHOOSE k \in 1 .. Len(rows) : Voter(rows[k].ballot) = v
  <2>1. j \in 1 .. Len(rows) /\ Voter(rows[j].ballot) = v
    OBVIOUS
  <2>2. j \in 1 .. Len(Table) /\ Table[j] = rows[j]
    BY <2>1, RowsInTable DEF ElectionInv
  <2>3. j = i
    BY <1>1, <2>1, <2>2 DEF ElectionInv, OneVotePerVoter
  <2>4. Counted[v] = ChoiceOf(rows[j])
    BY <1>2 DEF Counted
  <2> QED  BY <2>3, <2>4
<1> QED  BY <1>2, <1>3, <1>4, <1>5

ChoicesCounted ==
    \A i \in 1 .. Len(rows) :
        /\ Voter(rows[i].ballot) \in load_nullifiers
        /\ Counted[Voter(rows[i].ballot)] = ChoiceOf(rows[i])
        /\ ChoiceOf(rows[i]) \in Options
        /\ Voter(rows[i].ballot) \in Voters

\* Every committed row is counted for what its voter chose.
LEMMA EveryChoiceCounted == ElectionInv => ChoicesCounted
  BY CountedChoice DEF ChoicesCounted, IsBallot

\* What is accepted is counted.
LEMMA ConfirmedCounted ==
  ASSUME ElectionInv
  PROVE  Confirmed \subseteq load_nullifiers
<1> SUFFICES ASSUME NEW v \in Confirmed PROVE v \in load_nullifiers
  OBVIOUS
<1>1. PICK t \in 1 .. Len(tries[v]) : v \in Voters /\ tries[v][t].answer = "accepted"
  BY DEF Confirmed
<1>2. PICK i \in 1 .. Len(rows) : Voter(rows[i].ballot) = v
  BY <1>1 DEF ElectionInv, AcceptedCounted
<1> QED  BY <1>2 DEF load_nullifiers

\* A step that adds rows and calls, and changes none, is a step of Poll.
LEMMA PollStep ==
  ASSUME ElectionInv, ElectionInv', Extends
  PROVE  PollOf!Next
<1> DEFINE new == load_nullifiers' \ load_nullifiers
           choice == [v \in new |-> Counted'[v]]
<1>1. DOMAIN Counted = load_nullifiers /\ DOMAIN Counted' = load_nullifiers'
  BY DEF Counted
<1>2. Len(rows) \in Nat /\ Len(rows') \in Nat
  <2>1. SeqsOK /\ SeqsOK'
    BY DEF ElectionInv
  <2>2. PICK R : rows' \in Seq(R)
    BY <2>1 DEF SeqsOK
  <2> QED  BY <2>1, <2>2, RowsInTable
<1>3. \A i \in 1 .. Len(rows') :
        /\ Voter(rows'[i].ballot) \in load_nullifiers'
        /\ Counted'[Voter(rows'[i].ballot)] = ChoiceOf(rows[i])'
        /\ ChoiceOf(rows[i])' \in Options
        /\ Voter(rows'[i].ballot) \in Voters
  <2>1. (ElectionInv => ChoicesCounted)'
    BY EveryChoiceCounted, PTL
  <2> QED  BY <2>1 DEF ChoicesCounted, Voter
<1>4. \A v \in load_nullifiers' : v \in Voters /\ Counted'[v] \in Options
  <2> SUFFICES ASSUME NEW v \in load_nullifiers' PROVE v \in Voters /\ Counted'[v] \in Options
    OBVIOUS
  <2>1. PICK i \in 1 .. Len(rows') : v = Voter(rows'[i].ballot)
    BY DEF load_nullifiers, Voter
  <2> QED  BY <1>3, <2>1
<1>5. \A v \in load_nullifiers : v \in load_nullifiers' /\ Counted'[v] = Counted[v]
  <2> SUFFICES ASSUME NEW v \in load_nullifiers PROVE v \in load_nullifiers' /\ Counted'[v] = Counted[v]
    OBVIOUS
  <2>1. PICK i \in 1 .. Len(rows) : v = Voter(rows[i].ballot)
    BY DEF load_nullifiers
  <2>2. i \in 1 .. Len(rows') /\ rows'[i] = rows[i]
    BY <1>2 DEF Extends
  <2>3. Counted[v] = ChoiceOf(rows[i]) /\ IsBallot(rows[i].ballot)
    BY <2>1, CountedChoice
  <2>4. ChoiceOf(rows[i])' = ChoiceOf(rows[i])
    BY <2>2, <2>3 DEF ChoiceOf, Extends, CallsStay, IsBallot, Voter
  <2> QED  BY <1>3, <2>1, <2>2, <2>3, <2>4
<1>6. Confirmed \subseteq Confirmed' /\ Confirmed' \subseteq load_nullifiers'
  <2>1. (ElectionInv => Confirmed \subseteq load_nullifiers)'
    BY ConfirmedCounted, PTL
  <2>2. \A v \in Voters : Len(tries[v]) \in Nat /\ Len(tries'[v]) \in Nat
    BY DEF ElectionInv, TriesOK
  <2>3. Confirmed \subseteq Confirmed'
    BY <2>2 DEF Confirmed, Extends, CallsStay
  <2> QED  BY <2>1, <2>3
<1>7. Counted' = [v \in DOMAIN Counted \cup new |->
                    IF v \in DOMAIN Counted THEN Counted[v] ELSE choice[v]]
  <2>1. DOMAIN Counted \cup new = load_nullifiers'
    BY <1>1, <1>5
  <2>2. Counted' = [v \in load_nullifiers' |-> Counted'[v]]
    BY DEF Counted
  <2>3. \A v \in load_nullifiers' : Counted'[v] = IF v \in DOMAIN Counted THEN Counted[v] ELSE choice[v]
    BY <1>1, <1>5
  <2> QED  BY <2>1, <2>2, <2>3
<1>8. new \in SUBSET (Voters \ DOMAIN Counted) /\ choice \in [new -> Options]
  BY <1>1, <1>4
<1>9. Confirmed' \in SUBSET (DOMAIN Counted \cup new) /\ Confirmed' = Confirmed \cup Confirmed'
  BY <1>1, <1>6
<1> QED  BY <1>7, <1>8, <1>9 DEF PollOf!Next, PollOf!Count

\* An election implements Poll: votes are added for new voters, none is changed or lost,
\* and whoever is told "accepted" is counted, through crashes and commits that fail.
THEOREM ElectionCounts == Spec => CountsVotes
<1>1. Init => PollOf!Init
  <2> SUFFICES ASSUME Init PROVE Counted = << >> /\ Confirmed = {}
    BY DEF PollOf!Init
  <2>1. rows = <<>> /\ tries = [v \in Voters |-> <<>>]
    BY DEF Init
  <2>2. load_nullifiers = {}
    BY <2>1 DEF load_nullifiers
  <2>3. Counted = << >>
    BY <2>2 DEF Counted
  <2> QED  BY <2>1, <2>3 DEF Confirmed
<1>2. ElectionInv /\ [Next]_vars => [PollOf!Next]_(PollOf!vars)
  BY ElectionNext, PollStep
<1> QED  BY <1>1, <1>2, ElectionInvariance, PTL DEF Spec, CountsVotes, PollOf!Spec

-----------------------------------------------------------------------------
(* The audit. *)

\* While there was no crash, the table began after the board was opened and its ballots
\* were validated with the root the board still has.
AuditInv ==
    /\ verify_chain_integrity(Table)
    /\ crashes = 0 =>
         /\ \A i \in 1 .. Len(Table) : validate_ballot(Table[i].ballot)
         /\ ~up => Table = <<>>

\* The table a step leaves is the former one, or the first rows of it, or the former one
\* with an entry for a ballot that was not refused.
Shorter ==
    /\ Len(Table') <= Len(Table)
    /\ \A i \in 1 .. Len(Table') : Table'[i] = Table[i]

Longer(b) ==
    /\ ~Refused(b)
    /\ Len(Table') = Len(Table) + 1
    /\ \A i \in 1 .. Len(Table) : Table'[i] = Table[i]
    /\ Table'[Len(Table) + 1] = Entry(b)

\* The table is a sequence before and after.
LEMMA TableLength ==
  ASSUME SeqsOK
  PROVE  Len(Table) \in Nat /\ (Len(Table) = 0 => Table = <<>>)
<1>1. PICK R : rows \in Seq(R) /\ pending \in Seq(R)
  BY DEF SeqsOK
<1>2. Table \in Seq(R)
  BY <1>1, Concatenated DEF Table
<1> QED  BY <1>2

\* TableLength as an implication.
LEMMA TableIsLong == SeqsOK => Len(Table) \in Nat /\ (Len(Table) = 0 => Table = <<>>)
  BY TableLength

\* What a step may do to the table, the root and the server.
LEMMA TableSteps ==
  ASSUME ElectionInv, [Next]_vars
  PROVE  /\ Shorter \/ \E b \in wire : Longer(b) /\ up /\ UNCHANGED <<up, root>>
         /\ \/ UNCHANGED <<up, root>> /\ crashes' = crashes
            \/ ~up /\ crashes' = crashes
            \/ crashes' = crashes + 1
<1>1. PICK R : rows \in Seq(R) /\ pending \in Seq(R)
  BY DEF ElectionInv, SeqsOK
<1>2. Table \in Seq(R) /\ Len(Table) \in Nat
  BY <1>1, Concatenated DEF Table
<1>3. CASE UNCHANGED <<rows, pending>>
  <2>1. Table' = Table
    BY <1>3 DEF Table
  <2>2. Shorter
    BY <1>2, <2>1 DEF Shorter
  <2>3. \/ UNCHANGED <<up, root>> /\ crashes' = crashes
        \/ ~up /\ crashes' = crashes
        \/ crashes' = crashes + 1
    BY DEF Next, vars, register_voter, FetchRegistry, Disconnect, cast_vote, LoseBallot, Refuse,
           Insert, initialize_server, Commit, CommitFails, Crash, board
  <2> QED  BY <2>2, <2>3
<1>4. ASSUME NEW b \in wire, Insert(b) PROVE Longer(b) /\ up /\ UNCHANGED <<up, root, crashes>>
  <2> DEFINE e == Entry(b)
  <2>1. /\ rows' = rows /\ pending' = Append(pending, e) /\ ~Refused(b) /\ up
        /\ UNCHANGED <<up, root, crashes>>
    BY <1>4 DEF Insert
  <2> HIDE DEF e
  <2>2. rows \in Seq(R \cup {e}) /\ pending \in Seq(R \cup {e})
    BY <1>1
  <2>3. /\ Len(Table') = Len(Table) + 1 /\ Table'[Len(Table) + 1] = e
        /\ \A i \in 1 .. Len(Table) : Table'[i] = Table[i]
    BY <2>1, <2>2 DEF Table
  <2> QED  BY <2>1, <2>3 DEF Longer, e
<1>5. CASE Commit
  <2>1. Table' = Table /\ UNCHANGED <<up, root, crashes>>
    BY <1>5, CommittedTable DEF Commit
  <2> QED  BY <1>2, <2>1 DEF Shorter
<1>6. CASE pending' = <<>> /\ rows' = rows /\ (CommitFails \/ Crash)
  <2>1. Len(Table') = Len(rows) /\ \A i \in 1 .. Len(rows) : Table'[i] = rows[i]
    BY <1>1, <1>6 DEF Table
  <2>2. Shorter
    BY <2>1, RowsInTable DEF Shorter, ElectionInv
  <2>3. (UNCHANGED <<up, root>> /\ crashes' = crashes) \/ crashes' = crashes + 1
    BY <1>6 DEF CommitFails, Crash
  <2> QED  BY <2>2, <2>3
<1>7. \/ UNCHANGED <<rows, pending>>
      \/ \E b \in wire : Insert(b)
      \/ Commit
      \/ pending' = <<>> /\ rows' = rows /\ (CommitFails \/ Crash)
  BY DEF Next, vars, register_voter, FetchRegistry, Disconnect, cast_vote, LoseBallot, Refuse,
         initialize_server, CommitFails, Crash, board
<1> QED  BY <1>3, <1>4, <1>5, <1>6, <1>7

\* The chain and the validity of the ballots survive a step.
LEMMA AuditNext ==
  ASSUME ElectionInv, ElectionInv', AuditInv, [Next]_vars
  PROVE  AuditInv'
<1>1. Len(Table) \in Nat /\ (Len(Table) = 0 => Table = <<>>)
  BY TableIsLong DEF ElectionInv
<1>2. Len(Table') \in Nat /\ (Len(Table') = 0 => Table' = <<>>)
  <2>1. (SeqsOK => Len(Table) \in Nat /\ (Len(Table) = 0 => Table = <<>>))'
    BY TableIsLong, PTL
  <2> QED  BY <2>1 DEF ElectionInv
<1>3. crashes \in Nat /\ crashes' \in Nat
  BY BoundsAssumption DEF ElectionInv, TypeOK
<1>4. CASE Shorter
  <2>1. verify_chain_integrity(Table)'
    <3> SUFFICES ASSUME NEW i \in 1 .. Len(Table')
                 PROVE  /\ Table'[i].previous = IF i = 1 THEN Genesis ELSE Table'[i - 1].hash
                        /\ Table'[i].hash = EntryHash(Table'[i].ballot, Table'[i].previous)
      BY DEF verify_chain_integrity, EntryHash, Genesis
    <3>1. i \in 1 .. Len(Table) /\ (i # 1 => i - 1 \in 1 .. Len(Table'))
      BY <1>1, <1>2, <1>4 DEF Shorter
    <3> QED  BY <1>4, <3>1 DEF AuditInv, verify_chain_integrity, Shorter
  <2>2. ASSUME crashes' = 0
        PROVE  (\A i \in 1 .. Len(Table) : validate_ballot(Table[i].ballot))' /\ (~up' => Table' = <<>>)
    <3>1. crashes = 0 /\ (UNCHANGED <<up, root>> \/ ~up)
      BY <1>3, <2>2, TableSteps
    <3>2. CASE ~up
      <4>1. Len(Table') = 0
        BY <1>1, <1>2, <1>4, <3>1, <3>2 DEF AuditInv, Shorter
      <4> QED  BY <1>2, <4>1
    <3>3. CASE up /\ UNCHANGED <<up, root>>
      <4>1. \A i \in 1 .. Len(Table') : validate_ballot(Table[i].ballot) /\ Table'[i] = Table[i]
        BY <1>1, <1>2, <1>4, <3>1 DEF AuditInv, Shorter
      <4> QED  BY <3>3, <4>1 DEF validate_ballot
    <3> QED  BY <3>1, <3>2, <3>3
  <2> QED  BY <2>1, <2>2 DEF AuditInv
<1>5. ASSUME NEW b, Longer(b), up, UNCHANGED <<up, root>> PROVE AuditInv'
  <2> DEFINE e == Entry(b)
             m == Len(Table) + 1
  <2>1. e.ballot = b /\ e.previous = get_last_hash(Table) /\ e.hash = EntryHash(b, e.previous)
    BY DEF Entry
  <2> HIDE DEF e
  <2>2. /\ ~Refused(b) /\ Len(Table') = m /\ Table'[m] = e
        /\ \A i \in 1 .. Len(Table) : Table'[i] = Table[i]
    BY <1>5 DEF Longer, e
  <2>3. e.previous = IF m = 1 THEN Genesis ELSE Table'[m - 1].hash
    <3>1. CASE m = 1
      BY <1>1, <2>1, <3>1 DEF get_last_hash
    <3>2. CASE m # 1
      <4>1. Table # <<>> /\ Len(Table) \in 1 .. Len(Table)
        BY <1>1, <3>2
      <4> QED  BY <2>1, <2>2, <3>2, <4>1 DEF get_last_hash
    <3> QED  BY <3>1, <3>2
  <2>4. verify_chain_integrity(Table)'
    <3> SUFFICES ASSUME NEW i \in 1 .. m
                 PROVE  /\ Table'[i].previous = IF i = 1 THEN Genesis ELSE Table'[i - 1].hash
                        /\ Table'[i].hash = EntryHash(Table'[i].ballot, Table'[i].previous)
      BY <2>2 DEF verify_chain_integrity, EntryHash, Genesis
    <3>1. CASE i = m
      BY <2>1, <2>2, <2>3, <3>1
    <3>2. CASE i # m
      <4>1. i \in 1 .. Len(Table) /\ (i # 1 => i - 1 \in 1 .. Len(Table))
        BY <1>1, <3>2
      <4> QED  BY <2>2, <4>1 DEF AuditInv, verify_chain_integrity
    <3> QED  BY <3>1, <3>2
  <2>5. ASSUME crashes' = 0
        PROVE  (\A i \in 1 .. Len(Table) : validate_ballot(Table[i].ballot))' /\ (~up' => Table' = <<>>)
    <3>1. crashes = 0 /\ validate_ballot(b)
      BY <1>3, <2>2, <2>5, TableSteps DEF Refused
    <3>2. \A i \in 1 .. m : i = m \/ i \in 1 .. Len(Table)
      BY <1>1
    <3>3. \A i \in 1 .. m : validate_ballot(Table'[i].ballot)
      BY <2>1, <2>2, <3>1, <3>2 DEF AuditInv
    <3> QED  BY <1>5, <2>2, <3>3 DEF validate_ballot
  <2> QED  BY <2>4, <2>5 DEF AuditInv
<1> QED  BY <1>4, <1>5, TableSteps

\* The audit confirms the chain through commits that fail, rows that vanish with a crash
\* and rows committed late, and every ballot as long as no crash has changed the root.
THEOREM AuditAlwaysPasses == Spec => []AuditPasses
<1>1. Init => AuditInv
  <2> SUFFICES ASSUME Init PROVE AuditInv
    OBVIOUS
  <2>1. Table = <<>>
    BY DEF Init, Table
  <2> QED  BY <2>1 DEF AuditInv, verify_chain_integrity
<1>2. ElectionInv /\ ElectionInv' /\ AuditInv /\ [Next]_vars => AuditInv'
  BY AuditNext
<1>3. ElectionInv /\ AuditInv => AuditPasses
  <2> SUFFICES ASSUME ElectionInv, AuditInv PROVE AuditPasses
    OBVIOUS
  <2>1. verify_chain_integrity(rows)
    <3> SUFFICES ASSUME NEW i \in 1 .. Len(rows)
                 PROVE  /\ rows[i].previous = IF i = 1 THEN Genesis ELSE rows[i - 1].hash
                        /\ rows[i].hash = EntryHash(rows[i].ballot, rows[i].previous)
      BY DEF verify_chain_integrity
    <3>1. Len(rows) \in Nat /\ \A k \in 1 .. Len(rows) : k \in 1 .. Len(Table) /\ Table[k] = rows[k]
      BY RowsInTable DEF ElectionInv
    <3>2. i # 1 => i - 1 \in 1 .. Len(rows)
      BY <3>1
    <3> QED  BY <3>1, <3>2 DEF AuditInv, verify_chain_integrity
  <2> QED  BY <2>1 DEF AuditInv, AuditPasses, verify_all_ballots
<1> QED  BY <1>1, <1>2, <1>3, ElectionInvariance, PTL DEF Spec


-----------------------------------------------------------------------------
(* The tally.  The ballots' ciphertexts encrypt the choices made in the    *)
(* calls of cast_vote, and the loop of get_tally adds them up, by an       *)
(* induction over the rows of the table.                                   *)

\* A non-empty set of numbers has a least member.
LEMMA LeastExists ==
    ASSUME NEW S, S \subseteq Nat, S # {}
    PROVE  \E i \in S : \A k \in S : i <= k
<1>1. \E R : IsWellFoundedOn(R, Nat) /\ \A i, k \in Nat : k < i => <<k, i>> \in R
  <2>1. \A i, k \in Nat : k < i => <<k, i>> \in OpToRel(<, Nat)
    BY DEF OpToRel
  <2>2. QED
    BY <2>1, NatLessThanWellFounded, Zenon
<1>2. PICK R : IsWellFoundedOn(R, Nat) /\ \A i, k \in Nat : k < i => <<k, i>> \in R
  BY <1>1
<1>3. PICK i \in S : \A k \in S : ~ (<<k, i>> \in R)
  BY <1>2, WFMin
<1>4. \A k \in S : i \in Nat /\ k \in Nat /\ ~ (k < i)
  BY <1>2, <1>3
<1>5. QED
  BY <1>4

\* Induction over 0 .. n for a set of numbers.
LEMMA UpTo ==
    ASSUME NEW n \in Nat, NEW S, 0 \in S, \A i \in 0 .. n : i > 0 /\ i - 1 \in S => i \in S
    PROVE  \A i \in 0 .. n : i \in S
<1> DEFINE Bad == {i \in 0 .. n : i \notin S}
<1>1. SUFFICES ASSUME Bad # {} PROVE FALSE
  OBVIOUS
<1>2. PICK i \in Bad : \A k \in Bad : i <= k
  <2>1. Bad \subseteq Nat
    OBVIOUS
  <2>2. QED
    BY <1>1, <2>1, LeastExists
<1>3. i \in 0 .. n /\ i \notin S /\ i # 0
  OBVIOUS
<1>4. i - 1 \in 0 .. n /\ i - 1 \notin Bad
  <2>1. i - 1 \in 0 .. n /\ ~ (i <= i - 1)
    BY <1>3
  <2> HIDE DEF Bad
  <2>2. QED
    BY <1>2, <2>1
<1>5. QED
  BY <1>3, <1>4

\* A ballot holds an encrypted one for the option of its call, and zeros elsewhere.
Seal(m, x) == Encrypted[m, x]
SealedBy(b, calls) ==
    \A o \in Options : \E x \in Randoms :
        b.votes[o] = Seal(IF o = calls[Voter(b)][b.timestamp].option THEN 1 ELSE 0, x)

SealInv ==
    /\ \A b \in wire : SealedBy(b, tries)
    /\ \A i \in 1 .. Len(Table) : SealedBy(Table[i].ballot, tries)

LEMMA SealedStays ==
  ASSUME CallsStay, NEW b, IsBallot(b), SealedBy(b, tries)
  PROVE  SealedBy(b, tries')
<1>1. tries'[Voter(b)][b.timestamp].option = tries[Voter(b)][b.timestamp].option
  BY DEF CallsStay, IsBallot
<1> QED  BY <1>1 DEF SealedBy

\* Only cast_vote puts a ballot on the wire.
LEMMA WireGrows ==
  ASSUME [Next]_vars
  PROVE  \/ wire' \subseteq wire
         \/ \E v \in Voters, option \in Options, r \in [Options -> Randoms] : cast_vote(v, option, r)
  BY DEF Next, vars, register_voter, FetchRegistry, Disconnect, LoseBallot, Refuse,
         Insert, initialize_server, Commit, CommitFails, Crash

\* The ballot of cast_vote encrypts the option its call records.
LEMMA CastSeals ==
  ASSUME ElectionInv, NEW v \in Voters, NEW option \in Options,
         NEW r \in [Options -> Randoms], cast_vote(v, option, r)
  PROVE  \A b \in wire' : b \in wire \/ SealedBy(b, tries')
<1> DEFINE call == [option |-> option, answer |-> "waiting"]
           n == Len(tries[v]) + 1
           c == create_ballot(v, RootOf[snapshot[v]], option, r, n)
<1>1. tries' = [tries EXCEPT ![v] = Append(tries[v], call)] /\ wire' = wire \cup {c}
  BY DEF cast_vote
<1>2. tries \in [Voters -> Seq(Try)] /\ call \in Try
  BY DEF ElectionInv, TriesOK, Try, Answers
<1>3. tries'[v][n].option = option
  <2>1. Append(tries[v], call)[n] = call /\ tries'[v] = Append(tries[v], call)
    BY <1>1, <1>2
  <2> QED  BY <2>1
<1>4. /\ Voter(c) = v /\ c.timestamp = n
      /\ \A o \in Options : c.votes[o] = Seal(IF o = option THEN 1 ELSE 0, r[o])
  BY DEF create_ballot, create_membership_proof, Nullifier, Voter, Seal
<1> HIDE DEF c, n, call
<1>5. SealedBy(c, tries')
  <2>1. \A o \in Options : r[o] \in Randoms
    OBVIOUS
  <2> QED  BY <1>3, <1>4, <2>1 DEF SealedBy
<1> QED  BY <1>1, <1>5

LEMMA SealNext ==
  ASSUME ElectionInv, SealInv, [Next]_vars
  PROVE  SealInv'
<1>1. CallsStay
  BY ElectionNext DEF Extends
<1>2. \A b : IsBallot(b) /\ SealedBy(b, tries) => SealedBy(b, tries')
  BY <1>1, SealedStays
<1>3. \A b \in wire : SealedBy(b, tries')
  BY <1>2 DEF ElectionInv, TypeOK, SealInv
<1>4. \A b \in wire' : SealedBy(b, tries')
  BY <1>3, WireGrows, CastSeals
<1>5. \A i \in 1 .. Len(Table) : SealedBy(Table[i].ballot, tries')
  BY <1>2 DEF ElectionInv, TypeOK, SealInv
<1>6. Len(Table) \in Nat
  BY TableIsLong DEF ElectionInv
<1>7. \A i \in 1 .. Len(Table') : SealedBy(Table'[i].ballot, tries')
  <2>1. CASE Shorter
    <3>1. Len(Table') \in Nat
      <4>1. (SeqsOK => Len(Table) \in Nat /\ (Len(Table) = 0 => Table = <<>>))'
        BY TableIsLong, PTL
      <4> QED  BY <4>1, ElectionNext DEF ElectionInv
    <3>2. \A i \in 1 .. Len(Table') : i \in 1 .. Len(Table) /\ Table'[i] = Table[i]
      BY <1>6, <2>1, <3>1 DEF Shorter
    <3> QED  BY <1>5, <3>2
  <2>2. ASSUME NEW b \in wire, Longer(b) PROVE \A i \in 1 .. Len(Table') : SealedBy(Table'[i].ballot, tries')
    <3>1. Entry(b).ballot = b
      BY DEF Entry
    <3>2. \A i \in 1 .. Len(Table') : i \in 1 .. Len(Table) \/ i = Len(Table) + 1
      BY <1>6, <2>2 DEF Longer
    <3> QED  BY <1>3, <1>5, <2>2, <3>1, <3>2 DEF Longer
  <2> QED  BY <2>1, <2>2, TableSteps
<1> QED  BY <1>4, <1>7 DEF SealInv, SealedBy, Voter

\* The recursive definition of tallying has a solution of any length.
LEMMA TallyingUpTo ==
  ASSUME NEW table, NEW n \in Nat
  PROVE  \E f : f = [i \in 0 .. n |-> IF i = 0 THEN NoVotes ELSE AddVotes(f[i - 1], table[i].ballot.votes)]
<1> DEFINE Solves(f, j) ==
             f = [i \in 0 .. j |-> IF i = 0 THEN NoVotes ELSE AddVotes(f[i - 1], table[i].ballot.votes)]
           S == {j \in Nat : \E f : Solves(f, j)}
<1>1. 0 \in S
  <2>1. Solves([i \in 0 .. 0 |-> NoVotes], 0)
    OBVIOUS
  <2> QED  BY <2>1
<1>2. ASSUME NEW j \in 0 .. n, j > 0, j - 1 \in S PROVE j \in S
  <2>1. PICK f : Solves(f, j - 1)
    BY <1>2
  <2> DEFINE g == [i \in 0 .. j |-> IF i = j THEN AddVotes(f[j - 1], table[j].ballot.votes) ELSE f[i]]
  <2>2. \A i \in 0 .. j : g[i] = IF i = 0 THEN NoVotes ELSE AddVotes(g[i - 1], table[i].ballot.votes)
    BY <1>2, <2>1
  <2>3. Solves(g, j)
    BY <2>2
  <2> HIDE DEF Solves, g
  <2>4. \E f0 : Solves(f0, j)
    BY <2>3
  <2> QED  BY <2>4, <1>2
<1>3. n \in S
  <2> HIDE DEF S
  <2>1. n \in 0 .. n
    OBVIOUS
  <2> QED  BY <1>1, <1>2, <2>1, UpTo
<1> QED  BY <1>3

\* The loop of get_tally, turn by turn.
LEMMA Tallying ==
  ASSUME NEW table, Len(table) \in Nat
  PROVE  /\ tallying(table)[0] = NoVotes
         /\ \A i \in 1 .. Len(table) :
              tallying(table)[i] = AddVotes(tallying(table)[i - 1], table[i].ballot.votes)
<1> DEFINE Solves(f) ==
             f = [i \in 0 .. Len(table) |-> IF i = 0 THEN NoVotes ELSE AddVotes(f[i - 1], table[i].ballot.votes)]
<1>1. \E f : Solves(f)
  BY TallyingUpTo
<1>2. tallying(table) = CHOOSE f : Solves(f)
  BY DEF tallying
<1>3. Solves(tallying(table))
  BY <1>1, <1>2, Zenon
<1>4. \A i \in 0 .. Len(table) :
        tallying(table)[i] = IF i = 0 THEN NoVotes ELSE AddVotes(tallying(table)[i - 1], table[i].ballot.votes)
  BY <1>3
<1> QED  BY <1>4


-----------------------------------------------------------------------------
(* Counting.  Votes(choice, i, o): the first i rows whose choice is o.     *)

Votes(choice, i, o) == {j \in 1 .. i : choice[j] = o}

LEMMA VotesGrow ==
  ASSUME NEW choice, NEW o, NEW i \in Nat \ {0}
  PROVE  /\ IsFiniteSet(Votes(choice, i, o)) /\ Cardinality(Votes(choice, i, o)) \in Nat
         /\ Cardinality(Votes(choice, i, o)) <= i
         /\ Cardinality(Votes(choice, i, o)) =
              Cardinality(Votes(choice, i - 1, o)) + IF choice[i] = o THEN 1 ELSE 0
<1> DEFINE before == Votes(choice, i - 1, o)
           now == Votes(choice, i, o)
<1>1. IsFiniteSet(1 .. i) /\ Cardinality(1 .. i) = i /\ IsFiniteSet(1 .. i - 1)
  BY FS_Interval
<1>2. now \in SUBSET (1 .. i) /\ before \in SUBSET (1 .. i - 1) /\ i \notin before
  BY DEF Votes
<1>3. IsFiniteSet(before) /\ IsFiniteSet(now) /\ Cardinality(now) <= i
  BY <1>1, <1>2, FS_Subset
<1>4. Cardinality(now) \in Nat /\ Cardinality(before) \in Nat
  BY <1>3, FS_CardinalityType
<1>5. CASE choice[i] = o
  <2>1. now = before \cup {i}
    BY <1>5 DEF Votes
  <2>2. Cardinality(before \cup {i}) = Cardinality(before) + 1
    BY <1>2, <1>3, FS_AddElement
  <2> QED  BY <1>3, <1>4, <1>5, <2>1, <2>2
<1>6. CASE choice[i] # o
  <2>1. now = before
    BY <1>6 DEF Votes
  <2> QED  BY <1>3, <1>4, <1>6, <2>1
<1> QED  BY <1>5, <1>6

LEMMA NoVotesYet ==
  ASSUME NEW choice, NEW o
  PROVE  Cardinality(Votes(choice, 0, o)) = 0
<1>1. Votes(choice, 0, o) = {}
  BY DEF Votes
<1> QED  BY <1>1, FS_EmptySet

\* A ciphertext of m.
Means(c, m) == c \in Ciphers /\ Decrypted[c] = m

\* What Homomorphic says of sealed bits and of sums.
LEMMA SealMeans ==
  ASSUME Homomorphic, NEW m \in {0, 1}, NEW x \in Randoms
  PROVE  Means(Seal(m, x), m)
  BY Zenon DEF Homomorphic, DecryptsBits, Means, Seal

LEMMA SumMeans ==
  ASSUME Homomorphic, NEW c, NEW d, NEW m \in Nat, NEW k \in Nat, Means(c, m), Means(d, k), m + k < key.n
  PROVE  Means(add_encrypted(key, c, d), m + k)
<1>1. add_encrypted(key, c, d) \in Ciphers /\ Decrypted[add_encrypted(key, c, d)] = (m + k) % key.n
  BY DEF Homomorphic, DecryptsSums, Means
<1>2. key.n \in Nat
  BY DEF Homomorphic
<1>3. (m + k) % key.n = m + k
  BY <1>2
<1> QED  BY <1>1, <1>3 DEF Means

LEMMA NotZero ==
  ASSUME Homomorphic, NEW c, NEW m, Means(c, m)
  PROVE  c # 0
  BY DEF Homomorphic, Means

\* The bits in the first rows are those of the choices.
Sealed(table, choice) ==
    \A i \in 1 .. Len(table) : \A o \in Options : \E x \in Randoms :
        table[i].ballot.votes[o] = Seal(IF o = choice[i] THEN 1 ELSE 0, x)

\* After i turns the sums are ciphertexts of the counts, for fewer rows than the modulus.
LEMMA TallyMeans ==
  ASSUME Homomorphic, NEW table, Len(table) \in Nat, Len(table) < key.n,
         NEW choice, Sealed(table, choice), NEW o \in Options
  PROVE  \A i \in 1 .. Len(table) : Means(tallying(table)[i][o], Cardinality(Votes(choice, i, o)))
<1> DEFINE sum(i) == tallying(table)[i][o]
           count(i) == Cardinality(Votes(choice, i, o))
           S == {i \in Nat : IF i = 0 THEN sum(i) = 0 ELSE Means(sum(i), count(i))}
           n == Len(table)
<1>1. 0 \in S
  BY Tallying DEF NoVotes
<1>2. ASSUME NEW i \in 0 .. n, i > 0, i - 1 \in S PROVE i \in S
  <2>1. i \in 1 .. n /\ i \in Nat \ {0} /\ i - 1 \in Nat
    BY <1>2
  <2> DEFINE bit == IF o = choice[i] THEN 1 ELSE 0
             vote == table[i].ballot.votes[o]
  <2>2. PICK x \in Randoms : vote = Seal(bit, x)
    BY <2>1 DEF Sealed
  <2>3. bit \in {0, 1} /\ Means(vote, bit)
    BY <2>2, SealMeans
  <2>4. sum(i) = IF sum(i - 1) = 0 THEN vote ELSE add_encrypted(key, sum(i - 1), vote)
    <3>1. tallying(table)[i] = AddVotes(tallying(table)[i - 1], table[i].ballot.votes)
      BY <2>1, Tallying
    <3> QED  BY <3>1 DEF AddVotes
  <2>5. count(i) \in Nat /\ count(i) <= i /\ count(i) = count(i - 1) + bit
    BY <2>1, VotesGrow
  <2> HIDE DEF sum, count, bit, vote
  <2>6. Means(sum(i), count(i))
    <3>1. CASE i - 1 = 0
      <4>1. sum(i - 1) = 0
        BY <1>2, <2>1, <3>1
      <4>2. count(i - 1) = 0
        BY <3>1, NoVotesYet DEF count
      <4>3. count(i) = bit
        BY <2>3, <2>5, <4>2
      <4> QED  BY <2>3, <2>4, <4>1, <4>3
    <3>2. CASE i - 1 # 0
      <4>1. Means(sum(i - 1), count(i - 1))
        BY <1>2, <3>2
      <4>2. sum(i - 1) # 0
        BY <4>1, NotZero
      <4>3. count(i - 1) \in Nat
        BY <2>1, <3>2, VotesGrow DEF count
      <4>4. count(i - 1) + bit < key.n
        <5>1. key.n \in Nat  BY DEF Homomorphic
        <5> QED  BY <2>1, <2>5, <5>1
      <4>5. Means(add_encrypted(key, sum(i - 1), vote), count(i - 1) + bit)
        BY <2>3, <4>1, <4>3, <4>4, SumMeans
      <4> QED  BY <2>4, <2>5, <4>2, <4>5
    <3> QED  BY <3>1, <3>2
  <2> QED  BY <2>1, <2>6
<1>3. \A i \in 0 .. n : i \in S
  <2> HIDE DEF S
  <2> QED  BY <1>1, <1>2, UpTo
<1> QED  BY <1>3

\* Nobody is in the table twice, so there are no more rows than voters.
LEMMA RowsAreVoters ==
  ASSUME ElectionInv
  PROVE  Len(Table) <= Cardinality(Voters)
<1> DEFINE n == Len(Table)
           who == [i \in 1 .. n |-> Voter(Table[i].ballot)]
<1>1. n \in Nat
  BY TableIsLong DEF ElectionInv
<1>2. who \in [1 .. n -> Voters]
  BY DEF ElectionInv, TypeOK, IsBallot
<1>3. \A i, j \in 1 .. n : who[i] = who[j] => i = j
  BY DEF ElectionInv, OneVotePerVoter
<1> HIDE DEF n, who
<1>4. IsFiniteSet(1 .. n) /\ Cardinality(1 .. n) = n
  BY <1>1, FS_Interval
<1>5. IsFiniteSet(Voters) /\ Cardinality(Voters) \in Nat
  BY VotersAssumption, FS_CardinalityType
<1>6. ~ (Cardinality(Voters) < Cardinality(1 .. n))
  <2> DEFINE I == 1 .. n
  <2> HIDE DEF I
  <2> SUFFICES ASSUME Cardinality(Voters) < Cardinality(I) PROVE FALSE
    BY DEF I
  <2>1. IsFiniteSet(I) /\ who \in [I -> Voters] /\ \A i, j \in I : who[i] = who[j] => i = j
    BY <1>2, <1>3, <1>4 DEF I
  <2>2. \E x, y \in I : x # y /\ who[x] = who[y]
    BY <2>1, <1>5, FS_PigeonHole
  <2> QED  BY <2>1, <2>2
<1>7. n <= Cardinality(Voters)
  BY <1>1, <1>4, <1>5, <1>6
<1> QED  BY <1>7 DEF n

LEMMA TallyOfTable ==
  ASSUME Homomorphic, ElectionInv, SealInv
  PROVE  TallyRight
<1> DEFINE n == Len(Table)
           choice == [i \in 1 .. n |-> ChoiceOf(Table[i])]
<1>1. n \in Nat /\ (n = 0 => Table = <<>>)
  BY TableIsLong DEF ElectionInv
<1>2. CASE Table = <<>>
  <2>1. Tally(Table) = <<>>
    BY <1>2 DEF Tally
  <2>2. get_tally(Table) = <<>>
    BY <2>1 DEF get_tally
  <2> QED  BY <1>2, <2>2 DEF TallyRight
<1>3. CASE Table # <<>>
  <2>1. n \in 1 .. n /\ n < key.n
    <3>1. n # 0 /\ key.n \in Nat /\ n <= Cardinality(Voters) /\ Cardinality(Voters) < key.n
      BY <1>1, <1>3, RowsAreVoters DEF Homomorphic
    <3>2. Cardinality(Voters) \in Nat
      BY VotersAssumption, FS_CardinalityType
    <3> QED  BY <1>1, <3>1, <3>2
  <2>2. Sealed(Table, choice)
    BY DEF SealInv, SealedBy, Sealed, ChoiceOf
  <2> DEFINE tally == tallying(Table)[n]
  <2>3. \A o \in Options : Means(tally[o], Cardinality(Votes(choice, n, o)))
    BY <1>1, <2>1, <2>2, TallyMeans
  <2>4. Tally(Table) = tally /\ DOMAIN tally = Options
    <3>1. tally = AddVotes(tallying(Table)[n - 1], Table[n].ballot.votes)
      BY <1>1, <2>1, Tallying
    <3>2. DOMAIN tally = Options
      BY <3>1 DEF AddVotes
    <3> QED  BY <1>3, <3>2 DEF Tally
  <2>5. \A o \in Options : decrypt(key, tally[o]) = Cardinality(Votes(choice, n, o))
    BY <2>3 DEF Means, Decrypted
  <2>6. \A o \in Options : Votes(choice, n, o) = {i \in 1 .. Len(Table) : ChoiceOf(Table[i]) = o}
    BY DEF Votes
  <2> HIDE DEF tally, choice
  <2>7. get_tally(Table) = [o \in Options |-> decrypt(key, tally[o])]
    BY <2>4 DEF get_tally
  <2>8. get_tally(Table) = [o \in Options |-> Cardinality({i \in 1 .. Len(Table) : ChoiceOf(Table[i]) = o})]
    BY <2>5, <2>6, <2>7
  <2> QED  BY <1>3, <2>8 DEF TallyRight
<1> QED  BY <1>2, <1>3

\* With a key whose ciphertexts add up, what /tally decrypts is, at any moment, for every
\* option the number of voters in the table who chose it, for any number of voters below
\* the modulus, any options, retries, crashes and failing commits.
THEOREM TallyAlwaysRight ==
  ASSUME Homomorphic
  PROVE  Spec => []TallyRight
<1>1. Init => SealInv
  <2> SUFFICES ASSUME Init PROVE SealInv
    OBVIOUS
  <2>1. Table = <<>> /\ wire = {}
    BY DEF Init, Table
  <2> QED  BY <2>1 DEF SealInv
<1>2. ElectionInv /\ SealInv /\ [Next]_vars => SealInv'
  BY SealNext
<1>3. ElectionInv /\ SealInv => TallyRight
  BY TallyOfTable
<1> QED  BY <1>1, <1>2, <1>3, ElectionInvariance, PTL DEF Spec


-----------------------------------------------------------------------------
(* The Merkle tree: its levels and its depth.                              *)

\* A function on 1 .. m is a sequence of length m.
LEMMA LengthOf ==
  ASSUME NEW s, NEW m \in Nat, s = [i \in 1 .. m |-> s[i]]
  PROVE  DOMAIN s = 1 .. m /\ Len(s) = m
<1> DEFINE T == {s[i] : i \in 1 .. m}
<1>1. s \in [1 .. m -> T] /\ DOMAIN s = 1 .. m
  OBVIOUS
<1>2. s \in Seq(T)
  BY <1>1
<1>3. Len(s) \in Nat /\ DOMAIN s = 1 .. Len(s)
  BY <1>2
<1>4. 1 .. m = 1 .. Len(s)
  BY <1>1, <1>3
<1> HIDE DEF T
<1> QED  BY <1>1, <1>3, <1>4

\* Non-empty sequences, whatever their elements.
IsLevel(s) == Len(s) \in Nat \ {0} /\ s = [i \in 1 .. Len(s) |-> s[i]]

LEMMA NextIsLevel ==
  ASSUME NEW s, IsLevel(s)
  PROVE  /\ IsLevel(NextLevel(s)) /\ Len(NextLevel(s)) = (Len(s) + 1) \div 2
         /\ \A i \in 1 .. Len(NextLevel(s)) :
              NextLevel(s)[i] = HashPair(s[2 * i - 1], IF 2 * i <= Len(s) THEN s[2 * i] ELSE s[2 * i - 1])
<1> DEFINE m == (Len(s) + 1) \div 2
           t == NextLevel(s)
<1>1. m \in Nat \ {0}
  BY DEF IsLevel
<1>2. t = [i \in 1 .. m |-> HashPair(s[2 * i - 1], IF 2 * i <= Len(s) THEN s[2 * i] ELSE s[2 * i - 1])]
  BY DEF NextLevel
<1> HIDE DEF m, t
<1>3. t = [i \in 1 .. m |-> t[i]]
  BY <1>2
<1>4. Len(t) = m
  BY <1>1, <1>3, LengthOf
<1>5. IsLevel(t)
  BY <1>1, <1>3, <1>4 DEF IsLevel
<1>6. \A i \in 1 .. m : t[i] = HashPair(s[2 * i - 1], IF 2 * i <= Len(s) THEN s[2 * i] ELSE s[2 * i - 1])
  BY <1>2
<1> QED  BY <1>4, <1>5, <1>6 DEF m, t

LEMMA LeavesAreLevel ==
  ASSUME NEW keys, IsLevel(keys)
  PROVE  /\ IsLevel(Leaves(keys)) /\ Len(Leaves(keys)) = Len(keys)
         /\ \A i \in 1 .. Len(keys) : Leaves(keys)[i] = Hash(keys[i])
<1> DEFINE m == Len(keys)
           t == Leaves(keys)
<1>1. m \in Nat \ {0} /\ t = [i \in 1 .. m |-> Hash(keys[i])]
  BY DEF IsLevel, Leaves
<1> HIDE DEF m, t
<1>2. t = [i \in 1 .. m |-> t[i]]
  BY <1>1
<1>3. Len(t) = m
  BY <1>1, <1>2, LengthOf
<1> QED  BY <1>1, <1>2, <1>3 DEF m, t, IsLevel

\* The recursive definition of levels has a solution of any length.
LEMMA LevelsUpTo ==
  ASSUME NEW keys, NEW n \in Nat
  PROVE  \E f : f = [k \in 0 .. n |-> IF k = 0 THEN Leaves(keys) ELSE NextLevel(f[k - 1])]
<1> DEFINE Solves(f, j) == f = [k \in 0 .. j |-> IF k = 0 THEN Leaves(keys) ELSE NextLevel(f[k - 1])]
           S == {j \in Nat : \E f : Solves(f, j)}
<1>1. 0 \in S
  <2>1. Solves([k \in 0 .. 0 |-> Leaves(keys)], 0)
    OBVIOUS
  <2> QED  BY <2>1
<1>2. ASSUME NEW j \in 0 .. n, j > 0, j - 1 \in S PROVE j \in S
  <2>1. PICK f : Solves(f, j - 1)
    BY <1>2
  <2> DEFINE g == [k \in 0 .. j |-> IF k = j THEN NextLevel(f[j - 1]) ELSE f[k]]
  <2>2. \A k \in 0 .. j : g[k] = IF k = 0 THEN Leaves(keys) ELSE NextLevel(g[k - 1])
    BY <1>2, <2>1
  <2>3. Solves(g, j)
    BY <2>2
  <2> HIDE DEF Solves, g
  <2>4. \E f0 : Solves(f0, j)
    BY <2>3
  <2> QED  BY <2>4, <1>2
<1>3. n \in S
  <2> HIDE DEF S
  <2>1. n \in 0 .. n
    OBVIOUS
  <2> QED  BY <1>1, <1>2, <2>1, UpTo
<1> QED  BY <1>3

LEMMA Levels ==
  ASSUME NEW keys, Len(keys) \in Nat
  PROVE  /\ Level(keys, 0) = Leaves(keys)
         /\ \A k \in 1 .. Len(keys) : Level(keys, k) = NextLevel(Level(keys, k - 1))
<1> DEFINE Solves(f) == f = [k \in 0 .. Len(keys) |-> IF k = 0 THEN Leaves(keys) ELSE NextLevel(f[k - 1])]
<1>1. \E f : Solves(f)
  BY LevelsUpTo
<1>2. levels(keys) = CHOOSE f : Solves(f)
  BY DEF levels
<1>3. Solves(levels(keys))
  BY <1>1, <1>2, Zenon
<1>4. \A k \in 0 .. Len(keys) :
        levels(keys)[k] = IF k = 0 THEN Leaves(keys) ELSE NextLevel(levels(keys)[k - 1])
  BY <1>3
<1> QED  BY <1>4 DEF Level

\* Every pass leaves a level, shorter than the one before until a single hash is left.
LEMMA LevelLengths ==
  ASSUME NEW keys, IsLevel(keys)
  PROVE  \A k \in 0 .. Len(keys) :
           /\ IsLevel(Level(keys, k))
           /\ Len(Level(keys, k)) = 1 \/ Len(Level(keys, k)) <= Len(keys) - k
<1> DEFINE n == Len(keys)
           L(k) == Level(keys, k)
           S == {k \in Nat : IsLevel(L(k)) /\ (Len(L(k)) = 1 \/ Len(L(k)) <= n - k)}
<1>1. n \in Nat \ {0}
  BY DEF IsLevel
<1>2. 0 \in S
  BY <1>1, Levels, LeavesAreLevel
<1>3. ASSUME NEW k \in 0 .. n, k > 0, k - 1 \in S PROVE k \in S
  <2>1. k \in 1 .. n /\ IsLevel(L(k - 1)) /\ (Len(L(k - 1)) = 1 \/ Len(L(k - 1)) <= n - (k - 1))
    BY <1>1, <1>3
  <2>2. L(k) = NextLevel(L(k - 1))
    BY <1>1, <2>1, Levels
  <2> HIDE DEF n, L
  <2>3. IsLevel(L(k)) /\ Len(L(k)) = (Len(L(k - 1)) + 1) \div 2 /\ Len(L(k - 1)) \in Nat \ {0}
    BY <2>1, <2>2, NextIsLevel DEF IsLevel
  <2>4. PICK m \in Nat \ {0} : m = Len(L(k - 1))
    BY <2>3
  <2>5. (m + 1) \div 2 = 1 \/ (m + 1) \div 2 <= n - k
    <3>1. m = 1 \/ m <= n - (k - 1)
      BY <2>1, <2>4
    <3>2. n \in Nat /\ k \in Nat
      BY <1>1
    <3>3. (m + 1) \div 2 = 1 \/ (m + 1) \div 2 <= m - 1
      OBVIOUS
    <3>4. (m + 1) \div 2 \in Nat
      OBVIOUS
    <3> QED  BY <3>1, <3>2, <3>3, <3>4
  <2> QED  BY <1>1, <2>1, <2>3, <2>4, <2>5
<1>4. \A k \in 0 .. n : k \in S
  <2> HIDE DEF S
  <2> QED  BY <1>1, <1>2, <1>3, UpTo
<1> QED  BY <1>4

\* The while loop ends: the level at Depth is the first with one hash.
LEMMA DepthExists ==
  ASSUME NEW keys, IsLevel(keys)
  PROVE  /\ Depth(keys) \in 0 .. Len(keys)
         /\ Len(Level(keys, Depth(keys))) = 1
<1> DEFINE n == Len(keys)
           S == {k \in 0 .. n : Len(Level(keys, k)) = 1}
           First(k) == Len(Level(keys, k)) = 1 /\ \A j \in 0 .. k - 1 : Len(Level(keys, j)) > 1
<1>1. n \in Nat \ {0} /\ n \in 0 .. n
  BY DEF IsLevel
<1>2. n \in S
  <2>1. Len(Level(keys, n)) \in Nat \ {0} /\ (Len(Level(keys, n)) = 1 \/ Len(Level(keys, n)) <= n - n)
    BY <1>1, LevelLengths DEF IsLevel
  <2> QED  BY <1>1, <2>1
<1>3. PICK k \in S : \A j \in S : k <= j
  <2>1. S \subseteq Nat /\ S # {}
    BY <1>2
  <2> QED  BY <2>1, LeastExists
<1>4. k \in 0 .. n /\ Len(Level(keys, k)) = 1
  OBVIOUS
<1>5. ASSUME NEW j \in 0 .. k - 1 PROVE Len(Level(keys, j)) > 1
  <2>1. j \in 0 .. n /\ ~ (k <= j)
    BY <1>1, <1>4
  <2>2. j \notin S
    BY <1>3, <2>1
  <2>3. Len(Level(keys, j)) # 1 /\ Len(Level(keys, j)) \in Nat \ {0}
    BY <2>1, <2>2, LevelLengths DEF IsLevel
  <2> QED  BY <2>3
<1>6. \E d \in 0 .. n : First(d)
  BY <1>4, <1>5
<1>7. Depth(keys) = CHOOSE d \in 0 .. n : First(d)
  BY DEF Depth
<1> HIDE DEF First
<1>8. Depth(keys) \in 0 .. n /\ First(Depth(keys))
  BY <1>6, <1>7, Zenon
<1> QED  BY <1>8 DEF First

-----------------------------------------------------------------------------
(* Membership proofs: get_proof and verify_proof climb the same levels.    *)

\* The recursive definitions of positions and climbing have solutions of any length.
LEMMA PositionsUpTo ==
  ASSUME NEW p, NEW n \in Nat
  PROVE  \E f : f = [k \in 0 .. n |-> IF k = 0 THEN p ELSE f[k - 1] \div 2]
<1> DEFINE Solves(f, j) == f = [k \in 0 .. j |-> IF k = 0 THEN p ELSE f[k - 1] \div 2]
           S == {j \in Nat : \E f : Solves(f, j)}
<1>1. 0 \in S
  <2>1. Solves([k \in 0 .. 0 |-> p], 0)
    OBVIOUS
  <2> QED  BY <2>1
<1>2. ASSUME NEW j \in 0 .. n, j > 0, j - 1 \in S PROVE j \in S
  <2>1. PICK f : Solves(f, j - 1)
    BY <1>2
  <2> DEFINE g == [k \in 0 .. j |-> IF k = j THEN f[j - 1] \div 2 ELSE f[k]]
  <2>2. \A k \in 0 .. j : g[k] = IF k = 0 THEN p ELSE g[k - 1] \div 2
    BY <1>2, <2>1
  <2>3. Solves(g, j)
    BY <2>2
  <2> HIDE DEF Solves, g
  <2>4. \E f0 : Solves(f0, j)
    BY <2>3
  <2> QED  BY <2>4, <1>2
<1>3. n \in S
  <2> HIDE DEF S
  <2>1. n \in 0 .. n
    OBVIOUS
  <2> QED  BY <1>1, <1>2, <2>1, UpTo
<1> QED  BY <1>3

LEMMA Positions ==
  ASSUME NEW p, NEW n \in Nat
  PROVE  /\ positions(p, n)[0] = p
         /\ \A k \in 1 .. n : positions(p, n)[k] = positions(p, n)[k - 1] \div 2
<1> DEFINE Solves(f) == f = [k \in 0 .. n |-> IF k = 0 THEN p ELSE f[k - 1] \div 2]
<1>1. \E f : Solves(f)
  BY PositionsUpTo
<1>2. positions(p, n) = CHOOSE f : Solves(f)
  BY DEF positions
<1>3. Solves(positions(p, n))
  BY <1>1, <1>2, Zenon
<1>4. \A k \in 0 .. n : positions(p, n)[k] = IF k = 0 THEN p ELSE positions(p, n)[k - 1] \div 2
  BY <1>3
<1> QED  BY <1>4

Climbs(f, s, h, n) == f = [k \in 0 .. n |-> IF k = 0 THEN h ELSE Climb(f[k - 1], s[k])]

LEMMA ClimbingUpTo ==
  ASSUME NEW s, NEW h, NEW n \in Nat
  PROVE  \E f : Climbs(f, s, h, n)
<1> DEFINE S == {j \in Nat : \E f : Climbs(f, s, h, j)}
<1>1. 0 \in S
  <2>1. Climbs([k \in 0 .. 0 |-> h], s, h, 0)
    BY DEF Climbs
  <2> QED  BY <2>1
<1>2. ASSUME NEW j \in 0 .. n, j > 0, j - 1 \in S PROVE j \in S
  <2>1. PICK f : Climbs(f, s, h, j - 1)
    BY <1>2
  <2> DEFINE g == [k \in 0 .. j |-> IF k = j THEN Climb(f[j - 1], s[j]) ELSE f[k]]
  <2>2. \A k \in 0 .. j : g[k] = IF k = 0 THEN h ELSE Climb(g[k - 1], s[k])
    BY <1>2, <2>1 DEF Climbs
  <2>3. Climbs(g, s, h, j)
    BY <2>2 DEF Climbs
  <2> HIDE DEF g
  <2>4. \E f0 : Climbs(f0, s, h, j)
    BY <2>3
  <2> QED  BY <2>4, <1>2
<1>3. n \in S
  <2> HIDE DEF S
  <2>1. n \in 0 .. n
    OBVIOUS
  <2> QED  BY <1>1, <1>2, <2>1, UpTo
<1> QED  BY <1>3

LEMMA Climbing ==
  ASSUME NEW s, NEW h, Len(s) \in Nat
  PROVE  /\ climbing(s, h)[0] = h
         /\ \A k \in 1 .. Len(s) : climbing(s, h)[k] = Climb(climbing(s, h)[k - 1], s[k])
<1>1. \E f : Climbs(f, s, h, Len(s))
  BY ClimbingUpTo
<1>2. climbing(s, h) = CHOOSE f : Climbs(f, s, h, Len(s))
  BY DEF climbing, Climbs
<1>3. Climbs(climbing(s, h), s, h, Len(s))
  BY <1>1, <1>2, Zenon
<1>4. \A k \in 0 .. Len(s) : climbing(s, h)[k] = IF k = 0 THEN h ELSE Climb(climbing(s, h)[k - 1], s[k])
  BY <1>3 DEF Climbs
<1> QED  BY <1>4

\* One turn: with its sibling a hash gives the one above it.
LEMMA ClimbStep ==
  ASSUME NEW s, IsLevel(s), NEW p \in Nat, p < Len(s)
  PROVE  /\ p \div 2 \in Nat /\ p \div 2 < Len(NextLevel(s))
         /\ Climb(s[p + 1], Sibling(s, p)) = NextLevel(s)[p \div 2 + 1]
<1>1. PICK m \in Nat \ {0} : m = Len(s)
  BY DEF IsLevel
<1> DEFINE i == p \div 2 + 1
           above == NextLevel(s)
<1>2. p \div 2 \in Nat /\ p \div 2 < (m + 1) \div 2 /\ (m + 1) \div 2 \in Nat
  BY <1>1
<1>3. Len(above) = (m + 1) \div 2
  BY <1>1, NextIsLevel
<1>4. above[i] = HashPair(s[2 * i - 1], IF 2 * i <= m THEN s[2 * i] ELSE s[2 * i - 1])
  <2>1. i \in 1 .. Len(above)
    BY <1>2, <1>3
  <2> QED  BY <1>1, <2>1, NextIsLevel
<1>5. CASE p % 2 = 1
  <2>1. 2 * i = p + 1 /\ 2 * i <= m /\ 2 * i - 1 = p /\ p - 1 < m /\ 1 + (p - 1) = p
    BY <1>1, <1>5
  <2>2. Sibling(s, p) = [hash |-> s[p], right |-> TRUE]
    BY <1>1, <1>5, <2>1 DEF Sibling
  <2>3. Climb(s[p + 1], Sibling(s, p)) = HashPair(s[p], s[p + 1])
    BY <2>2 DEF Climb
  <2>4. above[i] = HashPair(s[p], s[p + 1])
    BY <1>4, <2>1
  <2> QED  BY <1>2, <1>3, <2>3, <2>4
<1>6. CASE p % 2 # 1
  <2>1. 2 * i = p + 2 /\ 2 * i - 1 = p + 1
    BY <1>6
  <2> DEFINE x == IF p + 1 < m THEN s[p + 2] ELSE s[p + 1]
  <2>2. Sibling(s, p) = [hash |-> x, right |-> FALSE]
    <3>1. s[1 + (IF p + 1 < m THEN p + 1 ELSE p)] = x
      <4>1. 1 + (p + 1) = p + 2 /\ 1 + p = p + 1
        OBVIOUS
      <4> QED  BY <4>1
    <3> HIDE DEF x
    <3> QED  BY <1>1, <1>6, <3>1 DEF Sibling
  <2>3. Climb(s[p + 1], Sibling(s, p)) = HashPair(s[p + 1], x)
    <3> HIDE DEF x
    <3> QED  BY <2>2 DEF Climb
  <2>4. (p + 1 < m) = (p + 2 <= m)
    BY <1>1
  <2>5. above[i] = HashPair(s[p + 1], x)
    BY <1>4, <2>1, <2>4
  <2> QED  BY <1>2, <1>3, <2>3, <2>5
<1> QED  BY <1>5, <1>6

\* The proof for the key at position p climbs to the root.
LEMMA ProofClimbs ==
  ASSUME NEW keys, IsLevel(keys), NEW p \in Nat, p < Len(keys)
  PROVE  /\ get_proof(keys, p).leaf = Hash(keys[p + 1])
         /\ verify_proof(get_proof(keys, p), keys[p + 1])
<1> DEFINE d == Depth(keys)
           L(k) == Level(keys, k)
           at == positions(p, d)
           siblings == [k \in 1 .. d |-> Sibling(L(k - 1), at[k - 1])]
           proof == get_proof(keys, p)
<1>1. d \in 0 .. Len(keys) /\ d \in Nat /\ Len(keys) \in Nat \ {0} /\ Len(L(d)) = 1
  BY DepthExists DEF IsLevel
<1>2. /\ proof.leaf = L(0)[p + 1] /\ proof.root = L(d)[1]
      /\ proof.siblings = siblings
  <2>1. \A k \in 0 .. d : build_tree(keys)[k] = L(k)
    BY DEF build_tree
  <2>2. \A k \in 1 .. d : k - 1 \in 0 .. d
    BY <1>1
  <2>3. [k \in 1 .. d |-> Sibling(build_tree(keys)[k - 1], at[k - 1])] = siblings
    BY <2>1, <2>2
  <2>4. 0 \in 0 .. d
    BY <1>1
  <2> HIDE DEF siblings
  <2>5. proof = [leaf |-> build_tree(keys)[0][p + 1], siblings |-> siblings, root |-> Root(keys)]
    BY <2>3 DEF get_proof
  <2> QED  BY <2>1, <2>4, <2>5 DEF Root
<1>3. Len(siblings) = d
  <2>1. siblings = [k \in 1 .. d |-> siblings[k]]
    OBVIOUS
  <2> HIDE DEF siblings
  <2> QED  BY <1>1, <2>1, LengthOf
<1>4. L(0)[p + 1] = Hash(keys[p + 1]) /\ Len(L(0)) = Len(keys)
  <2>1. p + 1 \in 1 .. Len(keys)
    BY <1>1
  <2> QED  BY <1>1, <2>1, Levels, LeavesAreLevel
<1> DEFINE h(k) == climbing(siblings, Hash(keys[p + 1]))[k]
           S == {k \in Nat : at[k] \in Nat /\ at[k] < Len(L(k)) /\ h(k) = L(k)[at[k] + 1]}
<1>5. 0 \in S
  <2>1. at[0] = p
    BY <1>1, Positions
  <2>2. h(0) = Hash(keys[p + 1])
    BY <1>1, <1>3, Climbing
  <2> QED  BY <1>4, <2>1, <2>2
<1>6. ASSUME NEW k \in 0 .. d, k > 0, k - 1 \in S PROVE k \in S
  <2>1. k \in 1 .. d /\ k \in 1 .. Len(keys) /\ k - 1 \in 0 .. Len(keys) /\ k \in Nat
    BY <1>1, <1>6
  <2>2. L(k) = NextLevel(L(k - 1)) /\ IsLevel(L(k - 1))
    BY <1>1, <2>1, Levels, LevelLengths
  <2>3. at[k] = at[k - 1] \div 2
    BY <1>1, <2>1, Positions
  <2>4. h(k) = Climb(h(k - 1), siblings[k])
    BY <1>1, <1>3, <2>1, Climbing
  <2>5. siblings[k] = Sibling(L(k - 1), at[k - 1])
    BY <2>1
  <2>6. at[k - 1] \in Nat /\ at[k - 1] < Len(L(k - 1)) /\ h(k - 1) = L(k - 1)[at[k - 1] + 1]
    BY <1>6
  <2> HIDE DEF h, siblings, at, L
  <2>7. /\ at[k - 1] \div 2 \in Nat /\ at[k - 1] \div 2 < Len(L(k))
        /\ Climb(L(k - 1)[at[k - 1] + 1], Sibling(L(k - 1), at[k - 1])) = L(k)[at[k - 1] \div 2 + 1]
    <3>1. PICK q \in Nat : q = at[k - 1]
      BY <2>6
    <3>2. PICK s : s = L(k - 1)
      OBVIOUS
    <3>3. IsLevel(s) /\ q < Len(s)
      BY <2>2, <2>6, <3>1, <3>2
    <3>4. /\ q \div 2 \in Nat /\ q \div 2 < Len(NextLevel(s))
          /\ Climb(s[q + 1], Sibling(s, q)) = NextLevel(s)[q \div 2 + 1]
      BY <3>3, ClimbStep
    <3> QED  BY <2>2, <3>1, <3>2, <3>4
  <2> QED  BY <2>1, <2>3, <2>4, <2>5, <2>6, <2>7
<1>7. d \in S
  <2> HIDE DEF S
  <2>1. d \in 0 .. d
    BY <1>1
  <2> QED  BY <1>1, <1>5, <1>6, <2>1, UpTo
<1>8. h(d) = L(d)[1]
  <2>1. at[d] \in Nat /\ at[d] < 1 /\ h(d) = L(d)[at[d] + 1]
    BY <1>1, <1>7
  <2>2. at[d] = 0
    BY <2>1
  <2> QED  BY <2>1, <2>2
<1> HIDE DEF siblings, L, proof
<1> QED  BY <1>2, <1>3, <1>4, <1>8 DEF verify_proof, proof

\* verify_proof(get_membership_proof(keys, key), other) is other = key, for any non-empty
\* sequence of keys and whatever other is.
THEOREM ProofsDecide ==
  ASSUME NEW keys, IsLevel(keys), NEW others
  PROVE  ProofsDecideMembership(keys, others)
<1> SUFFICES ASSUME NEW k \in ToSet(keys), NEW other \in others
             PROVE  verify_proof(get_membership_proof(keys, k), other) = (other = k)
  BY DEF ProofsDecideMembership
<1>1. Len(keys) \in Nat \ {0} /\ DOMAIN keys = 1 .. Len(keys)
  BY DEF IsLevel
<1> DEFINE At(i) == keys[i] = k
<1>2. \E i \in 1 .. Len(keys) : At(i)
  BY <1>1 DEF ToSet
<1>3. PICK i \in 1 .. Len(keys) : keys[i] = k /\ public_key_to_index(keys)[k] = i - 1
  <2> DEFINE c == CHOOSE i \in 1 .. Len(keys) : At(i)
  <2>1. c \in 1 .. Len(keys) /\ At(c)
    BY <1>2, Zenon
  <2>2. public_key_to_index(keys)[k] = c - 1
    BY DEF public_key_to_index
  <2> QED  BY <2>1, <2>2
<1> DEFINE proof == get_proof(keys, i - 1)
<1>4. i - 1 \in Nat /\ i - 1 < Len(keys) /\ (i - 1) + 1 = i
  BY <1>1
<1>5. proof.leaf = Hash(k) /\ verify_proof(proof, k)
  BY <1>3, <1>4, ProofClimbs
<1>6. get_membership_proof(keys, k) = proof
  BY <1>3 DEF get_membership_proof
<1> HIDE DEF proof
<1>7. verify_proof(proof, other) => Hash(other) = Hash(k)
  BY <1>5 DEF verify_proof
<1>8. Hash(other) = Hash(k) => other = k
  BY DEF Hash
<1>9. verify_proof(proof, other) \in BOOLEAN
  BY DEF verify_proof
<1>10. verify_proof(proof, other) <=> other = k
  BY <1>5, <1>7, <1>8
<1> QED  BY <1>6, <1>9, <1>10

-----------------------------------------------------------------------------
(* Roots: different sequences of distinct keys have different roots.       *)

Distinct(s) == \A i, j \in 1 .. Len(s) : s[i] = s[j] => i = j

LEMMA PairsDiffer ==
  ASSUME NEW a, NEW b, NEW c, NEW e, HashPair(a, b) = HashPair(c, e)
  PROVE  a = c /\ b = e
  BY DEF HashPair

LEMMA LeafIsNoPair ==
  ASSUME NEW k, NEW a, NEW b
  PROVE  Hash(k) # HashPair(a, b)
<1>1. Len(<<k>>) = 1 /\ Len(<<a, b>>) = 2
  OBVIOUS
<1> QED  BY <1>1 DEF Hash, HashPair

LEMMA NextDistinct ==
  ASSUME NEW s, IsLevel(s), Distinct(s)
  PROVE  Distinct(NextLevel(s))
<1> DEFINE above == NextLevel(s)
<1>1. PICK m \in Nat \ {0} : m = Len(s)
  BY DEF IsLevel
<1> SUFFICES ASSUME NEW i \in 1 .. Len(above), NEW j \in 1 .. Len(above), above[i] = above[j] PROVE i = j
  BY DEF Distinct
<1>2. Len(above) = (m + 1) \div 2 /\ (m + 1) \div 2 \in Nat
  BY <1>1, NextIsLevel
<1>3. s[2 * i - 1] = s[2 * j - 1]
  <2>1. /\ above[i] = HashPair(s[2 * i - 1], IF 2 * i <= Len(s) THEN s[2 * i] ELSE s[2 * i - 1])
        /\ above[j] = HashPair(s[2 * j - 1], IF 2 * j <= Len(s) THEN s[2 * j] ELSE s[2 * j - 1])
    BY NextIsLevel
  <2> HIDE DEF above
  <2>2. PICK x : above[i] = HashPair(s[2 * i - 1], x)
    BY <2>1
  <2>3. PICK y : above[j] = HashPair(s[2 * j - 1], y)
    BY <2>1
  <2>4. HashPair(s[2 * i - 1], x) = HashPair(s[2 * j - 1], y)
    BY <2>2, <2>3
  <2> QED  BY <2>4, PairsDiffer
<1>4. 2 * i - 1 \in 1 .. m /\ 2 * j - 1 \in 1 .. m
  BY <1>1, <1>2
<1>5. 2 * i - 1 = 2 * j - 1
  BY <1>1, <1>3, <1>4 DEF Distinct
<1> QED  BY <1>2, <1>5

LEMMA LevelsDistinct ==
  ASSUME NEW keys, IsLevel(keys), Distinct(keys)
  PROVE  \A k \in 0 .. Len(keys) : Distinct(Level(keys, k))
<1> DEFINE n == Len(keys)
           S == {k \in Nat : Distinct(Level(keys, k))}
<1>1. n \in Nat \ {0}
  BY DEF IsLevel
<1>2. 0 \in S
  <2>1. \A i \in 1 .. n : Leaves(keys)[i] = Hash(keys[i])
    BY LeavesAreLevel
  <2>2. \A i, j \in 1 .. n : Hash(keys[i]) = Hash(keys[j]) => keys[i] = keys[j]
    BY DEF Hash
  <2>3. Len(Leaves(keys)) = n /\ Level(keys, 0) = Leaves(keys)
    BY <1>1, LeavesAreLevel, Levels
  <2>4. Distinct(Leaves(keys))
    BY <2>1, <2>2, <2>3 DEF Distinct
  <2> QED  BY <2>3, <2>4
<1>3. ASSUME NEW k \in 0 .. n, k > 0, k - 1 \in S PROVE k \in S
  <2>1. k \in 1 .. n /\ k - 1 \in 0 .. n /\ k \in Nat
    BY <1>1, <1>3
  <2>2. Level(keys, k) = NextLevel(Level(keys, k - 1)) /\ IsLevel(Level(keys, k - 1))
    BY <1>1, <2>1, Levels, LevelLengths
  <2>3. Distinct(Level(keys, k - 1))
    BY <1>3
  <2>4. Distinct(Level(keys, k))
    BY <2>2, <2>3, NextDistinct
  <2> QED  BY <2>1, <2>4
<1>4. \A k \in 0 .. n : k \in S
  <2> HIDE DEF S
  <2> QED  BY <1>1, <1>2, <1>3, UpTo
<1> QED  BY <1>4

\* A pass of the loop loses nothing of a level of distinct hashes.
LEMMA NextInjective ==
  ASSUME NEW s, NEW t, IsLevel(s), IsLevel(t), Distinct(s), Distinct(t), NextLevel(s) = NextLevel(t)
  PROVE  s = t
<1>1. PICK m \in Nat \ {0} : m = Len(s)
  BY DEF IsLevel
<1>2. PICK n \in Nat \ {0} : n = Len(t)
  BY DEF IsLevel
<1>3. PICK u \in Nat : u = (m + 1) \div 2 /\ u = (n + 1) \div 2
  <2>1. (m + 1) \div 2 = (n + 1) \div 2 /\ (m + 1) \div 2 \in Nat
    BY <1>1, <1>2, NextIsLevel
  <2> QED  BY <2>1
<1> DEFINE S2(i) == IF 2 * i <= m THEN s[2 * i] ELSE s[2 * i - 1]
           T2(i) == IF 2 * i <= n THEN t[2 * i] ELSE t[2 * i - 1]
<1>4. ASSUME NEW i \in 1 .. u PROVE s[2 * i - 1] = t[2 * i - 1] /\ S2(i) = T2(i)
  <2>1. i \in 1 .. Len(NextLevel(s)) /\ i \in 1 .. Len(NextLevel(t))
    BY <1>1, <1>2, <1>3, NextIsLevel
  <2>2. HashPair(s[2 * i - 1], S2(i)) = HashPair(t[2 * i - 1], T2(i))
    BY <1>1, <1>2, <2>1, NextIsLevel
  <2> HIDE DEF S2, T2
  <2> QED  BY <2>2, PairsDiffer
<1>5. m = n
  <2>1. u \in 1 .. u /\ (m = 2 * u \/ m = 2 * u - 1) /\ (n = 2 * u \/ n = 2 * u - 1)
    BY <1>3
  <2>2. ASSUME m = 2 * u, n = 2 * u - 1 PROVE FALSE
    <3>1. S2(u) = s[2 * u] /\ T2(u) = t[2 * u - 1] /\ s[2 * u - 1] = t[2 * u - 1]
      BY <1>4, <2>1, <2>2
    <3>2. s[2 * u] = s[2 * u - 1] /\ 2 * u \in 1 .. m /\ 2 * u - 1 \in 1 .. m
      BY <1>4, <2>1, <2>2, <3>1
    <3> QED  BY <1>1, <3>2 DEF Distinct
  <2>3. ASSUME n = 2 * u, m = 2 * u - 1 PROVE FALSE
    <3>1. T2(u) = t[2 * u] /\ S2(u) = s[2 * u - 1] /\ s[2 * u - 1] = t[2 * u - 1]
      BY <1>4, <2>1, <2>3
    <3>2. t[2 * u] = t[2 * u - 1] /\ 2 * u \in 1 .. n /\ 2 * u - 1 \in 1 .. n
      BY <1>4, <2>1, <2>3, <3>1
    <3> QED  BY <1>2, <3>2 DEF Distinct
  <2> QED  BY <2>1, <2>2, <2>3
<1>6. ASSUME NEW i \in 1 .. m PROVE s[i] = t[i]
  <2>1. PICK j \in 1 .. u : i = 2 * j \/ i = 2 * j - 1
    <3>1. (i + 1) \div 2 \in 1 .. u /\ (i = 2 * ((i + 1) \div 2) \/ i = 2 * ((i + 1) \div 2) - 1)
      BY <1>3
    <3> QED  BY <3>1
  <2>2. i = 2 * j => S2(j) = s[i] /\ T2(j) = t[i]
    BY <1>5
  <2> QED  BY <1>4, <2>1, <2>2
<1> QED  BY <1>1, <1>2, <1>5, <1>6 DEF IsLevel

\* Equal roots have equal levels below them; the smaller tree would end in leaves where
\* the taller one has pairs.
LEMMA RootsDifferBelow ==
  ASSUME NEW a, NEW b, IsLevel(a), IsLevel(b), Distinct(a), Distinct(b),
         Root(a) = Root(b), Depth(a) <= Depth(b)
  PROVE  a = b
<1> DEFINE d == Depth(a)
           e == Depth(b)
           A(k) == Level(a, k)
           B(k) == Level(b, k)
           S == {j \in Nat : A(d - j) = B(e - j)}
<1>1. /\ d \in 0 .. Len(a) /\ Len(a) \in Nat \ {0} /\ d \in Nat
      /\ e \in 0 .. Len(b) /\ Len(b) \in Nat \ {0} /\ e \in Nat
      /\ Len(A(d)) = 1 /\ Len(B(e)) = 1
  BY DepthExists DEF IsLevel
<1>2. 0 \in S
  <2>1. A(d)[1] = B(e)[1]
    BY DEF Root
  <2>2. IsLevel(A(d)) /\ IsLevel(B(e))
    BY <1>1, LevelLengths
  <2>3. d - 0 = d /\ e - 0 = e
    BY <1>1
  <2> HIDE DEF A, B, d, e
  <2>4. A(d) = B(e)
    BY <1>1, <2>1, <2>2 DEF IsLevel
  <2> QED  BY <2>3, <2>4
<1>3. ASSUME NEW j \in 0 .. d, j > 0, j - 1 \in S PROVE j \in S
  <2>1. /\ d - j \in 0 .. Len(a) /\ d - (j - 1) \in 1 .. Len(a) /\ (d - (j - 1)) - 1 = d - j
        /\ e - j \in 0 .. Len(b) /\ e - (j - 1) \in 1 .. Len(b) /\ (e - (j - 1)) - 1 = e - j
        /\ j \in Nat
    BY <1>1, <1>3
  <2>2. A(d - (j - 1)) = NextLevel(A(d - j))
    BY <1>1, <2>1, Levels
  <2>3. B(e - (j - 1)) = NextLevel(B(e - j))
    BY <1>1, <2>1, Levels
  <2>4. NextLevel(A(d - j)) = NextLevel(B(e - j))
    BY <1>3, <2>2, <2>3
  <2>5. IsLevel(A(d - j)) /\ IsLevel(B(e - j)) /\ Distinct(A(d - j)) /\ Distinct(B(e - j))
    BY <2>1, LevelLengths, LevelsDistinct
  <2>6. A(d - j) = B(e - j)
    BY <2>4, <2>5, NextInjective
  <2> QED  BY <2>1, <2>6
<1>4. d \in S
  <2> HIDE DEF S
  <2>1. d \in 0 .. d
    BY <1>1
  <2> QED  BY <1>1, <1>2, <1>3, <2>1, UpTo
<1>5. A(0) = B(e - d)
  <2>1. d - d = 0
    BY <1>1
  <2> QED  BY <1>4, <2>1
<1>6. A(0) = Leaves(a) /\ B(0) = Leaves(b)
  BY <1>1, Levels
<1>7. e = d
  <2> SUFFICES ASSUME e # d PROVE FALSE
    OBVIOUS
  <2>1. e - d \in 1 .. Len(b) /\ (e - d) - 1 \in 0 .. Len(b)
    BY <1>1
  <2>2. B(e - d) = NextLevel(B((e - d) - 1)) /\ IsLevel(B((e - d) - 1))
    BY <1>1, <2>1, Levels, LevelLengths
  <2>3. PICK s : IsLevel(s) /\ Leaves(a) = NextLevel(s)
    BY <1>5, <1>6, <2>2
  <2>4. 1 \in 1 .. Len(a) /\ Leaves(a)[1] = Hash(a[1])
    BY <1>1, LeavesAreLevel
  <2>5. 1 \in 1 .. Len(NextLevel(s))
    BY <2>3, NextIsLevel DEF IsLevel
  <2>6. \E x, y : NextLevel(s)[1] = HashPair(x, y)
    BY <2>3, <2>5, NextIsLevel
  <2> QED  BY <2>3, <2>4, <2>6, LeafIsNoPair
<1>8. Leaves(a) = Leaves(b)
  <2>1. e - d = 0
    BY <1>1, <1>7
  <2> QED  BY <1>5, <1>6, <2>1
<1>9. /\ Len(Leaves(a)) = Len(a) /\ \A i \in 1 .. Len(a) : Leaves(a)[i] = Hash(a[i])
      /\ Len(Leaves(b)) = Len(b) /\ \A i \in 1 .. Len(b) : Leaves(b)[i] = Hash(b[i])
  BY LeavesAreLevel
<1>10. \A i \in 1 .. Len(a) : a[i] = b[i]
  BY <1>8, <1>9 DEF Hash
<1> QED  BY <1>8, <1>9, <1>10 DEF IsLevel

\* Two non-empty sequences of distinct keys have the same root only if they are the same.
THEOREM RootsDiffer ==
  ASSUME NEW a, NEW b, IsLevel(a), IsLevel(b), Distinct(a), Distinct(b), Root(a) = Root(b)
  PROVE  a = b
<1>1. Depth(a) \in 0 .. Len(a) /\ Depth(b) \in 0 .. Len(b) /\ Len(a) \in Nat /\ Len(b) \in Nat
  BY DepthExists DEF IsLevel
<1>2. Depth(a) <= Depth(b) \/ Depth(b) <= Depth(a)
  BY <1>1
<1>3. CASE Depth(a) <= Depth(b)
  BY <1>3, RootsDifferBelow
<1>4. CASE Depth(b) <= Depth(a)
  <2>1. Root(b) = Root(a)
    OBVIOUS
  <2>2. b = a
    BY <1>4, <2>1, RootsDifferBelow
  <2> QED  BY <2>2
<1> QED  BY <1>2, <1>3, <1>4

-----------------------------------------------------------------------------
(* Rolls: get_all_public_keys lists the voters of a roll once each.        *)

Below(roll, v) == {w \in roll : w < v}
Rank(roll, v) == Cardinality(Below(roll, v))

LEMMA RanksDiffer ==
  ASSUME NEW roll, roll \subseteq Nat, IsFiniteSet(roll)
  PROVE  /\ Cardinality(roll) \in Nat
         /\ \A v \in roll : Rank(roll, v) \in 0 .. Cardinality(roll) - 1
         /\ \A v, w \in roll : Rank(roll, v) = Rank(roll, w) => v = w
<1> DEFINE n == Cardinality(roll)
<1>1. n \in Nat
  BY FS_CardinalityType
<1>2. ASSUME NEW v \in roll
      PROVE  IsFiniteSet(Below(roll, v)) /\ Rank(roll, v) \in Nat /\ Rank(roll, v) <= n - 1
  <2>1. IsFiniteSet(roll \ {v}) /\ Cardinality(roll \ {v}) = n - 1
    BY FS_RemoveElement
  <2>2. Below(roll, v) \in SUBSET (roll \ {v})
    BY DEF Below
  <2>3. IsFiniteSet(Below(roll, v)) /\ Cardinality(Below(roll, v)) <= n - 1
    BY <2>1, <2>2, FS_Subset
  <2>4. Cardinality(Below(roll, v)) \in Nat
    BY <2>3, FS_CardinalityType
  <2> QED  BY <2>3, <2>4 DEF Rank
<1>3. ASSUME NEW v \in roll, NEW w \in roll, v < w PROVE Rank(roll, v) # Rank(roll, w)
  <2> DEFINE B == Below(roll, v)
  <2>0. v \in Nat /\ w \in Nat /\ \A x \in roll : x \in Nat
    OBVIOUS
  <2>1. IsFiniteSet(B) /\ v \notin B /\ B \cup {v} \in SUBSET Below(roll, w)
    <3>1. IsFiniteSet(B)
      BY <1>2
    <3>2. v \notin B
      BY <2>0 DEF Below
    <3>3. \A x \in roll : x < v => x < w
      BY <1>3, <2>0
    <3> QED  BY <1>3, <3>1, <3>2, <3>3 DEF Below
  <2>2. IsFiniteSet(B \cup {v}) /\ Cardinality(B \cup {v}) = Cardinality(B) + 1
    BY <2>1, FS_AddElement
  <2>3. Cardinality(B \cup {v}) <= Cardinality(Below(roll, w))
    BY <1>2, <2>1, FS_Subset
  <2>4. Cardinality(B) \in Nat /\ Cardinality(Below(roll, w)) \in Nat
    BY <1>2 DEF Rank
  <2> QED  BY <2>2, <2>3, <2>4 DEF Rank
<1>4. ASSUME NEW v \in roll, NEW w \in roll, Rank(roll, v) = Rank(roll, w) PROVE v = w
  <2>1. v \in Nat /\ w \in Nat
    OBVIOUS
  <2>2. v = w \/ v < w \/ w < v
    BY <2>1
  <2> QED  BY <1>3, <1>4, <2>2
<1>5. \A v \in roll : Rank(roll, v) \in 0 .. n - 1
  BY <1>1, <1>2
<1> QED  BY <1>1, <1>4, <1>5

\* Every place below the number of voters is some voter's.
LEMMA RanksFill ==
  ASSUME NEW roll, roll \subseteq Nat, IsFiniteSet(roll), NEW i \in 1 .. Cardinality(roll)
  PROVE  \E v \in roll : Rank(roll, v) = i - 1
<1> DEFINE n == Cardinality(roll)
           T == 0 .. n - 1
           rank == [v \in roll |-> Rank(roll, v)]
<1>1. n \in Nat /\ i - 1 \in T
  <2>1. n \in Nat
    BY RanksDiffer
  <2> QED  BY <2>1
<1>2. rank \in [roll -> T] /\ \A v, w \in roll : rank[v] = rank[w] => v = w
  BY RanksDiffer
<1>3. IsFiniteSet(T) /\ Cardinality(T) = n
  BY <1>1, FS_Interval
<1> HIDE DEF rank, T, n
<1>4. rank \in Injection(roll, T)
  BY <1>2 DEF Injection, IsInjective
<1>5. rank \in Surjection(roll, T)
  BY <1>3, <1>4, FS_Injection DEF n
<1>6. \E v \in roll : rank[v] = i - 1
  BY <1>1, <1>5 DEF Surjection
<1> QED  BY <1>6 DEF rank

LEMMA KeysOfRoll ==
  ASSUME NEW roll, roll \subseteq Nat, IsFiniteSet(roll), roll # {}
  PROVE  /\ IsLevel(get_all_public_keys(roll)) /\ Distinct(get_all_public_keys(roll))
         /\ ToSet(get_all_public_keys(roll)) = roll
<1> DEFINE n == Cardinality(roll)
           keys == get_all_public_keys(roll)
           Has(v, i) == Rank(roll, v) = i - 1
<1>1. n \in Nat \ {0}
  <2>1. n \in Nat /\ n # 0
    BY FS_EmptySet, RanksDiffer
  <2> QED  BY <2>1
<1>2. keys = [i \in 1 .. n |-> CHOOSE v \in roll : Has(v, i)]
  BY DEF get_all_public_keys, Rank, Below
<1>3. ASSUME NEW i \in 1 .. n PROVE keys[i] \in roll /\ Rank(roll, keys[i]) = i - 1
  <2>1. \E v \in roll : Has(v, i)
    BY RanksFill
  <2>2. keys[i] = CHOOSE v \in roll : Has(v, i)
    BY <1>2
  <2> HIDE DEF Has, keys
  <2>3. keys[i] \in roll /\ Has(keys[i], i)
    BY <2>1, <2>2, Zenon
  <2> QED  BY <2>3 DEF Has
<1>4. keys = [i \in 1 .. n |-> keys[i]]
  BY <1>2
<1> HIDE DEF keys, n
<1>5. Len(keys) = n /\ DOMAIN keys = 1 .. n
  BY <1>1, <1>4, LengthOf
<1>6. IsLevel(keys)
  BY <1>1, <1>4, <1>5 DEF IsLevel
<1>7. Distinct(keys)
  <2> SUFFICES ASSUME NEW i \in 1 .. n, NEW j \in 1 .. n, keys[i] = keys[j] PROVE i = j
    BY <1>5 DEF Distinct
  <2>1. i - 1 = j - 1
    BY <1>3
  <2> QED  BY <1>1, <2>1
<1>8. ToSet(keys) = roll
  <2>1. ASSUME NEW v \in roll PROVE v \in ToSet(keys)
    <3>1. Rank(roll, v) \in 0 .. n - 1
      BY RanksDiffer DEF n
    <3>2. PICK i \in 1 .. n : Rank(roll, v) = i - 1
      <4>1. Rank(roll, v) + 1 \in 1 .. n /\ Rank(roll, v) = (Rank(roll, v) + 1) - 1
        BY <1>1, <3>1
      <4> QED  BY <4>1
    <3>3. keys[i] \in roll /\ Rank(roll, keys[i]) = Rank(roll, v)
      BY <1>3, <3>2
    <3>4. keys[i] = v
      BY <3>3, RanksDiffer
    <3> QED  BY <1>5, <3>4 DEF ToSet
  <2>2. \A v \in ToSet(keys) : v \in roll
    BY <1>3, <1>5 DEF ToSet
  <2> QED  BY <2>1, <2>2
<1> QED  BY <1>6, <1>7, <1>8 DEF keys

LEMMA RollRootsDiffer ==
  ASSUME NEW r, NEW s, r \subseteq Nat, s \subseteq Nat, IsFiniteSet(r), IsFiniteSet(s), r # {}, s # {},
         Root(get_all_public_keys(r)) = Root(get_all_public_keys(s))
  PROVE  r = s
<1>1. get_all_public_keys(r) = get_all_public_keys(s)
  BY KeysOfRoll, RootsDiffer
<1>2. ToSet(get_all_public_keys(r)) = r /\ ToSet(get_all_public_keys(s)) = s
  BY KeysOfRoll
<1> QED  BY <1>1, <1>2

\* The Merkle trees over the rolls of any finite set of voters: a voter's proof verifies
\* for this voter and for nobody else, and different rolls have different roots.
THEOREM RollsAreSound ==
  ASSUME NEW voters, voters \subseteq Nat, IsFiniteSet(voters)
  PROVE  RollsSound(voters)
<1> DEFINE rolls == (SUBSET voters) \ {{}}
           rootOf == [roll \in rolls |-> Root(get_all_public_keys(roll))]
           roots == {Root(get_all_public_keys(roll)) : roll \in rolls}
<1>1. ASSUME NEW roll \in rolls PROVE roll \subseteq Nat /\ IsFiniteSet(roll) /\ roll # {}
  <2>1. roll \in SUBSET voters /\ roll # {}
    OBVIOUS
  <2>2. IsFiniteSet(roll)
    BY <2>1, FS_Subset
  <2> QED  BY <2>1, <2>2
<1>2. \A roll \in rolls : ProofsDecideMembership(get_all_public_keys(roll), voters)
  BY <1>1, KeysOfRoll, ProofsDecide
<1>3. IsFiniteSet(rolls)
  <2>1. IsFiniteSet(SUBSET voters)
    BY FS_SUBSET
  <2> DEFINE all == SUBSET voters
             empty == {}
  <2>2. rolls = all \ {empty}
    OBVIOUS
  <2> HIDE DEF all, empty, rolls
  <2>3. IsFiniteSet(all \ {empty})
    BY <2>1, FS_RemoveElement DEF all
  <2> QED  BY <2>2, <2>3
<1>4. \A r, s \in rolls : rootOf[r] = rootOf[s] => r = s
  <2> SUFFICES ASSUME NEW r \in rolls, NEW s \in rolls, rootOf[r] = rootOf[s] PROVE r = s
    OBVIOUS
  <2>1. Root(get_all_public_keys(r)) = Root(get_all_public_keys(s))
    OBVIOUS
  <2>2. /\ r \subseteq Nat /\ IsFiniteSet(r) /\ r # {}
        /\ s \subseteq Nat /\ IsFiniteSet(s) /\ s # {}
    BY <1>1
  <2> HIDE DEF rolls, rootOf
  <2> QED  BY <2>1, <2>2, RollRootsDiffer
<1>5. rootOf \in [rolls -> roots] /\ \A x \in roots : \E r \in rolls : rootOf[r] = x
  OBVIOUS
<1> HIDE DEF rootOf, roots, rolls
<1>6. rootOf \in Surjection(rolls, roots) /\ rootOf \in Injection(rolls, roots)
  BY <1>4, <1>5 DEF Surjection, Injection, IsInjective
<1>7. Cardinality(roots) = Cardinality(rolls)
  BY <1>3, <1>6, FS_Surjection
<1> QED  BY <1>2, <1>7 DEF RollsSound, rolls, roots

\* On the rolls the clients hold, in any election: a voter's proof verifies for this voter
\* and nobody else, and two clients have the same root only with the same roll.
THEOREM MerkleAlwaysSound == Spec => []MerkleSound
<1>1. SixSound
  <2>1. 1 .. 6 \subseteq Nat /\ IsFiniteSet(1 .. 6)
    <3>1. \A n \in Int : IsFiniteSet(1 .. n)
      BY FS_Interval
    <3>2. 6 \in Int /\ 1 .. 6 \subseteq Nat
      OBVIOUS
    <3> QED  BY <3>1, <3>2
  <2>2. \A s : s \subseteq Nat /\ IsFiniteSet(s) => RollsSound(s)
    BY RollsAreSound
  <2> QED  BY <2>1, <2>2 DEF SixSound
<1>2. TypeOK => MerkleSound
  <2> SUFFICES ASSUME TypeOK, NEW v \in Voters, snapshot[v] # {}
               PROVE  /\ RollSound[snapshot[v]]
                      /\ \A w \in Voters : snapshot[w] # {} /\ RootOf[snapshot[w]] = RootOf[snapshot[v]] =>
                           snapshot[w] = snapshot[v]
    BY <1>1 DEF MerkleSound
  <2>1. ASSUME NEW w \in Voters, snapshot[w] # {}
        PROVE  /\ snapshot[w] \in (SUBSET Voters) \ {{}} /\ snapshot[w] \subseteq Nat /\ IsFiniteSet(snapshot[w])
               /\ RootOf[snapshot[w]] = Root(get_all_public_keys(snapshot[w]))
    <3>1. snapshot[w] \in SUBSET Voters
      BY DEF TypeOK
    <3>2. snapshot[w] \subseteq Nat /\ IsFiniteSet(snapshot[w])
      BY <3>1, VotersAssumption, FS_Subset
    <3> QED  BY <2>1, <3>1, <3>2 DEF RootOf
  <2>2. RollSound[snapshot[v]]
    <3>1. ProofsDecideMembership(get_all_public_keys(snapshot[v]), Voters)
      BY <2>1, KeysOfRoll, ProofsDecide
    <3> QED  BY <2>1, <3>1 DEF RollSound
  <2>3. ASSUME NEW w \in Voters, snapshot[w] # {}, RootOf[snapshot[w]] = RootOf[snapshot[v]]
        PROVE  snapshot[w] = snapshot[v]
    <3>1. Root(get_all_public_keys(snapshot[w])) = Root(get_all_public_keys(snapshot[v]))
      BY <2>1, <2>3
    <3> QED  BY <2>1, <2>3, <3>1, RollRootsDiffer
  <2> QED  BY <2>2, <2>3
<1> QED  BY <1>2, ElectionTypes, PTL
=============================================================================
