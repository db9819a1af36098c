------------------------------ MODULE Election ------------------------------
(***************************************************************************)
(* An election of prog3: the voter registry, the clients, the server and   *)
(* its bulletin board.  A voter's key pair, registry entry and secret key  *)
(* are all named by the voter's number.  The server handles a submission   *)
(* without an await, so nothing of the server happens between the INSERT   *)
(* and the commit; a crash, a disconnection or a commit that fails does.   *)
(* The board reads and writes through one SQLite connection, which sees    *)
(* its own uncommitted rows.                                               *)
(***************************************************************************)
EXTENDS Integers, Sequences, FiniteSets, Merkle, Paillier

CONSTANTS
  Voters,       \* those who have a key pair, numbered in the order of their ids
  NumOptions,   \* num_options of the server
  Randoms,      \* the randomness encryption may draw
  P, Q,         \* the primes of the Paillier key
  MaxTries,     \* calls of cast_vote by each voter
  MaxCrashes,   \* crashes of the server
  MaxFaults     \* commits that fail

Options == 1 .. NumOptions
NoRoot == <<>>
NoBallot == <<>>
key == generate_keypair(P, Q)

\* The root of every roll of voters, and the encryptions of zero and one.
RootOf == [roll \in (SUBSET Voters) \ {{}} |-> Root(get_all_public_keys(roll))]
Encrypted == [m \in {0, 1}, r \in Randoms |-> encrypt(key, m, r)]

ASSUME VotersAssumption == Voters \subseteq Nat /\ IsFiniteSet(Voters)
ASSUME BoundsAssumption == /\ NumOptions \in Nat \ {0}
                           /\ MaxTries \in [Voters -> Nat]
                           /\ MaxCrashes \in Nat /\ MaxFaults \in Nat

VARIABLES
  registry,    \* the voters in VoterRegistry
  snapshot,    \* the voters in the FastVoterRegistry each client was given, {} for none
  tries,       \* each client's calls of cast_vote: option, and the answer so far
  wire,        \* ballots posted and not yet handled
  up,          \* whether the server runs
  root,        \* BulletinBoard.merkle_root
  seen,        \* BulletinBoard.seen_nullifiers
  rows,        \* the committed rows of the table ballots
  pending,     \* the rows of the connection's open transaction
  handling,    \* the ballot whose commit is due
  crashes, faults

client == <<snapshot, tries>>
board == <<root, seen, rows, pending, handling>>
vars == <<registry, client, wire, up, board, crashes, faults>>

-----------------------------------------------------------------------------
(* Ballots and proofs. *)

\* NullifierGenerator.generate: an HMAC of the election's id under the secret key.
Nullifier(v) == v

\* The constraints of MerkleCircuit and their evaluation; zip stops at the shorter list.
Constraints == {[a |-> <<1>>, b |-> <<1>>, c |-> <<1>>]}
Dot(a, witness) == Sum([i \in 1 .. (IF Len(a) < Len(witness) THEN Len(a) ELSE Len(witness)) |-> a[i] * witness[i]])
verify_witness(witness) ==
  \A con \in Constraints : Dot(con.a, witness) * Dot(con.b, witness) = Dot(con.c, witness)
\* Of the witness only the leading 1 enters a constraint.
compute_witness == <<1>>

create_membership_proof(v, merkle_root) ==
  [inputs |-> <<merkle_root, Nullifier(v)>>, nullifier |-> Nullifier(v)]
verify_membership_proof(proof, merkle_root) == proof.inputs = <<merkle_root, proof.nullifier>>

\* A plausible slip: the call's number taken before it is counted.
create_ballotEarly(v, merkle_root, option, r, timestamp) ==
  [proof     |-> create_membership_proof(v, merkle_root),
   votes     |-> [i \in Options |-> Encrypted[IF i = option THEN 1 ELSE 0, r[i]]],
   timestamp |-> timestamp - 1]

\* The vector of encrypted votes: one at the option, zero elsewhere.
create_ballot(v, merkle_root, option, r, timestamp) ==
  [proof     |-> create_membership_proof(v, merkle_root),
   votes     |-> [i \in Options |-> Encrypted[IF i = option THEN 1 ELSE 0, r[i]]],
   timestamp |-> timestamp]

validate_ballot(b) == b.votes # <<>> /\ verify_membership_proof(b.proof, root)

Voter(b) == b.proof.nullifier

-----------------------------------------------------------------------------
(* The bulletin board. *)

\* What the board's own connection reads.
Table == rows \o pending

Genesis == <<>>
EntryHash(b, previous) == <<previous, b>>

get_last_hash(table) == IF table = <<>> THEN Genesis ELSE table[Len(table)].hash

\* A plausible slip: the last hash read through a connection of its own.
EntryCommitted(b) == LET last == get_last_hash(rows)
                     IN  [ballot |-> b, previous |-> last, hash |-> EntryHash(b, last)]

Entry(b) == LET last == get_last_hash(Table)
            IN  [ballot |-> b, previous |-> last, hash |-> EntryHash(b, last)]

check_nullifier_used(b) == Voter(b) \in seen

\* A plausible slip: the UNIQUE constraint compared with committed rows only.
TakenCommitted(b) == \E i \in 1 .. Len(rows) : Voter(rows[i].ballot) = Voter(b)

Taken(b) == \E i \in 1 .. Len(Table) : Voter(Table[i].ballot) = Voter(b)

load_nullifiers == {Voter(rows[i].ballot) : i \in 1 .. Len(rows)}

verify_chain_integrity(table) ==
  \A i \in 1 .. Len(table) :
    /\ table[i].previous = IF i = 1 THEN Genesis ELSE table[i - 1].hash
    /\ table[i].hash = EntryHash(table[i].ballot, table[i].previous)

verify_all_ballots ==
  verify_chain_integrity(Table) /\ \A i \in 1 .. Len(Table) : validate_ballot(Table[i].ballot)

\* A plausible slip: the test for a first ciphertext is lost, and the last one remains.
TallyLast(table) == IF table = <<>> THEN <<>> ELSE table[Len(table)].ballot.votes

\* get_tally: 0 marks an option without a ciphertext yet.
NoVotes == [o \in Options |-> 0]
AddVotes(sum, votes) ==
  [o \in Options |-> IF sum[o] = 0 THEN votes[o] ELSE add_encrypted(key, sum[o], votes[o])]
tallying(table) ==
  LET sum[i \in 0 .. Len(table)] == IF i = 0 THEN NoVotes ELSE AddVotes(sum[i - 1], table[i].ballot.votes)
  IN  sum
Tally(table) == IF table = <<>> THEN <<>> ELSE tallying(table)[Len(table)]

get_tally(table) == LET tally == Tally(table) IN [o \in DOMAIN tally |-> decrypt(key, tally[o])]

-----------------------------------------------------------------------------
Init ==
  /\ registry = {}
  /\ snapshot = [v \in Voters |-> {}]
  /\ tries = [v \in Voters |-> <<>>]
  /\ wire = {}
  /\ up = FALSE
  /\ root = NoRoot /\ seen = {} /\ rows = <<>> /\ pending = <<>> /\ handling = NoBallot
  /\ crashes = 0 /\ faults = 0

register_voter(v) ==
  /\ v \notin registry
  /\ registry' = registry \cup {v}
  /\ UNCHANGED <<client, wire, up, board, crashes, faults>>

Waiting(v) == \E t \in 1 .. Len(tries[v]) : tries[v][t].answer = "waiting"

\* A client is handed FastVoterRegistry(registry.get_all_public_keys()).
FetchRegistry(v) ==
  /\ registry # {} /\ ~Waiting(v)
  /\ snapshot' = [snapshot EXCEPT ![v] = registry]
  /\ UNCHANGED <<registry, tries, wire, up, board, crashes, faults>>

\* A plausible slip: the database file is removed first, as demo.py does.
initialize_serverFresh ==
  /\ ~up /\ registry # {}
  /\ up' = TRUE
  /\ root' = RootOf[registry]
  /\ seen' = {} /\ rows' = <<>>
  /\ UNCHANGED <<registry, client, wire, pending, handling, crashes, faults>>

\* BulletinBoard(db_path, registry.get_merkle_root()) and initialize_server, also
\* after a crash: the table is kept and the seen nullifiers are read from it.
initialize_server ==
  /\ ~up /\ registry # {}
  /\ up' = TRUE
  /\ root' = RootOf[registry]
  /\ seen' = load_nullifiers
  /\ UNCHANGED <<registry, client, wire, rows, pending, handling, crashes, faults>>

\* get_membership_proof and get_leaf_index raise for a key that is not in the registry.
Known(v, roll) == v \in roll

\* cast_vote posts a ballot and waits; election_info is known once the server has run.
cast_vote(v, option, r) ==
  /\ ~Waiting(v) /\ Len(tries[v]) < MaxTries[v]
  /\ root # NoRoot
  /\ Known(v, snapshot[v])
  /\ verify_witness(compute_witness)
  /\ tries' = [tries EXCEPT ![v] = Append(@, [option |-> option, answer |-> "waiting"])]
  /\ wire' = wire \cup {create_ballot(v, RootOf[snapshot[v]], option, r, Len(tries[v]) + 1)}
  /\ UNCHANGED <<registry, snapshot, up, board, crashes, faults>>

\* What the client learns of a ballot, if it still waits for it.
Answer(b, answer) ==
  tries' = [tries EXCEPT ![Voter(b)][b.timestamp].answer =
              IF @ = "waiting" THEN answer ELSE @]

\* The connection breaks: the call ends in an exception, and the ballot may still arrive.
Disconnect(v) ==
  /\ Waiting(v)
  /\ tries' = [tries EXCEPT ![v][Len(tries[v])].answer = "error"]
  /\ UNCHANGED <<registry, snapshot, wire, up, board, crashes, faults>>

LoseBallot(b) ==
  /\ tries[Voter(b)][b.timestamp].answer = "error"
  /\ wire' = wire \ {b}
  /\ UNCHANGED <<registry, client, up, board, crashes, faults>>

-----------------------------------------------------------------------------
(* submit_ballot and append_ballot: refused at one of three places, or     *)
(* inserted; then the commit, which ends the handler either way.           *)

Refused(b) == check_nullifier_used(b) \/ ~validate_ballot(b) \/ Taken(b)

Refuse(b) ==
  /\ up /\ handling = NoBallot
  /\ Refused(b)
  /\ wire' = wire \ {b}
  /\ Answer(b, "rejected")
  /\ UNCHANGED <<registry, snapshot, up, board, crashes, faults>>

\* A plausible slip: the nullifier is marked as seen before the commit.
InsertSeen(b) ==
  /\ up /\ handling = NoBallot
  /\ ~Refused(b)
  /\ wire' = wire \ {b}
  /\ pending' = Append(pending, Entry(b))
  /\ handling' = b
  /\ seen' = seen \cup {Voter(b)}
  /\ UNCHANGED <<registry, client, up, root, rows, crashes, faults>>

Insert(b) ==
  /\ up /\ handling = NoBallot
  /\ ~Refused(b)
  /\ wire' = wire \ {b}
  /\ pending' = Append(pending, Entry(b))
  /\ handling' = b
  /\ UNCHANGED <<registry, client, up, root, seen, rows, crashes, faults>>

\* A plausible slip: commit() left out, as with a connection in autocommit mode.
CommitForgotten ==
  /\ handling # NoBallot
  /\ seen' = seen \cup {Voter(handling)}
  /\ handling' = NoBallot
  /\ Answer(handling, "accepted")
  /\ UNCHANGED <<registry, snapshot, wire, up, root, rows, pending, crashes, faults>>

\* The commit writes every row of the open transaction.
Commit ==
  /\ handling # NoBallot
  /\ rows' = Table /\ pending' = <<>>
  /\ seen' = seen \cup {Voter(handling)}
  /\ handling' = NoBallot
  /\ Answer(handling, "accepted")
  /\ UNCHANGED <<registry, snapshot, wire, up, root, crashes, faults>>

\* The commit raises something else than IntegrityError.  Nothing rolls the transaction
\* back: SQLite does for some errors, and after others (a locked file) it stays open.
CommitFails ==
  /\ handling # NoBallot /\ faults < MaxFaults
  /\ faults' = faults + 1
  /\ pending' \in {pending, <<>>}
  /\ handling' = NoBallot
  /\ Answer(handling, "rejected")
  /\ UNCHANGED <<registry, snapshot, wire, up, root, seen, rows, crashes>>

\* The process ends; its connections break.
Crash ==
  /\ up /\ crashes < MaxCrashes
  /\ crashes' = crashes + 1
  /\ up' = FALSE
  /\ seen' = {} /\ pending' = <<>> /\ handling' = NoBallot
  /\ wire' = {}
  /\ tries' = [v \in Voters |-> [t \in 1 .. Len(tries[v]) |->
                 IF tries[v][t].answer = "waiting" THEN [tries[v][t] EXCEPT !.answer = "error"]
                 ELSE tries[v][t]]]
  /\ UNCHANGED <<registry, snapshot, root, rows, faults>>

Next ==
  \/ \E v \in Voters : register_voter(v) \/ FetchRegistry(v) \/ Disconnect(v)
  \/ \E v \in Voters, option \in Options, r \in [Options -> Randoms] : cast_vote(v, option, r)
  \/ \E b \in wire : LoseBallot(b) \/ Refuse(b) \/ Insert(b)
  \/ initialize_server \/ Commit \/ CommitFails \/ Crash

Spec == Init /\ [][Next]_vars

-----------------------------------------------------------------------------
(* Properties. *)

Answers == {"waiting", "accepted", "rejected", "error"}

\* The ballots and rows that can exist: those of a call of cast_vote.
IsBallot(b) ==
  /\ Voter(b) \in Voters
  /\ b.timestamp \in 1 .. Len(tries[Voter(b)])

\* Every variable keeps its type: ballots on the wire, in the handler and in the table
\* belong to calls of cast_vote, and only a running server handles one.
TypeOK ==
  /\ registry \subseteq Voters
  /\ snapshot \in [Voters -> SUBSET Voters]
  /\ tries \in [Voters -> Seq([option : Options, answer : Answers])]
  /\ \A v \in Voters : Len(tries[v]) <= MaxTries[v]
  /\ \A b \in wire : IsBallot(b)
  /\ up \in BOOLEAN
  /\ seen \subseteq Voters
  /\ \A i \in 1 .. Len(Table) : IsBallot(Table[i].ballot)
  /\ handling # NoBallot => up /\ IsBallot(handling)
  /\ ~up => pending = <<>>
  /\ crashes \in 0 .. MaxCrashes /\ faults \in 0 .. MaxFaults

\* append_ballot never lets a voter into the table twice, whatever was lost, retried,
\* left uncommitted or forgotten by a restart.
OneVotePerVoter ==
  \A i, j \in 1 .. Len(Table) : Voter(Table[i].ballot) = Voter(Table[j].ballot) => i = j

\* The audit confirms the chain at any moment, also after commits that failed, rows that
\* vanished with a crash and rows committed late; and it confirms every ballot as long as
\* no restart has given the board the root of a longer roll.
AuditPasses ==
  /\ verify_chain_integrity(Table) /\ verify_chain_integrity(rows)
  /\ crashes = 0 => verify_all_ballots

\* A client told "accepted" finds that very ballot in the committed table, for ever.
AcceptedCounted ==
  \A v \in Voters : \A t \in 1 .. Len(tries[v]) :
    tries[v][t].answer = "accepted" =>
      \E i \in 1 .. Len(rows) : Voter(rows[i].ballot) = v /\ rows[i].ballot.timestamp = t

\* The option a row's voter chose in the call that made the ballot.
ChoiceOf(row) == tries[Voter(row.ballot)][row.ballot.timestamp].option

\* What the tally needs of the key: the randomness is invertible, no ciphertext is 0,
\* products of ciphertexts decrypt to sums, and the voters' number is below the modulus.
Ciphers == {encrypt(key, m, r) : m \in 0 .. key.n - 1, r \in Units(key.n)}
Decrypted == [c \in Ciphers |-> decrypt(key, c)]
DecryptsBits == \A m \in {0, 1}, r \in Randoms :
  Encrypted[m, r] \in Ciphers /\ Decrypted[Encrypted[m, r]] = m
DecryptsSums == \A c, d \in Ciphers :
  LET sum == add_encrypted(key, c, d)
  IN  sum \in Ciphers /\ Decrypted[sum] = (Decrypted[c] + Decrypted[d]) % key.n
Homomorphic ==
  /\ key.n \in Nat /\ Cardinality(Voters) < key.n
  /\ 0 \notin Ciphers
  /\ DecryptsBits /\ DecryptsSums

\* The decrypted tally counts, for every option, the voters in the table who chose it.
TallyRight ==
  get_tally(Table) = IF Table = <<>> THEN <<>>
    ELSE [o \in Options |-> Cardinality({i \in 1 .. Len(Table) : ChoiceOf(Table[i]) = o})]

\* Proofs decide membership and different rolls have different roots: among the rolls the
\* clients hold, and among all rolls of up to six voters.
RollSound == [roll \in (SUBSET Voters) \ {{}} |-> ProofsDecideMembership(get_all_public_keys(roll), Voters)]
SixSound == RollsSound(1 .. 6)
MerkleSound ==
  /\ SixSound
  /\ \A v \in Voters : snapshot[v] # {} =>
       /\ RollSound[snapshot[v]]
       /\ \A w \in Voters : snapshot[w] # {} /\ RootOf[snapshot[w]] = RootOf[snapshot[v]] =>
            snapshot[w] = snapshot[v]

\* A ballot is answered "rejected" only because its voter is in the table, its root is
\* not the board's, or its own commit failed: a vote that is nowhere is never refused as
\* a duplicate.
RefusalExplained ==
  [][\A b \in wire :
       (/\ tries[Voter(b)][b.timestamp].answer = "waiting"
        /\ tries'[Voter(b)][b.timestamp].answer = "rejected")
       => Taken(b) \/ b.proof.inputs[1] # root]_vars

\* The committed table is a poll: votes are added for new voters, none is changed or
\* lost, and whoever is told "accepted" is counted.
Counted == [v \in load_nullifiers |->
              ChoiceOf(rows[CHOOSE i \in 1 .. Len(rows) : Voter(rows[i].ballot) = v])]
Confirmed == {v \in Voters : \E t \in 1 .. Len(tries[v]) : tries[v][t].answer = "accepted"}
PollOf == INSTANCE Poll WITH counted <- Counted, confirmed <- Confirmed
CountsVotes == PollOf!Spec
=============================================================================
