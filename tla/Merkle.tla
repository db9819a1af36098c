------------------------------- MODULE Merkle -------------------------------
(***************************************************************************)
(* The Merkle tree of prog3/crypto_primitives.py and the registries built  *)
(* on it by prog3/voter_registry.py.  SHA-256 is taken to be injective: a  *)
(* leaf's hash is <<key>> and the hash of two hashes is the pair of them,  *)
(* so two hashes are equal exactly when they were computed alike.          *)
(***************************************************************************)
EXTENDS Integers, Sequences, FiniteSets, SequencesExt

Hash(leaf) == <<leaf>>
HashPair(left, right) == <<left, right>>

\* A plausible slip: the odd one moves up as it is, and keeps its sibling only in get_proof.
NextLevelPromoted(level) ==
  [i \in 1 .. (Len(level) + 1) \div 2 |->
     IF 2 * i <= Len(level) THEN HashPair(level[2 * i - 1], level[2 * i]) ELSE level[2 * i - 1]]

\* One pass of the while loop: neighbours are paired, an odd one with itself.
NextLevel(level) ==
  [i \in 1 .. (Len(level) + 1) \div 2 |->
     HashPair(level[2 * i - 1], IF 2 * i <= Len(level) THEN level[2 * i] ELSE level[2 * i - 1])]

\* The level k steps above the leaves, and the number of steps to a single hash, which
\* is less than that of the leaves.
Leaves(leaves) == [i \in 1 .. Len(leaves) |-> Hash(leaves[i])]
levels(leaves) ==
  LET pass[k \in 0 .. Len(leaves)] == IF k = 0 THEN Leaves(leaves) ELSE NextLevel(pass[k - 1])
  IN  pass
Level(leaves, k) == levels(leaves)[k]
Depth(leaves) == CHOOSE k \in 0 .. Len(leaves) :
                   /\ Len(Level(leaves, k)) = 1
                   /\ \A j \in 0 .. k - 1 : Len(Level(leaves, j)) > 1

build_tree(leaves) == [k \in 0 .. Depth(leaves) |-> Level(leaves, k)]
Root(leaves) == Level(leaves, Depth(leaves))[1]

\* The siblings on the way from a leaf (counted from 0) to the root.
positions(leaf_index, n) ==
  LET at[k \in 0 .. n] == IF k = 0 THEN leaf_index ELSE at[k - 1] \div 2 IN at
Sibling(level, at) ==
  LET right == at % 2 = 1
      next  == IF right THEN at - 1 ELSE at + 1
  IN  [hash |-> level[1 + (IF next < Len(level) THEN next ELSE at)], right |-> right]
get_proof(leaves, leaf_index) ==
  LET tree == build_tree(leaves)
      at   == positions(leaf_index, Depth(leaves))
  IN  [leaf     |-> tree[0][leaf_index + 1],
       siblings |-> [k \in 1 .. Depth(leaves) |-> Sibling(tree[k - 1], at[k - 1])],
       root     |-> Root(leaves)]

Climb(hash, sibling) ==
  IF sibling.right THEN HashPair(sibling.hash, hash) ELSE HashPair(hash, sibling.hash)
climbing(siblings, hash) ==
  LET climb[k \in 0 .. Len(siblings)] == IF k = 0 THEN hash ELSE Climb(climb[k - 1], siblings[k])
  IN  climb
verify_proof(proof, key) ==
  Hash(key) = proof.leaf /\ climbing(proof.siblings, Hash(key))[Len(proof.siblings)] = proof.root

\* VoterRegistry keeps its voters by id and lists their keys in the order of the ids;
\* keys are numbered so that this is their own order.
get_all_public_keys(voters) ==
  [i \in 1 .. Cardinality(voters) |->
     CHOOSE v \in voters : Cardinality({w \in voters : w < v}) = i - 1]

public_key_to_index(keys) == [key \in ToSet(keys) |-> (CHOOSE i \in 1 .. Len(keys) : keys[i] = key) - 1]
get_membership_proof(keys, key) == get_proof(keys, public_key_to_index(keys)[key])

\* What a Merkle tree promises for a sequence of distinct keys: every key has a proof
\* that verifies, and no other key verifies in its place.
ProofsDecideMembership(keys, others) ==
  \A key \in ToSet(keys) : \A other \in others :
     verify_proof(get_membership_proof(keys, key), other) = (other = key)

\* What it promises for the rolls of some voters: proofs decide membership, and different
\* rolls have different roots.
RollsSound(voters) ==
  LET rolls == (SUBSET voters) \ {{}}
  IN  /\ \A roll \in rolls : ProofsDecideMembership(get_all_public_keys(roll), voters)
      /\ Cardinality({Root(get_all_public_keys(roll)) : roll \in rolls}) = Cardinality(rolls)
=============================================================================
