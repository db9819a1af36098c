----------------------------- MODULE MCElection -----------------------------
EXTENDS Election

\* Voter 1 may call cast_vote twice, voter 2 once.
Tries == <<2, 1>>

\* Coefficients of the sharing polynomials that are tried, for 2 of 3 and 3 of 5.
Polynomials == {<<3, <<c>>>> : c \in 0 .. 4} \cup {<<5, <<c, 2>>>> : c \in {0, 3}}
FirstShares(n, t) == {s \in [1 .. t -> 1 .. n] : \A i, j \in 1 .. t : s[i] = s[j] => i = j}

\* combine_shares, given any t shares in any order, decrypts as the private key does.
CombineAgrees(c, polynomial, orders) ==
  LET n == polynomial[1]
      t == Len(polynomial[2]) + 1
      shares == KeyShares(key.lambda, polynomial[2], n)
  IN  \A s \in orders :
        LET given == [i \in 1 .. t |-> shares[s[i]]]
        IN  Reconstructs(given) /\ combine_shares(key, c, given, t) = decrypt(key, c)
CombineAlwaysAgrees == \A p \in Polynomials, m \in {0, 1, 34} : 
  CombineAgrees(encrypt(key, m, 3), p, FirstShares(p[1], Len(p[2]) + 1))

\* The primes are found, keys made of two of the same length decrypt what they encrypt,
\* and adding, scaling and tallying ciphertexts adds, scales and tallies the plaintexts.
IsPrime(n) == n >= 2 /\ \A d \in 2 .. n - 1 : n % d # 0
PrimesAreFound ==
  /\ \A n \in 0 .. 130 : is_prime(n, Bases(n)) = IsPrime(n)
  /\ \A n \in 5 .. 130 : IsPrime(n) => \A a \in Bases(n) : PassesRound(n, a)
Samples(n) == {0, 1, 2, n \div 2, n - 1}
PaillierAdds ==
  \A bits \in {3, 4} : \A p, q \in generate_prime(bits) :
    p # q =>
      LET k == generate_keypair(p, q)
          E(m, r) == encrypt(k, m, r)
          units == {1, 2, k.n - 1}
      IN  /\ InverseExists((Pow(k.g, k.lambda, k.n * k.n) - 1) \div k.n, k.n)
          /\ units \subseteq Units(k.n)
          /\ \A m1, m2 \in Samples(k.n), r1, r2 \in units :
               /\ decrypt(k, add_encrypted(k, E(m1, r1), E(m2, r2))) = (m1 + m2) % k.n
               /\ decrypt(k, multiply_encrypted_by_constant(k, E(m1, r1), m2)) = (m1 * m2) % k.n
          /\ LET ballots == << <<E(1, 2), E(0, 3)>>, <<E(0, 4), E(1, 2)>>, <<E(1, 1), E(0, 2)>> >>
                 tally == tally_multi_option(k, ballots)
             IN  [o \in DOMAIN tally |-> decrypt(k, tally[o])] = <<2, 1>>
          /\ decrypt(k, compute_tally(k, <<>>, 2)) = 0

\* The server's tally, ciphertexts multiplied one by one, is tally_multi_option's; any t
\* holders of key shares decrypt it as the server does, for all choices and orders of the
\* shares; and the cryptosystem adds on sample keys, plaintexts and randomness, for the
\* election's own key on all of them.
TalliesAgree ==
  LET votes == [i \in 1 .. Len(Table) |-> Table[i].ballot.votes]
      tally == Tally(Table)
  IN  /\ PrimesAreFound /\ PaillierAdds /\ CombineAlwaysAgrees /\ Homomorphic
      /\ tally = tally_multi_option(key, votes)
      /\ \A o \in DOMAIN tally : CombineAgrees(tally[o], <<3, <<2>>>>, {<<1, 3>>, <<3, 2>>})

=============================================================================
