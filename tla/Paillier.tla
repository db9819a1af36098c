------------------------------ MODULE Paillier ------------------------------
(***************************************************************************)
(* The number theory of prog3/homomorphic.py and prog3/threshold_crypto.py *)
(* as functions on small integers.  The random choices of the code are     *)
(* parameters.  A key is [p, q, n, g, lambda, mu].                         *)
(***************************************************************************)
EXTENDS Integers, Sequences, FiniteSets, Functions, FiniteSetsExt

\* Python's pow(base, exponent, modulus), by squaring.
Pow(base, exponent, modulus) ==
  LET f[e \in Nat] == IF e = 0 THEN 1 % modulus
                      ELSE LET half == f[e \div 2]
                               square == (half * half) % modulus
                           IN  IF e % 2 = 1 THEN (square * base) % modulus ELSE square
  IN  f[exponent]

\* Python's // when the divisor may be negative.
FloorDiv(a, b) == IF b < 0 THEN (-a) \div (-b) ELSE a \div b

\* extended_gcd(a, b) = <<gcd, x, y>> with a * x + b * y = gcd.
extended_gcd(a0, b0) ==
  LET f[a \in Nat, b \in Nat] ==
        IF a = 0 THEN <<b, 0, 1>>
        ELSE LET r == f[b % a, a] IN <<r[1], r[3] - (b \div a) * r[2], r[2]>>
  IN  f[a0, b0]
gcd(a, b) == extended_gcd(a, b)[1]
InverseExists(a, m) == gcd(a % m, m) = 1

\* A plausible slip: the coefficient of the modulus instead of the number's.
mod_inverseOther(a, m) == ((extended_gcd(a % m, m)[3] % m) + m) % m

mod_inverse(a, m) == ((extended_gcd(a % m, m)[2] % m) + m) % m

lcm(a, b) == (a * b) \div gcd(a, b)

(***************************************************************************)
(* Miller-Rabin.  n - 1 = 2^r * d with d odd; PassesRound is one round     *)
(* with the base a, and is_prime(n, bases) the answer for the bases drawn. *)
(***************************************************************************)
TwoPart(n) == CHOOSE r \in 0 .. n : (n - 1) % 2 ^ r = 0 /\ ((n - 1) \div 2 ^ r) % 2 = 1
Bases(n) == 2 .. n - 2
Squarings(r) == 0 .. r - 1
PassesRound(n, a) ==
  LET r == TwoPart(n)
      x == Pow(a, (n - 1) \div 2 ^ r, n)
  IN  x = 1 \/ \E j \in Squarings(r) : Pow(x, 2 ^ j, n) = n - 1
is_prime(n, bases) ==
  /\ n >= 2
  /\ n \in {2, 3} \/ (n % 2 = 1 /\ \A a \in bases : PassesRound(n, a))

\* What generate_prime(bits) can return when its test is not deceived.
generate_prime(bits) ==
  {p \in 2 ^ (bits - 1) .. 2 ^ bits - 1 : p % 2 = 1 /\ is_prime(p, Bases(p))}

generate_keypair(p, q) ==
  LET n      == p * q
      g      == n + 1
      lambda == lcm(p - 1, q - 1)
      l      == (Pow(g, lambda, n * n) - 1) \div n
  IN  [n |-> n, g |-> g, lambda |-> lambda, mu |-> mod_inverse(l, n)]

Units(n) == {r \in 1 .. n - 1 : gcd(r, n) = 1}
encrypt(key, plaintext, r) ==
  (Pow(key.g, plaintext, key.n * key.n) * Pow(r, key.n, key.n * key.n)) % (key.n * key.n)

\* A plausible slip: the product reduced modulo n.
add_encryptedModN(key, c1, c2) == (c1 * c2) % key.n

add_encrypted(key, c1, c2) == (c1 * c2) % (key.n * key.n)

multiply_encrypted_by_constant(key, c, constant) == Pow(c, constant, key.n * key.n)

decrypt(key, c) == (((Pow(c, key.lambda, key.n * key.n) - 1) \div key.n) * key.mu) % key.n

\* HomomorphicTally.compute_tally over the votes added so far; r is the randomness of
\* the encrypted zero that an empty tally answers.
compute_tally(key, votes, r) ==
  LET sum[i \in Nat] == IF i = 1 THEN votes[1] ELSE add_encrypted(key, sum[i - 1], votes[i])
  IN  IF votes = <<>> THEN encrypt(key, 0, r) ELSE sum[Len(votes)]

\* MultiOptionBallot.tally_multi_option: one tally per option of the first ballot.
tally_multi_option(key, ballots) ==
  IF ballots = <<>> THEN <<>>
  ELSE [o \in 1 .. Len(ballots[1]) |-> compute_tally(key, [b \in 1 .. Len(ballots) |-> ballots[b][o]], 1)]

(***************************************************************************)
(* ThresholdPaillier: shares of lambda by a polynomial whose coefficients  *)
(* are drawn at random, and the reconstruction from the first t of the     *)
(* shares given.  combine_shares gets key shares, as demo_advanced.py      *)
(* passes them.                                                            *)
(***************************************************************************)
Product(factors) == FoldFunction(LAMBDA x, y : x * y, 1, factors)
Sum(terms) == FoldFunction(LAMBDA x, y : x + y, 0, terms)

\* coeffs lists the t - 1 coefficients above the secret.
KeyShares(secret, coeffs, n) ==
  [i \in 1 .. n |-> [index |-> i, value |-> secret + Sum([e \in 1 .. Len(coeffs) |-> coeffs[e] * i ^ e])]]

\* The Lagrange coefficient of a share at 0, as a fraction.
Others(selected, i) == {j \in 1 .. Len(selected) : selected[j].index # selected[i].index}
Numerator(selected, i) == Product([j \in Others(selected, i) |-> -selected[j].index])
Denominator(selected, i) == Product([j \in Others(selected, i) |-> selected[i].index - selected[j].index])

FinalDen(selected) == Product([i \in 1 .. Len(selected) |-> Denominator(selected, i)])
FinalNum(selected) ==
  Sum([i \in 1 .. Len(selected) |->
         selected[i].value * Numerator(selected, i) * FloorDiv(FinalDen(selected), Denominator(selected, i))])

\* Otherwise "Reconstruction failed: result not an integer" is raised.
Reconstructs(selected) ==
  LET den == FinalDen(selected) IN FinalNum(selected) % (IF den < 0 THEN -den ELSE den) = 0

combine_shares(key, ciphertext, shares, t) ==
  LET secret == FloorDiv(FinalNum(SubSeq(shares, 1, t)), FinalDen(SubSeq(shares, 1, t)))
      l      == (Pow(ciphertext, secret, key.n * key.n) - 1) \div key.n
  IN  (l * mod_inverse(secret, key.n)) % key.n
=============================================================================
