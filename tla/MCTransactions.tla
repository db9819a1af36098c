--------------------------- MODULE MCTransactions ---------------------------
(* Instances of Transactions for TLC.                                      *)
EXTENDS Transactions, TLC

CONSTANTS r0, r1, r2, k0, k1, k2, u1, u2, u3, m1, m2

Arguments(k, u, m, s) == [key |-> k, user |-> u, merchant |-> m, stamp |-> s]

\* r0 is in the table; r1 and r2 are given.
Scenario(first, second) == (r0 :> Arguments(k0, u1, m1, 1)) @@ (r1 :> first) @@ (r2 :> second)

\* A retry, two transactions of one user against the order of their stamps,
\* one key used for two users, and a user without a row in users.
MCScenarios ==
    { Scenario(Arguments(k1, u1, m1, 2), Arguments(k1, u1, m1, 2)),
      Scenario(Arguments(k1, u1, m1, 3), Arguments(k2, u1, m2, 2)),
      Scenario(Arguments(k1, u1, m1, 2), Arguments(k1, u2, m2, 2)),
      Scenario(Arguments(k1, u1, m1, 2), Arguments(k0, u3, m2, 2)) }

\* Two users: nothing but the pool is shared.
MCStrangers == { Scenario(Arguments(k1, u1, m1, 2), Arguments(k2, u2, m2, 2)) }
=============================================================================
