--------------------------- MODULE MCTokenBucket ---------------------------
(* Instances of TokenBucket for TLC.                                       *)
EXTENDS TokenBucket, TLC

\* The threads are interchangeable.
Symmetry == Permutations(Threads)
=============================================================================
