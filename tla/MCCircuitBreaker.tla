-------------------------- MODULE MCCircuitBreaker --------------------------
(* Instances of CircuitBreaker for TLC.                                    *)
EXTENDS CircuitBreaker, TLC

\* The callers are interchangeable.
Symmetry == Permutations(Callers)
=============================================================================
