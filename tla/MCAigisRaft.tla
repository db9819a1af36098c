---------------------------- MODULE MCAigisRaft ----------------------------
(* Instances of AigisRaft for TLC.                                         *)
EXTENDS AigisRaft, TLC

\* Commands are interchangeable; nodes are not, since peers are a list.
Symmetry == Permutations(Commands)
=============================================================================
