--------------------------- MODULE MCChronosJobs ---------------------------
(***************************************************************************)
(* ChronosJobs on small clusters: every node configured for the whole      *)
(* range of shards, as in the shipped chronos.properties, or one of them.  *)
(***************************************************************************)
EXTENDS ChronosJobs, TLC

MCShard == [n \in Nodes |-> Jobs]

\* One node's range covers the jobs, the others only reap.
MCOneShard == [n \in Nodes |-> IF n = CHOOSE m \in Nodes : TRUE THEN Jobs ELSE {}]

Symmetry == Permutations(Nodes) \cup Permutations(Tasks)
=============================================================================
