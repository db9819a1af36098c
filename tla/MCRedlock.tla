----------------------------- MODULE MCRedlock -----------------------------
(* Instances of Redlock for TLC, with DeadlockDetector on its wait graphs. *)
EXTENDS Redlock, TLC

D == INSTANCE DeadlockDetector

\* The instances are interchangeable, and so are the calls.
Symmetry == Permutations(Instances) \cup Permutations(Calls)

\* Who waits for whom: a call asks an instance whose key is another's.
Waits ==
    {<<c, d>> \in Calls \X Calls :
        /\ c # d /\ pc[c] = "acquire"
        /\ \E i \in pending[c] : value[i] = d}

WaitGraph == D!Graph(Waits)

\* All graphs over three waiters and the edges they may lose.
AllAgree ==
    \A edges \in SUBSET ((1..3) \X (1..3)) :
        LET g == D!Graph(edges) IN
        /\ D!has_deadlock(g) = D!Cyclic(g)
        /\ \A e \in edges :
             D!has_deadlock(D!remove_wait_edge(g, e[1], e[2])) = D!Cyclic(D!Graph(edges \ {e}))

\* has_deadlock answers True iff somebody waits for itself over others: for
\* the wait graphs of the split votes that Redlock runs into, and for every
\* graph built and reduced with add_wait_edge and remove_wait_edge.
DetectorFindsCycles ==
    /\ AllAgree
    /\ D!has_deadlock(WaitGraph) = D!Cyclic(WaitGraph)
=============================================================================
