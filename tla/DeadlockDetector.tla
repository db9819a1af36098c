-------------------------- MODULE DeadlockDetector --------------------------
(***************************************************************************)
(* DeadlockDetector of PANOPTICON (prog6): depth-first search for a cycle  *)
(* in a wait-for graph, a function from waiters to the sets of holders     *)
(* they wait for.                                                          *)
(***************************************************************************)
EXTENDS FiniteSetsExt

EmptyGraph == [n \in {} |-> {}]

add_wait_edge(graph, waiter, holder) ==
    [n \in DOMAIN graph \cup {waiter} |->
        (IF n \in DOMAIN graph THEN graph[n] ELSE {}) \cup (IF n = waiter THEN {holder} ELSE {})]

remove_wait_edge(graph, waiter, holder) ==
    IF waiter \in DOMAIN graph THEN [graph EXCEPT ![waiter] = @ \ {holder}] ELSE graph

\* Mutation: a node stays on the stack when its search is over.
LeaveStays(rec_stack, node) == rec_stack

\* rec_stack.remove(start_node)
Leave(rec_stack, node) == rec_stack \ {node}

RECURSIVE detect_cycle(_, _, _, _), Neighbors(_, _, _, _)

\* detect_cycle returns its result and the two sets it changes.
detect_cycle(graph, node, visited, rec_stack) ==
    LET r == Neighbors(graph, IF node \in DOMAIN graph THEN graph[node] ELSE {},
                       visited \cup {node}, rec_stack \cup {node})
    IN IF r.found THEN r ELSE [r EXCEPT !.rec_stack = Leave(@, node)]

\* The loop over the neighbours that are left, in some order.
Neighbors(graph, rest, visited, rec_stack) ==
    IF rest = {} THEN [found |-> FALSE, visited |-> visited, rec_stack |-> rec_stack]
    ELSE LET n == CHOOSE m \in rest : TRUE
             r == IF n \in visited
                  THEN [found |-> n \in rec_stack, visited |-> visited, rec_stack |-> rec_stack]
                  ELSE detect_cycle(graph, n, visited, rec_stack)
         IN IF r.found THEN r ELSE Neighbors(graph, rest \ {n}, r.visited, r.rec_stack)

RECURSIVE SearchFrom(_, _, _, _)
SearchFrom(graph, rest, visited, rec_stack) ==
    IF rest = {} THEN FALSE
    ELSE LET n == CHOOSE m \in rest : TRUE
             r == detect_cycle(graph, n, visited, rec_stack)
         IN IF n \in visited THEN SearchFrom(graph, rest \ {n}, visited, rec_stack)
            ELSE r.found \/ SearchFrom(graph, rest \ {n}, r.visited, r.rec_stack)

has_deadlock(graph) == SearchFrom(graph, DOMAIN graph, {}, {})

-----------------------------------------------------------------------------

\* A graph has a cycle iff some of its waiters wait for each other only:
\* each of them waits for one of them.
Cyclic(graph) ==
    \E S \in SUBSET DOMAIN graph : S # {} /\ \A n \in S : graph[n] \cap S # {}

\* The graph that adding these edges builds.
Graph(edges) == FoldSet(LAMBDA e, g : add_wait_edge(g, e[1], e[2]), EmptyGraph, edges)
=============================================================================
