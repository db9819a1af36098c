----------------------------- MODULE RuleEngine -----------------------------
(***************************************************************************)
(* PANOPTICON's rule engine (prog6): the cache and the table of RuleCache  *)
(* with the expressions of RuleParser, and what the rules in the table     *)
(* evaluate to.                                                            *)
(***************************************************************************)
EXTENDS RuleCache, RuleParser

CONSTANTS
    Chains, Junctions   \* trees whose evaluation is compared with Python's

\* add_rule tries a rule in one context only; in every other context an
\* accepted rule can still fail in nothing but a division by zero.
AcceptedFailsOnZero ==
    \A x \in table : \A c \in Contexts :
        LET v == safe_eval(x.expression, c) IN v.ok \/ v.err = "ZeroDivisionError"

\* Chains and Junctions are comparisons and Boolean operators.
PythonOnAll ==
    \A c \in Contexts :
        /\ \A node \in Chains : evaluate(node, c) = ChainMeaning(node, c)
        /\ \A node \in Junctions : evaluate(node, c) = BoolMeaning(node, c)

\* evaluate: a chained comparison and a Boolean operator stop at the operand
\* that decides and give what Python gives, errors included; so for the
\* rules in the table and for all the trees Chains and Junctions.
EvaluateIsPython ==
    /\ PythonOnAll
    /\ \A x \in table : \A c \in Contexts : x.expression.t = "Compare" =>
            evaluate(x.expression, c) = ChainMeaning(x.expression, c)
=============================================================================
