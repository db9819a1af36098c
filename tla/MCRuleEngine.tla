---------------------------- MODULE MCRuleEngine ----------------------------
(* Instances of RuleEngine for TLC.                                        *)
EXTENDS RuleEngine, TLC

\* The workers are interchangeable, and so are the evaluations.
Symmetry == Permutations(Workers) \cup Permutations(Evaluations)

Amount == Name("amount")
Average == Name("avg_amount")
New == Name("merchant_new")
Ratio == BinOp(Amount, "Div", Average)

\* amount > 1; amount / avg_amount > 1; merchant_new and limit < amount (no
\* such name, and not reached in test_context); amount > -1; and a text with
\* an upper-case AND.
MCExpressions ==
    { Compare(Amount, <<"Gt">>, <<Constant(1)>>),
      Compare(Ratio, <<"Gt">>, <<Constant(1)>>),
      BoolOp("And", <<New, Compare(Amount, <<"Gt">>, <<Name("limit")>>)>>),
      Compare(Amount, <<"Gt">>, <<UnaryOp("USub", Constant(1))>>),
      SyntaxError }

Context(a, b, m) == [amount |-> a, avg_amount |-> b, merchant_new |-> m]
MCTestContext == Context(2, 1, 0)
MCContexts == {Context(2, 0, 1), Context(1, 2, 0)}

Operands == {Amount, Average, Constant(1), Ratio, BinOp(Average, "Mod", Amount),
             UnaryOp("Not", New)}
Ops == {"Lt", "GtE", "NotEq"}
MCChains ==
    {Compare(l, <<o>>, <<r>>) : l, r \in Operands, o \in Ops}
    \cup {Compare(l, <<o, p>>, <<m, r>>) : l, m, r \in Operands, o, p \in Ops}
MCJunctions == {BoolOp(o, xs) : o \in {"And", "Or"}, xs \in [1..3 -> Operands]}
=============================================================================
