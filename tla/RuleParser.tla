----------------------------- MODULE RuleParser -----------------------------
(***************************************************************************)
(* SafeExpressionParser of PANOPTICON (prog6): validate_tree and evaluate  *)
(* over Python expression trees.  A tree is a record whose field t names   *)
(* the ast class; "SyntaxError" stands for a text that ast.parse refuses   *)
(* (among them every text with an upper-case AND, OR or NOT).  A number is *)
(* a fraction <<n, d>> with d > 0, and True and False are 1 and 0.         *)
(* Strings are left out.                                                   *)
(***************************************************************************)
EXTENDS Integers, Sequences, FiniteSets

Value(n) == [ok |-> TRUE, v |-> <<n, 1>>]
Bool(b) == Value(IF b THEN 1 ELSE 0)
Raise(e) == [ok |-> FALSE, err |-> e]
Truth(x) == x.v[1] # 0

-----------------------------------------------------------------------------
(* Trees.                                                                  *)

Constant(n) == [t |-> "Constant", value |-> n]
Name(id) == [t |-> "Name", id |-> id]
BinOp(l, o, r) == [t |-> "BinOp", left |-> l, op |-> o, right |-> r]
UnaryOp(o, x) == [t |-> "UnaryOp", op |-> o, operand |-> x]
Compare(l, os, cs) == [t |-> "Compare", left |-> l, ops |-> os, comparators |-> cs]
BoolOp(o, xs) == [t |-> "BoolOp", op |-> o, values |-> xs]
SyntaxError == [t |-> "SyntaxError"]

-----------------------------------------------------------------------------
(* The parser.                                                             *)

ALLOWED_OPS == {"Add", "Sub", "Mult", "Div", "Mod", "Pow", "And", "Or", "Not",
                "Eq", "NotEq", "Lt", "LtE", "Gt", "GtE"}

\* Mutation: only the left side of a comparison is looked at.
RECURSIVE validate_treeLeft(_, _)
validate_treeLeft(node, names) ==
    CASE node.t = "BinOp" ->
            node.op \in ALLOWED_OPS /\ validate_treeLeft(node.left, names) /\ validate_treeLeft(node.right, names)
      [] node.t = "UnaryOp" -> node.op \in ALLOWED_OPS /\ validate_treeLeft(node.operand, names)
      [] node.t = "Compare" ->
            (\A i \in DOMAIN node.ops : node.ops[i] \in ALLOWED_OPS) /\ validate_treeLeft(node.left, names)
      [] node.t = "BoolOp" ->
            node.op \in ALLOWED_OPS /\ \A i \in DOMAIN node.values : validate_treeLeft(node.values[i], names)
      [] node.t = "Name" -> node.id \in names
      [] OTHER -> node.t = "Constant"

\* validate_tree returns, or raises ValueError for a node outside the list.
RECURSIVE validate_tree(_, _)
validate_tree(node, names) ==
    CASE node.t = "BinOp" ->
            node.op \in ALLOWED_OPS /\ validate_tree(node.left, names) /\ validate_tree(node.right, names)
      [] node.t = "UnaryOp" -> node.op \in ALLOWED_OPS /\ validate_tree(node.operand, names)
      [] node.t = "Compare" ->
            /\ \A i \in DOMAIN node.ops : node.ops[i] \in ALLOWED_OPS
            /\ validate_tree(node.left, names)
            /\ \A i \in DOMAIN node.comparators : validate_tree(node.comparators[i], names)
      [] node.t = "BoolOp" ->
            node.op \in ALLOWED_OPS /\ \A i \in DOMAIN node.values : validate_tree(node.values[i], names)
      [] node.t = "Name" -> node.id \in names
      [] OTHER -> node.t = "Constant"

\* The arithmetic operators; Pow with whole exponents that are not negative.
Modulo(a, b) == IF b > 0 THEN a % b ELSE -((-a) % (-b))

Arithmetic(op, a, b) ==
    LET n == a.v[1] * b.v[2]  m == b.v[1] * a.v[2]  d == a.v[2] * b.v[2] IN
    CASE op = "Add" -> [a EXCEPT !.v = <<n + m, d>>]
      [] op = "Sub" -> [a EXCEPT !.v = <<n - m, d>>]
      [] op = "Mult" -> [a EXCEPT !.v = <<a.v[1] * b.v[1], d>>]
      [] op = "Pow" -> [a EXCEPT !.v = <<a.v[1] ^ b.v[1], a.v[2] ^ b.v[1]>>]
      [] m = 0 /\ op \in {"Div", "Mod"} -> Raise("ZeroDivisionError")
      [] op = "Div" -> [a EXCEPT !.v = IF m > 0 THEN <<n, m>> ELSE <<-n, -m>>]
      [] op = "Mod" -> [a EXCEPT !.v = <<Modulo(n, m), d>>]
      [] OTHER -> Raise("KeyError")

Holds(op, a, b) ==
    LET n == a.v[1] * b.v[2]  m == b.v[1] * a.v[2] IN
    CASE op = "Eq" -> n = m [] op = "NotEq" -> n # m [] op = "Lt" -> n < m
      [] op = "LtE" -> n <= m [] op = "Gt" -> n > m [] op = "GtE" -> n >= m

\* Mutation: the left side of a chained comparison stays the first one.
ChainStays(left, right) == left

\* left = right
ChainMoves(left, right) == right

RECURSIVE evaluate(_, _), Chain(_, _, _, _), ShortCircuit(_, _, _)

\* The loop over zip(node.ops, node.comparators).
Chain(left, ops, rest, context) ==
    IF ops = <<>> THEN Bool(TRUE)
    ELSE LET right == evaluate(Head(rest), context) IN
         IF ~right.ok THEN right
         ELSE IF ~Holds(Head(ops), left, right) THEN Bool(FALSE)
              ELSE Chain(ChainMoves(left, right), Tail(ops), Tail(rest), context)

\* all(...) stops at the first false value, any(...) at the first true one.
ShortCircuit(stop, values, context) ==
    IF values = <<>> THEN Bool(~stop)
    ELSE LET x == evaluate(Head(values), context) IN
         IF ~x.ok THEN x
         ELSE IF Truth(x) = stop THEN Bool(stop)
              ELSE ShortCircuit(stop, Tail(values), context)

evaluate(node, context) ==
    CASE node.t = "BinOp" ->
            LET l == evaluate(node.left, context)  r == evaluate(node.right, context) IN
            IF ~l.ok THEN l ELSE IF ~r.ok THEN r ELSE Arithmetic(node.op, l, r)
      [] node.t = "UnaryOp" ->
            LET x == evaluate(node.operand, context) IN
            IF ~x.ok THEN x ELSE IF node.op = "Not" THEN Bool(~Truth(x)) ELSE Raise("KeyError")
      [] node.t = "Compare" ->
            LET l == evaluate(node.left, context) IN
            IF ~l.ok THEN l ELSE Chain(l, node.ops, node.comparators, context)
      [] node.t = "BoolOp" -> ShortCircuit(node.op = "Or", node.values, context)
      [] node.t = "Name" ->
            IF node.id \in DOMAIN context THEN Value(context[node.id]) ELSE Raise("ValueError")
      [] node.t = "Constant" -> Value(node.value)
      [] OTHER -> Raise("ValueError")

safe_eval(expression, context) ==
    IF expression # SyntaxError /\ validate_tree(expression, DOMAIN context)
    THEN evaluate(expression, context) ELSE Raise("ValueError")

-----------------------------------------------------------------------------
(* What Python means by a comparison chain or a Boolean operator: the      *)
(* first operand that decides (or raises) gives the result.                *)

First(S) == CHOOSE i \in S : \A j \in S : i <= j

\* x0 op1 x1 op2 x2 ... is x0 op1 x1 and x1 op2 x2 and ...
ChainMeaning(node, context) ==
    LET x == [i \in 0..Len(node.ops) |->
                evaluate(IF i = 0 THEN node.left ELSE node.comparators[i], context)]
        Decides == {i \in 1..Len(node.ops) :
                      ~x[i].ok \/ (x[i - 1].ok /\ ~Holds(node.ops[i], x[i - 1], x[i]))}
    IN CASE ~x[0].ok -> x[0]
         [] x[0].ok /\ Decides = {} -> Bool(TRUE)
         [] OTHER -> IF x[First(Decides)].ok THEN Bool(FALSE) ELSE x[First(Decides)]

BoolMeaning(node, context) ==
    LET x == [i \in DOMAIN node.values |-> evaluate(node.values[i], context)]
        Decides == {i \in DOMAIN x : ~x[i].ok \/ Truth(x[i]) = (node.op = "Or")}
    IN IF Decides = {} THEN Bool(node.op = "And")
       ELSE IF x[First(Decides)].ok THEN Bool(node.op = "Or") ELSE x[First(Decides)]
=============================================================================
