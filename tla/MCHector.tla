------------------------------ MODULE MCHector ------------------------------
(***************************************************************************)
(* Queries over two attributes and two values, and the variable orders of  *)
(* all connected queries of two or three attribute bindings over four      *)
(* variables, alone or with a constant binding.  A behaviour runs a query  *)
(* or orders one.                                                          *)
(***************************************************************************)
EXTENDS Hector, Timestamp

VARIABLES
  part,                           \* "run" or "order"
  bindings, source, order, passes, done   \* of PlanOrder

runVars == <<query, input, indexed, results, panicked>>
orderVars == <<bindings, source, order, passes, done>>

Q(xs, bs) == [variables |-> xs, bindings |-> bs]

Epochs == 0 .. 1
EpochOrder == <<0, 1>>
\* Joins of two attributes.
JoinQueries == <<
  Q(<<0, 1>>, <<Attribute(0, 1, 1)>>),
  Q(<<0, 1, 2>>, <<Attribute(0, 1, 1), Attribute(0, 2, 2)>>),
  Q(<<2, 0>>, <<Attribute(0, 1, 1), Attribute(1, 2, 2)>>),
  Q(<<0, 2, 1>>, <<Attribute(0, 1, 1), Attribute(2, 2, 1)>>),
  Q(<<0, 1, 2>>, <<Attribute(0, 1, 1), Attribute(1, 1, 2)>>)>>

\* Longer joins, constants, comparisons and a negated comparison.
MixedQueries == <<
  Q(<<0, 1, 2, 3>>, <<Attribute(0, 1, 1), Attribute(1, 2, 2), Attribute(2, 1, 3)>>),
  Q(<<3, 2, 0>>, <<Attribute(0, 1, 1), Attribute(0, 2, 2), Attribute(0, 1, 3)>>),
  Q(<<0>>, <<Attribute(0, 1, 1), Constant(1, 1)>>),
  Q(<<0, 1, 2>>, <<Attribute(0, 1, 1), Attribute(0, 2, 2), Constant(2, 1)>>),
  Q(<<0, 1>>, <<Attribute(0, 1, 1), Attribute(0, 2, 2), BinaryPredicate("EQ", 1, 2)>>),
  Q(<<0, 3>>, <<Attribute(0, 1, 1), BinaryPredicate("NEQ", 1, 3), Constant(3, 1), Attribute(2, 2, 1)>>),
  Q(<<0, 1, 2>>, <<Attribute(0, 1, 1), Attribute(0, 2, 2), Not(BinaryPredicate("EQ", 1, 2))>>)>>

RunQueries == JoinQueries \o MixedQueries

\* The second query is the smallest of two pipelines.
FewChanges == [q \in DOMAIN RunQueries |-> IF q = 2 THEN <<3, 2>> ELSE <<2, 2>>]
-----------------------------------------------------------------------------
OrderVariables == 0 .. 3

VarPairs == {p \in OrderVariables \X OrderVariables : p[1] # p[2]}

\* Attributes are told apart by their position.
Binary(a, p) == Attribute(p[1], a, p[2])

Joins == {<<Binary(1, p), Binary(2, q)>> : p, q \in VarPairs} \cup
         {<<Binary(1, p), Binary(2, q), Binary(3, r)>> : p, q, r \in VarPairs}

\* Variables reachable from S.
RECURSIVE Linked(_, _)
Linked(q, S) ==
  LET more == S \cup UNION {ToSet(q[i].variables) :
                              i \in {j \in DOMAIN q : ToSet(q[j].variables) \cap S # {}}}
  IN IF more = S THEN S ELSE Linked(q, more)

Connected(q) == Linked(q, {q[1].variables[1]}) = Variables(q)

ConnectedJoins == {q \in Joins : Connected(q)}

ConnectedQueries ==
  ConnectedJoins \cup UNION {{Append(q, Constant(x, 0)) : x \in Variables(q)} : q \in ConnectedJoins}

R == INSTANCE PlanOrder WITH Queries <- ConnectedQueries

FirstQuery == <<Binary(1, <<0, 1>>), Binary(2, <<0, 1>>)>>

HectorInit ==
  /\ part \in {"run", "order"}
  /\ Init /\ R!Init
  /\ part = "order" => query = 1
  /\ part = "run" => bindings = FirstQuery /\ source = 1

HectorNext ==
  \/ part = "run" /\ Next /\ UNCHANGED <<part, orderVars>>
  \/ part = "order" /\ R!Next /\ UNCHANGED <<part, runVars>>

HectorSpec == HectorInit /\ [][HectorNext]_<<part, runVars, orderVars>>

\* The variable order binds every variable to a prior one, and along it every
\* binding is used exactly once (plan_order and source_conflicts of hector.rs).
OrderIsSound == part = "order" => R!OrderIsSound

\* plan_order returns: every pass but the last one binds another variable.
ReturnsInTime == part = "order" => R!ReturnsInTime
=============================================================================
