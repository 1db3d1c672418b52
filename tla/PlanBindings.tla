---------------------------- MODULE PlanBindings ----------------------------
(***************************************************************************)
(* What a plan needs before it can be implemented (dependencies), and the  *)
(* bindings it is turned into for Hector (into_bindings).                  *)
(***************************************************************************)
EXTENDS Plans

\* The largest of the variables that no plan uses.
FirstSymbol == 1000

\* Faulty variant: the same symbol again.
GensymSame(sym) == sym

\* The counter after a symbol was taken.
Gensym(sym) == sym - 1

\* The bindings of plans in a row.  The symbol counter is passed along.
With(st, bindings) == [st EXCEPT !.bindings = @ \o bindings]

RECURSIVE IntoBindings(_, _)
IntoBindings(p, st) ==
  CASE p.op = "MatchA" -> With(st, <<Attribute(p.e, p.a, p.v)>>)
    [] p.op = "MatchEA" ->
         [With(st, <<Attribute(st.sym, p.a, p.v), Constant(st.sym, p.e)>>) EXCEPT !.sym = Gensym(@)]
    [] p.op = "MatchAV" ->
         [With(st, <<Attribute(p.e, p.a, st.sym), Constant(st.sym, p.v)>>) EXCEPT !.sym = Gensym(@)]
    [] p.op = "Hector" -> With(st, p.bindings)
    [] OTHER -> FoldLeft(LAMBDA acc, q : IntoBindings(q, acc), st, Inputs(p))

\* The stages that have bindings.
RECURSIVE HasBindings(_)
HasBindings(p) ==
  /\ p.op \notin {"Antijoin", "Filter", "NameExpr", "Pull", "PullLevel", "PullAll"}
  /\ \A i \in DOMAIN Inputs(p) : HasBindings(Inputs(p)[i])

\* Plan::variables
RECURSIVE VariablesOf(_)
VariablesOf(p) ==
  CASE p.op = "MatchA" -> <<p.e, p.v>>
    [] p.op = "MatchEA" -> <<p.v>>
    [] p.op = "MatchAV" -> <<p.e>>
    [] p.op = "Negate" -> VariablesOf(p.plan)
    [] OTHER -> p.variables

Bindings(p) == IntoBindings(p, [bindings |-> <<>>, sym |-> FirstSymbol]).bindings
-----------------------------------------------------------------------------
\* Dependencies::name, ::attribute, and their sum
Needs(names, attributes) == [names |-> names, attributes |-> attributes]

Sum2(d, e) == Needs(d.names \union e.names, d.attributes \union e.attributes)

\* The attributes of a Hector plan that are its dependencies.
HectorAttributes(bindings) ==
  {bindings[i].attribute : i \in {j \in DOMAIN bindings : bindings[j].kind = "Attribute"}}

\* What the stage itself needs, besides its sub-plans.
OwnDependencies(p) ==
  CASE p.op \in {"MatchA", "MatchEA", "MatchAV"} -> Needs({}, {p.a})
    [] p.op = "NameExpr" -> Needs({p.name}, {})
    [] p.op = "Hector" -> Needs({}, HectorAttributes(p.bindings))
    [] p.op \in {"PullLevel", "PullAll"} -> Needs({}, ToSet(p.pull_attributes))
    [] OTHER -> Needs({}, {})

\* Faulty variant: only the first sub-plan is looked at.
DependenciesOfFirst(p) ==
  IF Inputs(p) = <<>> THEN OwnDependencies(p)
  ELSE Sum2(OwnDependencies(p), OwnDependencies(Inputs(p)[1]))

RECURSIVE Dependencies(_)
Dependencies(p) ==
  FoldLeft(LAMBDA d, q : Sum2(d, Dependencies(q)), OwnDependencies(p), Inputs(p))
=============================================================================
