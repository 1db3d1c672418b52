------------------------------ MODULE Bindings ------------------------------
(***************************************************************************)
(* The binding language of binding/mod.rs and how plan/hector.rs orders    *)
(* the variables of a query.  A binding is a record of its kind and its    *)
(* variables; attributes and constant values are numbers, so that bindings *)
(* can be ordered as their derived Ord does.                               *)
(***************************************************************************)
EXTENDS Relations

Attribute(e, a, v) == [kind |-> "Attribute", variables |-> <<e, v>>, attribute |-> a]
Constant(x, value) == [kind |-> "Constant", variables |-> <<x>>, value |-> value]
BinaryPredicate(p, x, y) == [kind |-> "BinaryPredicate", variables |-> <<x, y>>, predicate |-> p]
Not(b) == [kind |-> "Not", variables |-> b.variables, binding |-> b]

IsAttribute(b) == b.kind = "Attribute"

\* The variables of a query, without repetition.
Variables(bindings) == UNION {ToSet(bindings[i].variables) : i \in DOMAIN bindings}

\* Whether a binding constrains its variable without needing another.
Alone(b) == b.kind = "Constant" \/ (b.kind = "Not" /\ b.binding.kind = "Constant")

\* The variable, if any, by which the binding could extend the prefix: its
\* only unbound variable.
ReadyToExtend(b, prefix) ==
  LET free == ToSet(b.variables) \ ToSet(prefix)
  IN {x \in free : Alone(b) \/ free # ToSet(b.variables)}

CanExtend(b, prefix, target) == ReadyToExtend(b, prefix) = {target}

\* The derived Ord: by kind first, then by the fields.
RECURSIVE OrdKey(_)
OrdKey(b) ==
  CASE b.kind = "Attribute" -> <<0>> \o b.variables \o <<b.attribute>>
    [] b.kind = "Not" -> <<1>> \o OrdKey(b.binding)
    [] b.kind = "Constant" -> <<2>> \o b.variables \o <<b.value>>
    [] b.kind = "BinaryPredicate" ->
         <<3>> \o b.variables \o <<Binds(<<"LT", "GT", "LTE", "GTE", "EQ", "NEQ">>, b.predicate)>>

Before(k, l) ==
  \E i \in DOMAIN k \cap DOMAIN l : k[i] < l[i] /\ \A j \in 1 .. i - 1 : k[j] = l[j]

\* sort and dedup
Sorted(S) ==
  [i \in 1 .. Cardinality(S) |->
     CHOOSE b \in S : Cardinality({c \in S : Before(OrdKey(c), OrdKey(b))}) = i - 1]
-----------------------------------------------------------------------------
(* plan_order: rounds over the bindings that could extend the prefix *)

\* The other bindings that talk about a variable, in the query's order.
CandidatesFor(bindings, source, target) ==
  SelectSeq(RemoveAt(bindings, source), LAMBDA b : IsBound(b.variables, target))

\* Faulty variant: the bindings of a new variable are forgotten.
ConsiderOnly(bindings, source, st, b) ==
  LET target == ReadyToExtend(b, st.prefix)
  IN IF target = {} THEN [st EXCEPT !.waiting = Append(@, b)]
     ELSE [st EXCEPT !.prefix = @ \o SetToSeq(target), !.ordered = Append(@, b)]

\* One pass over the candidates.  A binding that extends the prefix makes
\* every other binding of the new variable wait for the next round.
Consider(bindings, source, st, b) ==
  LET target == ReadyToExtend(b, st.prefix)
      others(x) == SelectSeq(CandidatesFor(bindings, source, x), LAMBDA c : c # b)
  IN IF target = {} THEN [st EXCEPT !.waiting = Append(@, b)]
     ELSE [prefix |-> st.prefix \o SetToSeq(target),
           waiting |-> st.waiting \o others(CHOOSE x \in target : TRUE),
           ordered |-> Append(st.ordered, b)]

StartOrder(bindings, source) ==
  [prefix |-> bindings[source].variables,
   waiting |-> FlattenSeq([i \in 1 .. 2 |-> CandidatesFor(bindings, source, bindings[source].variables[i])]),
   ordered |-> <<>>]

\* A round sorts and dedups its candidates.
Round(bindings, source, st) ==
  FoldLeft(LAMBDA acc, b : Consider(bindings, source, acc, b),
           [st EXCEPT !.waiting = <<>>], Sorted(ToSet(st.waiting)))

\* The loop ends when nothing waits, or all variables are bound.
Ordered(bindings, st) ==
  st.waiting = <<>> \/ Len(st.prefix) = Cardinality(Variables(bindings))
-----------------------------------------------------------------------------
(* Bindings that could extend one variable of the source to the other *)

\* Faulty variant: only looks from the first variable to the second.
SourceConflictsForward(bindings, source) ==
  LET vs == bindings[source].variables
  IN {i \in DOMAIN bindings \ {source} : CanExtend(bindings[i], <<vs[1]>>, vs[2])}

SourceConflicts(bindings, source) ==
  LET vs == bindings[source].variables
  IN {i \in DOMAIN bindings \ {source} : \/ CanExtend(bindings[i], <<vs[1]>>, vs[2])
                                         \/ CanExtend(bindings[i], <<vs[2]>>, vs[1])}

\* One conflict can be resolved, if it is constant.
CanSource(bindings, source) ==
  LET conflicts == SourceConflicts(bindings, source)
  IN Cardinality(conflicts) <= 1 /\ \A i \in conflicts : bindings[i].kind = "Constant"

\* Forward if the prefix binds the first of two variables, Reverse if it
\* binds the second, with the offset; neither if it binds both or none.
Direction(prefix, vs) ==
  CASE IsBound(prefix, vs[1]) /\ ~ IsBound(prefix, vs[2]) ->
         [way |-> "Forward", offset |-> Binds(prefix, vs[1])]
    [] IsBound(prefix, vs[2]) /\ ~ IsBound(prefix, vs[1]) ->
         [way |-> "Reverse", offset |-> Binds(prefix, vs[2])]
    [] OTHER -> [way |-> "Err"]
-----------------------------------------------------------------------------
(* What a query made of bindings means in a database, which maps every     *)
(* attribute to the collection of its pairs.                               *)

\* The predicates of binding/mod.rs.
Compare(predicate, v, w) ==
  CASE predicate = "LT" -> v < w
    [] predicate = "LTE" -> v <= w
    [] predicate = "GT" -> v > w
    [] predicate = "GTE" -> v >= w
    [] predicate = "EQ" -> v = w
    [] predicate = "NEQ" -> v # w

RECURSIVE Satisfies(_, _, _)
Satisfies(f, b, db) ==
  CASE b.kind = "Attribute" -> Times(db[b.attribute], <<f[b.variables[1]], f[b.variables[2]]>>) > 0
    [] b.kind = "Constant" -> f[b.variables[1]] = b.value
    [] b.kind = "BinaryPredicate" -> Compare(b.predicate, f[b.variables[1]], f[b.variables[2]])
    [] b.kind = "Not" -> ~ Satisfies(f, b.binding, db)

\* Every assignment of values to the variables that satisfies all bindings
\* counts once.
Answers(bindings, xs, values, db) ==
  LET fs == {f \in [Variables(bindings) -> values] :
               \A i \in DOMAIN bindings : Satisfies(f, bindings[i], db)}
  IN MapRecords(OnceEach(fs), LAMBDA f : [i \in DOMAIN xs |-> f[xs[i]]])
=============================================================================
