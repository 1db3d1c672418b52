---------------------------- MODULE QuerySemantics ----------------------------
(* What queries mean, as collections of bindings of their variables, and   *)
(* that the relations of Plans, whose columns are found by offsets         *)
(* computed while a plan is implemented, mean the same at every state of a *)
(* changing database.                                                      *)
EXTENDS Plans, Functions

CONSTANTS
  Attributes, Eids, Values,
  MaxCount,     \* bound on the multiplicity of a datom
  MaxDatoms,    \* bound on the size of the database
  Queries,      \* sequence of plans whose columns each bind another variable
  Aggregations, \* sequence of Aggregate plans over plans like those
  Pulls         \* sequence of Pull, PullLevel and PullAll plans

VARIABLE db

Datoms == Eids \X Values

Init == db = [a \in Attributes |-> NoRecords]

Size == MapThenSumSet(LAMBDA a : MapThenSumSet(LAMBDA d : db[a][d], Records(db[a])), Attributes)

\* Inputs with raw semantics: every assertion and retraction counts.
Change(a, d, diff) ==
  /\ Times(db[a], d) + diff \in 0 .. MaxCount /\ Size + diff <= MaxDatoms
  /\ db' = [db EXCEPT ![a] = Concat(@, Collection({d}, LAMBDA r : diff))]

Next == \E a \in Attributes, d \in Datoms, diff \in {-1, 1} : Change(a, d, diff)

Spec == Init /\ [][Next]_db
-----------------------------------------------------------------------------
Agree(b, c, xs) == \A x \in xs : b[x] = c[x]

Shared(b, c) == DOMAIN b \cap DOMAIN c

Merge(b, c) == [x \in DOMAIN b \cup DOMAIN c |-> IF x \in DOMAIN b THEN b[x] ELSE c[x]]

Binding(x, v) == [y \in {x} |-> v]

\* The arguments of a predicate or function: constants at their positions,
\* variables at the others, in order.
Argument(p, b, i) ==
  IF p.constants[i] # None THEN p.constants[i]
  ELSE b[p.variables[Cardinality({j \in 1 .. i : p.constants[j] = None})]]

Applied(p, b) ==
  LET n == Len(p.constants)
      Rest == SumOf([i \in 1 .. n - 1 |-> Argument(p, b, i + 1)])
  IN CASE p.function = "ADD" -> Argument(p, b, 1) + Rest
       [] p.function = "SUBTRACT" -> Argument(p, b, 1) - Rest
       [] p.function = "TRUNCATE" ->
            CHOOSE t \in {k * Interval(p.constants[2]) : k \in 0 .. 24} :
              t <= Argument(p, b, 1) /\ Argument(p, b, 1) < t + Interval(p.constants[2])

RECURSIVE Meaning(_)
Meaning(p) ==
  LET ms == [i \in DOMAIN Inputs(p) |-> Meaning(Inputs(p)[i])]
  IN CASE p.op = "MatchA" -> MapRecords(db[p.a], LAMBDA t : Merge(Binding(p.e, t[1]), Binding(p.v, t[2])))
       [] p.op = "MatchEA" -> Collection({Binding(p.v, v) : v \in Values},
                                         LAMBDA b : Times(db[p.a], <<p.e, b[p.v]>>))
       [] p.op = "MatchAV" -> Collection({Binding(p.e, e) : e \in Eids},
                                         LAMBDA b : Times(db[p.a], <<b[p.e], p.v>>))
       [] p.op = "Negate" -> Negated(ms[1])
       [] p.op = "Project" -> MapRecords(ms[1], LAMBDA b : Restrict(b, ToSet(p.variables)))
       [] p.op = "Union" -> OnceEach({Restrict(b, ToSet(p.variables)) :
                                        b \in UNION {Records(ms[i]) : i \in DOMAIN ms}})
       [] p.op = "Join" ->
            LET l == ms[1]
                r == ms[2]
                pairs == {q \in Records(l) \X Records(r) : Agree(q[1], q[2], Shared(q[1], q[2]))}
            IN MapRecords(Collection(pairs, LAMBDA q : l[q[1]] * r[q[2]]),
                          LAMBDA q : Merge(q[1], q[2]))
       [] p.op = "Antijoin" ->
            OnceEach({b \in Records(ms[1]) :
                        ~ \E c \in Records(ms[2]) : Agree(b, c, ToSet(p.variables))})
       [] p.op = "Filter" ->
            FilterRecords(ms[1], LAMBDA b : Predicate(p.predicate, Argument(p, b, 1), Argument(p, b, 2)))
       [] p.op = "Transform" ->
            MapRecords(ms[1], LAMBDA b : Merge(b, Binding(p.result_variable, Applied(p, b))))

\* A relation as bindings of its variables.
AsBindings(r) ==
  MapRecords(Tuples(db, r),
    LAMBDA t : [x \in ToSet(r.variables) |-> t[Binds(r.variables, x)]])

Result(p) == Implement(db, [n \in {} |-> {}], p)

\* At every state of the database a query is implemented without a panic and
\* its relation has exactly the bindings the query means, with their
\* multiplicities, whatever mix of attribute and collection relations, key
\* orders and column orders the stages hand to each other (join.rs,
\* antijoin.rs, union.rs, project.rs, filter.rs, transform.rs and the
\* relations of lib.rs).
AnswersAgree ==
  \A i \in DOMAIN Queries : \A r \in {Result(Queries[i])} :
    r.kind # "Panic" /\ AsBindings(r) = Meaning(Queries[i])
-----------------------------------------------------------------------------
(* Aggregations.  An output column shows a key, or the value of the        *)
(* aggregation it stands for: the n-th column of a variable stands for the *)
(* n-th aggregation of that variable.                                      *)

\* What is aggregated: the values of the argument and of with_variables in a
\* group, repeated as often as they occur or, with set semantics, once.
Grouped(p, m, key, x) ==
  MapRecords(FilterRecords(m, LAMBDA b : Restrict(b, ToSet(p.key_variables)) = key),
             LAMBDA b : Restrict(b, {x} \cup ToSet(p.with_variables)))

Weight(g, b) == IF SetSemantics THEN 1 ELSE g[b]

Aggregate(fn, g, x) ==
  LET n == MapThenSumSet(LAMBDA b : Weight(g, b), Records(g))
      sum == MapThenSumSet(LAMBDA b : b[x] * Weight(g, b), Records(g))
      Below(v) == Cardinality({b \in Records(g) : b[x] < v})
      vals == {b[x] : b \in Records(g)}
  IN CASE fn = "MIN" -> CHOOSE v \in vals : \A w \in vals : v <= w
       [] fn = "MAX" -> CHOOSE v \in vals : \A w \in vals : w <= v
       [] fn = "MEDIAN" -> Max({v \in vals : 2 * Below(v) <= Cardinality(Records(g))})
       [] fn = "COUNT" -> n
       [] fn = "SUM" -> sum
       [] fn = "AVG" -> Ratio(sum, n)
       [] fn = "VARIANCE" ->
            Ratio(MapThenSumSet(LAMBDA b : (n * b[x] - sum) * (n * b[x] - sum) * Weight(g, b), Records(g)),
                  n * n * n)

ColumnOf(p, m, key, i) ==
  LET x == p.variables[i]
      n == Cardinality({j \in 1 .. i : p.variables[j] = x})
      k == CHOOSE k \in DOMAIN p.aggregation_variables :
             /\ p.aggregation_variables[k] = x
             /\ n = Cardinality({j \in 1 .. k : p.aggregation_variables[j] = x})
  IN IF IsBound(p.key_variables, x) THEN key[x]
     ELSE Aggregate(p.aggregation_fns[k], Grouped(p, m, key, x), x)

AggregateRows(p) ==
  LET m == Meaning(p.plan)
  IN OnceEach({[i \in DOMAIN p.variables |-> ColumnOf(p, m, key, i)] :
                 key \in {Restrict(b, ToSet(p.key_variables)) : b \in Records(m)}})

\* Every group of the aggregated relation has exactly one row, whose columns
\* are its key and the results of the aggregations, each under its own
\* column, however the columns are mixed (aggregate.rs, aggregate_neu.rs).
AggregatesAgree ==
  \A i \in DOMAIN Aggregations : \A r \in {Result(Aggregations[i])} :
    r.kind # "Panic" /\ r.tuples = AggregateRows(Aggregations[i])
-----------------------------------------------------------------------------
(* Pulls.  A row is a path of alternating entities and attributes that     *)
(* leads to a value.                                                       *)

\* Paths of entities of the input, from the outermost one inwards.
PathsOf(p) ==
  IF p.path_attributes = <<>>
  THEN {<<b[p.pull_variable]>> : b \in Records(Meaning(p.plan))}
  ELSE {t \in [1 .. Len(p.path_attributes) + 1 -> Eids] :
          \A i \in DOMAIN p.path_attributes :
            <<t[i], t[i + 1]>> \in Records(db[p.path_attributes[i]])}

Alternating(t, as) == FoldLeft(LAMBDA acc, i : acc \o <<as[i], t[i + 1]>>, <<t[1]>>,
                               [i \in DOMAIN as |-> i])

LevelRows(p) ==
  LET single == p.path_attributes # <<>> /\ ~ p.cardinality_many
      Leading(t) == IF single THEN Front(Alternating(t, p.path_attributes))
                    ELSE Alternating(t, p.path_attributes)
  IN {Leading(t) \o <<a, v>> : <<t, a, v>> \in
        {q \in PathsOf(p) \X ToSet(p.pull_attributes) \X Values :
           <<q[1][Len(q[1])], q[3]>> \in Records(db[q[2]])}}
     \cup (IF single THEN {Leading(t) \o <<DbId, Last(t)>> : t \in PathsOf(p)} ELSE {})

PullRows(p) ==
  CASE p.op = "PullLevel" -> LevelRows(p)
    [] p.op = "PullAll" -> {<<q[1][1], q[2], q[1][2]>> : q \in
         {q \in Datoms \X ToSet(p.pull_attributes) : q[1] \in Records(db[q[2]])}}
    [] p.op = "Pull" -> UNION {LevelRows(p.paths[i]) : i \in DOMAIN p.paths}

\* A pull has a row for every path of the database that it describes, and no
\* other: the path's entities with the attributes between them, then the
\* attribute and the value found there.  Paths through attributes with a
\* single value leave out the last entity and have a db__id row (pull.rs).
PullsAgree ==
  \A i \in DOMAIN Pulls : \A r \in {Result(Pulls[i])} :
    r.kind # "Panic" /\ Records(r.tuples) = PullRows(Pulls[i])
=============================================================================
