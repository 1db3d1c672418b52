------------------------------ MODULE MCQueries ------------------------------
(***************************************************************************)
(* Queries over two attributes, whose values are also entities: as plans,  *)
(* as bindings for Hector, as GraphQL selections and as recursive rules.   *)
(* These do not interact: in a behaviour one of the databases changes, or  *)
(* one program is implemented.                                             *)
(***************************************************************************)
EXTENDS QuerySemantics
LOCAL INSTANCE Relation

CONSTANTS
  A, B, NoRoot,
  DeriveQueries \* the GraphQL queries that may be derived

VARIABLES
  part,                                \* what the behaviour is about
  times,                               \* a database of points in time
  facts, derived, probed, panicked,    \* of GraphQl, and what Optimizer looks at
  program, graph, phase, seen, queue, rules, variables, round  \* of Synthesis

queriesVars == <<db>>
timesVars == <<times>>
factsVars == <<facts, derived, probed, panicked>>
rulesVars == <<program, graph, phase, seen, queue, rules, variables, round>>
allVars == <<part, queriesVars, timesVars, factsVars, rulesVars>>

MatchA(e, a, v) == [op |-> "MatchA", e |-> e, a |-> a, v |-> v]
MatchEA(e, a, v) == [op |-> "MatchEA", e |-> e, a |-> a, v |-> v]
MatchAV(e, a, v) == [op |-> "MatchAV", e |-> e, a |-> a, v |-> v]
Project(xs, p) == [op |-> "Project", variables |-> xs, plan |-> p]
Union2(xs, p, q) == [op |-> "Union", variables |-> xs, plans |-> <<p, q>>]
Join(xs, p, q) == [op |-> "Join", variables |-> xs, left_plan |-> p, right_plan |-> q]
Antijoin(xs, p, q) == [op |-> "Antijoin", variables |-> xs, left_plan |-> p, right_plan |-> q]
Negate(p) == [op |-> "Negate", plan |-> p]
Filter(xs, pred, ks, p) ==
  [op |-> "Filter", variables |-> xs, predicate |-> pred, constants |-> ks, plan |-> p]
Transform(xs, x, f, ks, p) ==
  [op |-> "Transform", variables |-> xs, result_variable |-> x, function |-> f,
   constants |-> ks, plan |-> p]
AggregateBy(xs, fns, keys, args, with, p) ==
  [op |-> "Aggregate", variables |-> xs, aggregation_fns |-> fns, key_variables |-> keys,
   aggregation_variables |-> args, with_variables |-> with, plan |-> p]
PullAll(as) == [op |-> "PullAll", variables |-> <<>>, pull_attributes |-> as]
Pull(paths) == [op |-> "Pull", variables |-> <<>>, paths |-> paths]
PullLevel(x, as, path, many, p) ==
  [op |-> "PullLevel", variables |-> <<>>, pull_variable |-> x, pull_attributes |-> as,
   path_attributes |-> path, cardinality_many |-> many, plan |-> p]

\* Both attributes of an entity, and a path of two attributes.
Both == Join(<<"x">>, MatchA("x", A, "y"), MatchA("x", B, "z"))
Chain == Join(<<"y">>, MatchA("x", A, "y"), MatchA("y", B, "z"))

JoinQueries == <<
  Both,
  Join(<<"y", "x">>, Project(<<"x", "y">>, MatchA("x", A, "y")), MatchA("x", B, "y")),
  Join(<<"z">>, MatchA("z", A, "w"), Chain),
  Join(<<"z", "x">>, Both, Project(<<"x", "z">>, Chain)),
  Union2(<<"y", "x">>, MatchA("x", A, "y"), Project(<<"x", "y">>, MatchA("x", B, "y"))),
  Negate(MatchAV("x", A, 1))>>

RestrictingQueries == <<
  Antijoin(<<"y", "x">>, Project(<<"x", "y">>, MatchA("x", A, "y")), MatchA("x", B, "y")),
  Filter(<<"z", "x">>, "LT", <<None, None>>, Chain),
  Filter(<<"y">>, "GTE", <<2, None>>, MatchA("x", A, "y")),
  Filter(<<"v">>, "GT", <<None, 1>>, MatchEA(1, B, "v")),
  Transform(<<"z", "x">>, "d", "SUBTRACT", <<None, None, 1>>, Chain),
  Transform(<<"y">>, "d", "SUBTRACT", <<3, None>>, MatchA("x", A, "y")),
  Transform(<<"y">>, "d", "ADD", <<None, 1>>, MatchA("x", A, "y"))>>

AllQueries == JoinQueries \o RestrictingQueries

TimeQueries == <<
  Filter(<<"y">>, "NEQ", <<0, None>>, Transform(<<"y">>, "h", "TRUNCATE", <<None, None>>,
                                                MatchA("x", A, "y"))),
  Transform(<<"y">>, "m", "TRUNCATE", <<None, ":day">>, MatchA("x", A, "y"))>>

Hours == {0, 3599999, 3600000, 7300000, 86400000}

\* As the tests write them: the aggregated columns are projected first.
Columns3 == Project(<<"x", "y", "z">>, Both)

AggregateQueries == <<
  AggregateBy(<<"x", "y">>, <<"COUNT">>, <<"x">>, <<"y">>, <<>>, MatchA("x", A, "y")),
  AggregateBy(<<"y">>, <<"MEDIAN">>, <<>>, <<"y">>, <<"x">>, Project(<<"y", "x">>, MatchA("x", A, "y"))),
  AggregateBy(<<"y", "x", "z", "z">>, <<"SUM", "MIN", "AVG">>, <<"x">>, <<"y", "z", "z">>, <<>>, Columns3),
  AggregateBy(<<"y", "x", "y">>, <<"VARIANCE", "MAX">>, <<"x">>, <<"y", "y">>, <<>>, Columns3)>>

PullQueries == <<
  PullLevel("x", <<A, B>>, <<>>, FALSE, MatchAV("x", A, 1)),
  PullLevel("y", <<B>>, <<A>>, TRUE, MatchA("x", A, "y")),
  PullLevel("z", <<A, B>>, <<A, B>>, FALSE, Project(<<"x", "y", "z">>, Chain)),
  PullAll(<<A, B>>),
  Pull(<<PullLevel("x", <<B>>, <<>>, FALSE, MatchAV("x", A, 1)),
         PullLevel("y", <<A>>, <<A>>, TRUE, MatchA("x", A, "y"))>>)>>
-----------------------------------------------------------------------------
JoinRules == <<
  MatchA(0, A, 1), MatchEA(1, A, 0), MatchAV(0, B, 1),
  Project(<<1>>, MatchA(0, A, 1)),
  Project(<<2, 0>>, Join(<<1>>, MatchA(0, A, 1), MatchA(1, B, 2))),
  Join(<<0>>, MatchAV(0, A, 1), MatchAV(0, B, 2)),
  Project(<<0, 2, 1>>, Join(<<0>>, Join(<<0>>, MatchA(0, A, 1), MatchA(0, B, 2)), MatchAV(0, A, 2)))>>

Leaf(a) == [name |-> a, arguments |-> <<>>, fields |-> <<>>]
Field(a, args, fs) == [name |-> a, arguments |-> args, fields |-> fs]
Arg(a, v) == [name |-> a, value |-> v]
Query(root, fs) == [root |-> root, required |-> {}, fields |-> fs]

\* Queries that derive one attribute.
DeriveSelections == <<
  Query(NoRoot, <<Leaf(A)>>),
  Query(NoRoot, <<Field(B, <<>>, <<Leaf(A)>>)>>),
  Query(NoRoot, <<Field(B, <<Arg(A, 1)>>, <<Field(B, <<>>, <<Leaf(A)>>)>>)>>)>>

\* As examples/graphql_derive.rs.
ExampleSelection == <<Query(NoRoot, <<Field(B, <<>>, <<Leaf(A), Leaf(B)>>)>>)>>

\* {name bested { name }} of tests/pull_test.rs, for all entities that carry
\* some attribute; the symbol 99 is the placeholder of the test's root plan.
TestedSelection ==
  Query([op |-> "Hector", variables |-> <<0>>, bindings |-> <<Attribute(0, A, 99)>>],
        <<Leaf(A), Field(B, <<>>, <<Leaf(A)>>)>>)

PlanSelections == <<
  Query(NoRoot, <<Leaf(A), Leaf(B)>>),
  Query(NoRoot, <<Leaf(A), Field(B, <<>>, <<Leaf(A)>>)>>),
  Query(NoRoot, <<Field(B, <<Arg(A, 1)>>, <<Field(B, <<>>, <<Leaf(A)>>), Leaf(B)>>)>>),
  Query(MatchAV(0, A, 1), <<Leaf(A), Field(B, <<Arg(A, 1)>>, <<Leaf(B)>>)>>)>>
-----------------------------------------------------------------------------
\* Attribute 1 holds the edges of a graph.
Edge(e, v) == [op |-> "MatchA", e |-> e, a |-> 1, v |-> v]
NameExpr(xs, n) == [op |-> "NameExpr", variables |-> xs, name |-> n]
Compose(p, q) == Project(<<0, 1>>, Join(<<2>>, p, q))
Either(p, q) == Union2(<<0, 1>>, p, q)

Program(kind, plans) == [kind |-> kind, rules |-> plans, publish |-> 1, optimize |-> FALSE]

Paths(n) == Either(Edge(0, 1), Compose(Edge(0, 2), NameExpr(<<2, 1>>, n)))

Linear == Program("paths", 1 :> Paths(1))

Nonlinear ==
  Program("paths",
    1 :> Either(Edge(0, 1), Compose(NameExpr(<<0, 2>>, 1), NameExpr(<<2, 1>>, 1))))

\* Paths of odd length, through those of even length.
Mutual ==
  Program("odd",
    (1 :> Either(Edge(0, 1), Compose(Edge(0, 2), NameExpr(<<2, 1>>, 2))))
      @@ (2 :> Compose(Edge(0, 2), NameExpr(<<2, 1>>, 1))))

Diamond ==
  Program("symmetric",
    (1 :> Either(NameExpr(<<0, 1>>, 2), NameExpr(<<0, 1>>, 3)))
      @@ (2 :> Either(NameExpr(<<0, 1>>, 4), NameExpr(<<0, 1>>, 4)))
      @@ (3 :> Project(<<0, 1>>, NameExpr(<<1, 0>>, 4)))
      @@ (4 :> Project(<<0, 1>>, Edge(0, 1))))

\* Edges on no cycle.
Acyclic ==
  Program("acyclic",
    (1 :> Antijoin(<<0, 1>>, Edge(0, 1), NameExpr(<<0, 1>>, 4))) @@ (2 :> Paths(2))
      @@ (3 :> NameExpr(<<0, 1>>, 9)) @@ (4 :> Project(<<0, 1>>, NameExpr(<<1, 0>>, 2))))

\* 9 is no rule and no attribute.
UnknownRule == Program("none", 1 :> Either(Edge(0, 1), NameExpr(<<0, 1>>, 9)))
UnknownAttribute ==
  Program("none",
    (1 :> Either(Edge(0, 1), NameExpr(<<0, 1>>, 2))) @@
    (2 :> Either(Edge(0, 1), [Edge(0, 1) EXCEPT !.a = 9])))
UnknownPublish == Program("none", 2 :> Edge(0, 1))

\* Edges both ways, by implement_neu.
Optimized ==
  [Program("mutual", 1 :> Join(<<0, 1>>, Edge(0, 1), Edge(1, 0))) EXCEPT !.optimize = TRUE]

Recursions == {Linear, Nonlinear, Mutual, Diamond, Acyclic, UnknownRule, UnknownAttribute,
               UnknownPublish, Optimized}

Nodes == 0 .. 2

EdgesOf(d) == Records(d[1])

\* Every graph with at most n edges.
GraphsUpTo(n) == {1 :> OnceEach(E) : E \in {F \in SUBSET (Nodes \X Nodes) : Cardinality(F) <= n}}
SmallGraphs == GraphsUpTo(3)

\* Walks of length n.
RECURSIVE Walks(_, _)
Walks(E, n) ==
  IF n = 1 THEN E
  ELSE LET W == Walks(E, n - 1)
       IN {<<x, y>> \in Nodes \X Nodes : \E z \in Nodes : <<x, z>> \in W /\ <<z, y>> \in E}

Closure(E) ==
  LET R == TransitiveClosure([x, y \in Nodes |-> <<x, y>> \in E], Nodes)
  IN {<<x, y>> \in Nodes \X Nodes : R[x, y]}

OddWalks(E) == UNION {Walks(E, n) : n \in {1, 3, 5}}

MeaningOf(p, d) ==
  LET E == EdgesOf(d)
  IN CASE p.kind = "paths" -> Closure(E)
       [] p.kind = "odd" -> OddWalks(E)
       [] p.kind = "symmetric" -> E \union {<<e[2], e[1]>> : e \in E}
       [] p.kind = "mutual" -> {e \in E : <<e[2], e[1]>> \in E}
       [] p.kind = "acyclic" -> {e \in E : <<e[2], e[1]>> \notin Closure(E)}
-----------------------------------------------------------------------------
Sets == INSTANCE QuerySemantics WITH SetSemantics <- TRUE

T == INSTANCE QuerySemantics WITH
  db <- times, Attributes <- {A}, Eids <- {1}, Values <- Hours, MaxCount <- 1, MaxDatoms <- 5,
  Queries <- TimeQueries, Aggregations <- <<>>, Pulls <- <<>>

O == INSTANCE Optimizer WITH db <- facts, Rules <- JoinRules

P == INSTANCE GraphQl WITH db <- facts,
  Selections <- PlanSelections \o DeriveSelections, DeriveRequests <- 0

G == INSTANCE GraphQl WITH db <- facts, Selections <- DeriveQueries, DeriveRequests <- 1

S == INSTANCE Synthesis WITH db <- graph, Values <- Nodes,
  Programs <- Recursions, Databases <- SmallGraphs, Meaning <- MeaningOf

QueriesInit ==
  /\ part \in {"queries", "times", "facts", "rules"}
  /\ Init /\ T!Init /\ G!GraphQlInit
  /\ S!Init
  /\ part # "rules" => program = UnknownPublish /\ EdgesOf(graph) = {}

QueriesNext ==
  \/ part = "queries" /\ Next /\ UNCHANGED <<part, timesVars, factsVars, rulesVars>>
  \/ part = "times" /\ T!Next /\ UNCHANGED <<part, queriesVars, factsVars, rulesVars>>
  \/ part = "facts" /\ G!GraphQlNext /\ UNCHANGED <<part, queriesVars, timesVars, rulesVars>>
  \/ part = "rules" /\ S!Next /\ UNCHANGED <<part, queriesVars, timesVars, factsVars>>

QueriesSpec == QueriesInit /\ [][QueriesNext]_allVars

-----------------------------------------------------------------------------
(* What is to hold of the part that a behaviour is about; the others stay   *)
(* as they start.                                                          *)

\* Plans answer what they mean, on numbers and on points in time, which are
\* truncated to the start of their interval and compared (transform.rs).
PlansAnswer == (part = "queries" => AnswersAgree) /\ (part = "times" => T!AnswersAgree)

\* Aggregations do, and in a server built with set semantics every value
\* counts once, however often it was asserted (aggregate.rs).
PlansAggregate == part = "queries" => AggregatesAgree /\ Sets!AggregatesAgree

\* Pulls have a row for every path of the database that they describe and no
\* other (pull.rs).
PlansPull == part = "queries" => PullsAgree

\* Hector answers with the bindings of a plan exactly what the plan would
\* have, as often (into_bindings, implement_neu).
BindingsEquivalent == part = "facts" => O!BindingsEquivalent

\* The plan of a GraphQL query finds the values that the query selects, at
\* every level (selection_set_to_paths of plan/graphql.rs).
SelectionsAgree == part = "facts" => P!SelectionsAgree

\* The rows of {name bested { name }} are those of the test: the path with the
\* entity that each field leads to, the attribute and the value, no others.
RowsAsTested == part = "facts" => P!RowsSpelledOut(TestedSelection)

\* A GraphQL query of one attribute can be derived, and relates exactly the
\* entities it selects the attribute of to their values (derive/graphql.rs).
DerivedAgree == part = "facts" => G!DerivedAgree

\* A GraphQL query that selects several attributes derives them
\* (derive/graphql.rs, examples/graphql_derive.rs).
SeveralDerived == part = "facts" => G!Composed


=============================================================================
