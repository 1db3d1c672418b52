-------------------------------- MODULE Plans --------------------------------
(* The plan stages of src/src/plan and what they are implemented by.  A    *)
(* plan is a record [op |-> ..] with the fields of its Rust type; its      *)
(* result, for a database of complete attributes, is a relation.           *)
(* SetSemantics is the set-semantics feature, which selects between        *)
(* aggregate.rs and aggregate_neu.rs.                                      *)
EXTENDS Bindings

CONSTANTS
  SetSemantics, \* the feature
  None,         \* an absent constant
  DbId          \* the attribute name db__id

ASSUME SetSemanticsAssumption == SetSemantics \in BOOLEAN

Match == {"MatchA", "MatchEA", "MatchAV", "NameExpr", "PullAll", "Hector"}

\* The sub-plans of a plan, in the order they are implemented.
Inputs(p) ==
  CASE p.op \in {"Join", "Antijoin"} -> <<p.left_plan, p.right_plan>>
    [] p.op = "Union" -> p.plans
    [] p.op = "Pull" -> p.paths
    [] p.op \in Match -> <<>>
    [] OTHER -> <<p.plan>>
-----------------------------------------------------------------------------
(* Matches, named rules, negation and projection *)

ImplementMatch(db, p) ==
  IF p.a \notin DOMAIN db THEN Panicked
  ELSE IF p.op = "MatchEA"
  THEN CollectionRelation(<<p.v>>,
         MapRecords(FilterRecords(db[p.a], LAMBDA t : t[1] = p.e), LAMBDA t : <<t[2]>>))
  ELSE CollectionRelation(<<p.e>>,
         MapRecords(FilterRecords(db[p.a], LAMBDA t : t[2] = p.v), LAMBDA t : <<t[1]>>))

ImplementNameExpr(names, p) ==
  IF p.name \notin DOMAIN names THEN Panicked
  ELSE CollectionRelation(p.variables, names[p.name])

ImplementNegate(db, r) ==
  IF ~ CanProject(db, r, r.variables) THEN Panicked
  ELSE CollectionRelation(r.variables, Negated(Projected(db, r, r.variables)))

ImplementProject(db, p, r) ==
  IF ~ CanProject(db, r, p.variables) THEN Panicked
  ELSE CollectionRelation(p.variables, Projected(db, r, p.variables))

ImplementUnion(db, p, rs) ==
  IF \E i \in DOMAIN rs : ~ CanProject(db, rs[i], p.variables) THEN Panicked
  ELSE CollectionRelation(p.variables,
         Distinct(Concatenate([i \in DOMAIN rs |-> Projected(db, rs[i], p.variables)])))
-----------------------------------------------------------------------------
(* Joins *)

Others(variables, targets) == SelectSeq(variables, LAMBDA x : ~ IsBound(targets, x))

\* The index of an attribute keyed by the target: the forward or the reverse
\* propose index.
Propose(db, r, target) ==
  MapRecords(db[r.attribute],
    LAMBDA t : IF target = r.variables[1] THEN <<t[1], t[2]>> ELSE <<t[2], t[1]>>)

AttributeAttribute(db, target, l, r) ==
  IF \E s \in {l, r} : s.attribute \notin DOMAIN db \/ ~ IsBound(s.variables, target)
  THEN Panicked
  ELSE CollectionRelation(
         <<target>> \o Others(l.variables, <<target>>) \o Others(r.variables, <<target>>),
         JoinRecords(Propose(db, l, target), Propose(db, r, target),
                     LAMBDA k, v1, v2 : <<k, v1, v2>>))

CollectionCollection(db, targets, l, r) ==
  IF \E s \in {l, r} : ~ CanSplit(db, s, targets) THEN Panicked
  ELSE CollectionRelation(
         targets \o Others(l.variables, targets) \o Others(r.variables, targets),
         JoinRecords(TuplesByVariables(db, l, targets), TuplesByVariables(db, r, targets),
                     LAMBDA k, v1, v2 : k \o v1 \o v2))

\* The attribute is read into a collection first.
CollectionAttribute(db, targets, l, r) ==
  IF r.attribute \notin DOMAIN db THEN Panicked
  ELSE CollectionCollection(db, targets, l, CollectionRelation(r.variables, db[r.attribute]))

ImplementJoin(db, p, l, r) ==
  CASE p.variables = <<>> -> Panicked
    [] l.kind = "Attribute" /\ r.kind = "Attribute" ->
         IF Len(p.variables) = 1 THEN AttributeAttribute(db, p.variables[1], l, r) ELSE Panicked
    [] l.kind = "Attribute" /\ r.kind = "Collection" -> CollectionAttribute(db, p.variables, r, l)
    [] l.kind = "Collection" /\ r.kind = "Attribute" -> CollectionAttribute(db, p.variables, l, r)
    [] OTHER -> CollectionCollection(db, p.variables, l, r)

ImplementAntijoin(db, p, l, r) ==
  IF ~ CanProject(db, r, p.variables) \/ ~ CanSplit(db, l, p.variables) THEN Panicked
  ELSE CollectionRelation(
         p.variables \o Others(l.variables, p.variables),
         MapRecords(AntijoinRecords(Distinct(TuplesByVariables(db, l, p.variables)),
                                    Distinct(Projected(db, r, p.variables))),
                    LAMBDA kt : kt[1] \o kt[2]))
-----------------------------------------------------------------------------
(* Filters and transforms.  Constants occupy their argument's position;    *)
(* None marks the positions taken by variables.                            *)

Predicate(name, a, b) ==
  CASE name = "LT" -> a < b [] name = "LTE" -> a <= b [] name = "GT" -> a > b
    [] name = "GTE" -> a >= b [] name = "EQ" -> a = b [] name = "NEQ" -> a # b

\* Faulty variant: a constant is always taken for the second argument.
FilterArgumentsSwapped(p, t, offsets) ==
  IF p.constants[1] # None THEN <<t[offsets[1]], p.constants[1]>>
  ELSE IF p.constants[2] # None THEN <<t[offsets[1]], p.constants[2]>>
  ELSE <<t[offsets[1]], t[offsets[2]]>>

FilterArguments(p, t, offsets) ==
  IF p.constants[1] # None THEN <<p.constants[1], t[offsets[1]]>>
  ELSE IF p.constants[2] # None THEN <<t[offsets[1]], p.constants[2]>>
  ELSE <<t[offsets[1]], t[offsets[2]]>>

Offsets(p, r) == [i \in DOMAIN p.variables |-> Binds(r.variables, p.variables[i])]

ImplementFilter(db, p, r) ==
  IF \/ \E x \in ToSet(p.variables) : ~ IsBound(r.variables, x)
     \/ ~ CanProject(db, r, r.variables)
  THEN Panicked
  ELSE CollectionRelation(r.variables,
         FilterRecords(Projected(db, r, r.variables),
           LAMBDA t : LET args == FilterArguments(p, t, Offsets(p, r))
                      IN Predicate(p.predicate, args[1], args[2])))

SumOf(s) == FoldLeft(LAMBDA a, b : a + b, 0, s)
Constants(p) == SelectSeq(p.constants, LAMBDA k : k # None)

Interval(name) ==
  CASE name \in {":hour", None} -> 3600000 [] name = ":minute" -> 60000
    [] name = ":day" -> 86400000 [] name = ":week" -> 604800000

\* Faulty variant: TRUNCATE returns the time since the interval began.
TransformedRemainder(p, args) ==
  CASE p.function = "TRUNCATE" -> args[1] % Interval(p.constants[2])
    [] p.function = "ADD" -> SumOf(args) + SumOf(Constants(p))
    [] p.function = "SUBTRACT" ->
         2 * (IF p.constants[1] # None THEN p.constants[1] ELSE args[1])
           - SumOf(args) - SumOf(Constants(p))

\* SUBTRACT doubles the minuend, as it is also one of the subtrahends.
Transformed(p, args) ==
  CASE p.function = "TRUNCATE" -> args[1] - (args[1] % Interval(p.constants[2]))
    [] p.function = "ADD" -> SumOf(args) + SumOf(Constants(p))
    [] p.function = "SUBTRACT" ->
         2 * (IF p.constants[1] # None THEN p.constants[1] ELSE args[1])
           - SumOf(args) - SumOf(Constants(p))

ImplementTransform(db, p, r) ==
  IF \/ \E x \in ToSet(p.variables) : ~ IsBound(r.variables, x)
     \/ ~ CanProject(db, r, r.variables)
  THEN Panicked
  ELSE CollectionRelation(Append(r.variables, p.result_variable),
         MapRecords(Tuples(db, r),
           LAMBDA t : Append(t, Transformed(p, Columns(t, Offsets(p, r))))))
-----------------------------------------------------------------------------
(* Aggregations: aggregate_neu.rs, and aggregate.rs with set semantics *)

\* The n-th distinct aggregation variable is taken to be the n-th value.
ValueOffsets(p) ==
  LET seen == FoldLeft(LAMBDA acc, x : IF IsBound(acc, x) THEN acc ELSE Append(acc, x),
                       <<>>, p.aggregation_variables)
  IN [i \in DOMAIN p.aggregation_variables |-> Binds(seen, p.aggregation_variables[i])]

\* Where each aggregation goes in the output.  A column that is taken is
\* marked (with 0, which is not a variable of the query).
OutputOffsets(p) ==
  FoldLeft(LAMBDA st, x :
             IF ~ IsBound(st.variables, x) THEN [st EXCEPT !.offsets = Append(@, None)]
             ELSE LET at == Binds(st.variables, x)
                  IN [variables |-> [st.variables EXCEPT ![at] = None],
                      offsets |-> Append(st.offsets, at)],
           [variables |-> p.variables, offsets |-> <<>>], p.aggregation_variables).offsets

\* The argument of an aggregation followed by the values of with_variables.
PrepareUnary(p, offset, kt) ==
  LET with == Len(p.with_variables)
  IN <<kt[1], <<kt[2][offset]>> \o
         (IF with > 0 THEN Reverse(SubSeq(kt[2], Len(kt[2]) - with + 1, Len(kt[2]))) ELSE <<>>)>>

RECURSIVE Gcd(_, _)
Gcd(a, b) == IF b = 0 THEN a ELSE Gcd(b, a % b)
Abs(a) == IF a < 0 THEN - a ELSE a

\* Rational32::new for a positive denominator
Ratio(n, d) == LET g == Gcd(Abs(n), d) IN [num |-> (IF n < 0 THEN - (Abs(n) \div g) ELSE n \div g),
                                            den |-> d \div g]

\* The argument at position n of the group's records in their order.
Nth(group, n) ==
  LET Below(r) == Cardinality({q \in group : q[2][1] < r[2][1]})
      UpTo(r) == Cardinality({q \in group : q[2][1] <= r[2][1]})
  IN (CHOOSE r \in group : Below(r) <= n /\ n < UpTo(r))[2][1]

\* Faulty variant: every record counts once, whatever its multiplicity.
CountedOnce(c, group) == Cardinality(group)

\* Faulty variant: multiplicities count with set semantics as well.
CountedAlways(c, group) == MapThenSumSet(LAMBDA r : c[r], group)

Counted(c, group) ==
  IF SetSemantics THEN Cardinality(group) ELSE MapThenSumSet(LAMBDA r : c[r], group)

\* c holds the prepared records of all keys.
Aggregated(fn, c) ==
  LET counted == IF SetSemantics THEN Distinct(c) ELSE c
      Total(k, F(_)) == MapThenSumSet(LAMBDA r : F(r[2][1]) * counted[r], Group(counted, k))
      Size(k) == Total(k, LAMBDA v : 1)
      Sum(k) == Total(k, LAMBDA v : v)
      Squares(k) == Total(k, LAMBDA v : v * v)
      Weighed(Is(_), Of(_)) == OnceEach({<<k, Of(k)>> : k \in {j \in Keys(counted) : Is(j)}})
  IN CASE fn = "MIN" -> Reduce(c, LAMBDA g : Nth(g, 0))
       [] fn = "MAX" -> Reduce(c, LAMBDA g : Nth(g, Cardinality(g) - 1))
       [] fn = "MEDIAN" -> Reduce(c, LAMBDA g : Nth(g, Cardinality(g) \div 2))
       [] fn = "COUNT" -> Reduce(c, LAMBDA g : Counted(c, g))
       [] fn = "SUM" -> ExplodeCount(counted, LAMBDA r : r[2][1])
       [] fn = "AVG" -> Weighed(LAMBDA k : Sum(k) # 0 \/ Size(k) # 0,
                                LAMBDA k : Ratio(Sum(k), Size(k)))
       [] fn = "VARIANCE" -> Weighed(LAMBDA k : Squares(k) # 0 \/ Sum(k) # 0 \/ Size(k) # 0,
                                     LAMBDA k : Ratio(Squares(k) * Size(k) - Sum(k) * Sum(k),
                                                      Size(k) * Size(k)))

\* The results are inserted into the key one after the other.
Placed(p, key, values) ==
  FoldLeft(LAMBDA t, i : InsertAt(t, OutputOffsets(p)[i], values[i]), key,
           [i \in DOMAIN values |-> i])

CanPlace(p) ==
  LET offsets == OutputOffsets(p)
  IN \A i \in DOMAIN offsets : offsets[i] # None /\ offsets[i] <= Len(p.key_variables) + i

ImplementAggregate(db, p, r) ==
  IF ~ CanSplit(db, r, p.key_variables) \/ ~ CanPlace(p) THEN Panicked
  ELSE LET tuples == TuplesByVariables(db, r, p.key_variables)
           Result(i) == Aggregated(p.aggregation_fns[i],
                          MapRecords(tuples, LAMBDA kt : PrepareUnary(p, ValueOffsets(p)[i], kt)))
           AsSeq(c) == MapRecords(c, LAMBDA kv : <<kv[1], <<kv[2]>>>>)
           joined == FoldLeft(LAMBDA acc, i : JoinRecords(acc, AsSeq(Result(i)),
                                                LAMBDA k, v1, v2 : <<k, v1 \o v2>>),
                              AsSeq(Result(1)), [i \in 1 .. Len(p.aggregation_fns) - 1 |-> i + 1])
       IN CollectionRelation(p.variables,
            MapRecords(joined, LAMBDA kv : Placed(p, kv[1], kv[2])))
-----------------------------------------------------------------------------
(* Pull *)

\* Faulty variant: the attributes follow the values.
InterleavedAfter(values, constants) ==
  IF values = <<>> \/ constants = <<>> THEN values ELSE values \o constants

\* Values and attribute names alternate.
Interleaved(values, constants) ==
  IF values = <<>> \/ constants = <<>> THEN values
  ELSE [i \in 1 .. Len(values) + Len(constants) |->
          IF i % 2 = 1 THEN values[(i + 1) \div 2] ELSE constants[i \div 2]]

CanInterleave(values, constants) ==
  values = <<>> \/ constants = <<>> \/ Len(values) - Len(constants) \in {0, 1}

ImplementPullLevel(db, p, r) ==
  IF \/ p.pull_attributes # <<>> /\ ~ IsBound(r.variables, p.pull_variable)
     \/ ~ ToSet(p.pull_attributes) \subseteq DOMAIN db
     \/ r.kind = "Attribute" /\ r.attribute \notin DOMAIN db
     \/ \E t \in Records(Tuples(db, r)) : ~ CanInterleave(t, p.path_attributes)
  THEN Panicked
  ELSE IF p.pull_attributes = <<>>
  THEN IF p.path_attributes = <<>> THEN r
       ELSE CollectionRelation(p.variables,
              MapRecords(Tuples(db, r), LAMBDA t : Interleaved(t, p.path_attributes)))
  ELSE LET single == p.path_attributes # <<>> /\ ~ p.cardinality_many
           paths == Tuples(db, r)
           EPath == MapRecords(paths, LAMBDA t : <<t[Binds(r.variables, p.pull_variable)], t>>)
           Path(t) == IF single THEN Front(Interleaved(t, p.path_attributes))
                      ELSE Interleaved(t, p.path_attributes)
           Stream(a) == JoinRecords(EPath, db[a], LAMBDA e, t, v : Path(t) \o <<a, v>>)
           DbIds == MapRecords(paths, LAMBDA t :
                      Path(t) \o <<DbId, Last(Interleaved(t, p.path_attributes))>>)
           streams == [i \in DOMAIN p.pull_attributes |-> Stream(p.pull_attributes[i])]
       IN CollectionRelation(<<>>, Concatenate(IF single THEN Append(streams, DbIds) ELSE streams))

ImplementPull(db, p, rs) ==
  CollectionRelation(p.variables, Concatenate([i \in DOMAIN rs |-> Tuples(db, rs[i])]))

ImplementPullAll(db, p) ==
  IF p.pull_attributes = <<>> \/ ~ ToSet(p.pull_attributes) \subseteq DOMAIN db THEN Panicked
  ELSE CollectionRelation(<<>>,
         Concatenate([i \in DOMAIN p.pull_attributes |->
           MapRecords(db[p.pull_attributes[i]], LAMBDA t : <<t[1], p.pull_attributes[i], t[2]>>)]))
-----------------------------------------------------------------------------
(* Hector, by what it answers *)

\* Hector reads the attributes under Not as well.
RECURSIVE BindingAttributes(_)
BindingAttributes(b) ==
  CASE b.kind = "Attribute" -> {b.attribute}
    [] b.kind = "Not" -> BindingAttributes(b.binding)
    [] OTHER -> {}

\* The values that occur in the attributes or as constants.
ActiveValues(db, bindings) ==
  UNION {UNION {ToSet(t) : t \in Records(db[a])} : a \in DOMAIN db}
    \cup {bindings[i].value : i \in {j \in DOMAIN bindings : bindings[j].kind = "Constant"}}

ImplementHector(db, p) ==
  IF \E i \in DOMAIN p.bindings : ~ BindingAttributes(p.bindings[i]) \subseteq DOMAIN db
  THEN Panicked
  ELSE CollectionRelation(p.variables,
         Answers(p.bindings, p.variables, ActiveValues(db, p.bindings), db))
-----------------------------------------------------------------------------
\* Plan::implement.  names holds the collections of the rules in scope.
RECURSIVE Implement(_, _, _)
Implement(db, names, p) ==
  LET rs == [i \in DOMAIN Inputs(p) |-> Implement(db, names, Inputs(p)[i])]
  IN CASE \E i \in DOMAIN rs : rs[i].kind = "Panic" -> Panicked
       [] p.op = "MatchA" -> AttributeRelation(p.e, p.a, p.v)
       [] p.op \in {"MatchEA", "MatchAV"} -> ImplementMatch(db, p)
       [] p.op = "NameExpr" -> ImplementNameExpr(names, p)
       [] p.op = "Negate" -> ImplementNegate(db, rs[1])
       [] p.op = "Project" -> ImplementProject(db, p, rs[1])
       [] p.op = "Union" -> ImplementUnion(db, p, rs)
       [] p.op = "Join" -> ImplementJoin(db, p, rs[1], rs[2])
       [] p.op = "Antijoin" -> ImplementAntijoin(db, p, rs[1], rs[2])
       [] p.op = "Filter" -> ImplementFilter(db, p, rs[1])
       [] p.op = "Transform" -> ImplementTransform(db, p, rs[1])
       [] p.op = "Aggregate" -> ImplementAggregate(db, p, rs[1])
       [] p.op = "Hector" -> ImplementHector(db, p)
       [] p.op = "PullLevel" -> ImplementPullLevel(db, p, rs[1])
       [] p.op = "Pull" -> ImplementPull(db, p, rs)
       [] p.op = "PullAll" -> ImplementPullAll(db, p)
=============================================================================
