------------------------------- MODULE Hector -------------------------------
(***************************************************************************)
(* The delta queries of plan/hector.rs.  A query is a sequence of bindings *)
(* and the variables it is asked for.  For every attribute binding there   *)
(* is a pipeline, built once, that takes the changes of that attribute and *)
(* extends them, one variable at a time, by looking up the other bindings. *)
(* The collections a pipeline looks into are entered at an alternative     *)
(* (alt) or a new (neu) version of each time, such that a change of two    *)
(* bindings at one time is seen by exactly one of the two pipelines.       *)
(*                                                                         *)
(* A step is one time of the computation: the changes made at that time    *)
(* and what all pipelines of the query make of them.                       *)
(***************************************************************************)
EXTENDS Bindings, Indices, AltNeu, TLC

CONSTANTS
  Queries,        \* sequence of records of variables and bindings
  Attributes, Values,
  TimeOrder,      \* the times, in an order that extends LessEqual
  MaxChanges,     \* for every query and step, a bound on its datoms
  QuerySupport, IndexDirection

VARIABLES
  query,    \* index of the query that is run
  input,    \* for every attribute and time, the datoms transacted then
  indexed,  \* the same, for what the attribute's indices hold
  results,  \* for every time, the changes to the results
  panicked  \* the worker panicked

vars == <<query, input, indexed, results, panicked>>

Empty == [s \in {} |-> NoRecords]

\* What the changes accumulate to as of a time, for a function of changes.
Upto(changes, Included(_)) ==
  FoldSet(LAMBDA s, acc : Concat(acc, changes[s]), NoRecords, {s \in DOMAIN changes : Included(s)})

Asof(changes, t) == Upto(changes, LAMBDA s : LessEqual(s, t))
-----------------------------------------------------------------------------
(* Building a pipeline *)

\* A constant binding for a variable of the source restricts the source
\* instead of extending it, and its variable comes first in the prefix.
SourcePrefix(bindings, source) ==
  LET vs == bindings[source].variables
      conflicts == SourceConflicts(bindings, source)
  IN IF \E i \in conflicts : bindings[i].variables = <<vs[2]>> THEN <<vs[2], vs[1]>> ELSE vs

\* The bindings in order, an antijoin after the binding it wraps.
BindingQueue(bindings) ==
  FlattenSeq([i \in DOMAIN bindings |->
    IF bindings[i].kind = "Not" THEN <<<<i, bindings[i].binding>>, <<i, bindings[i]>>>>
                                ELSE <<<<i, bindings[i]>>>>])

\* Faulty variant: no binding is looked up at the new version.
IsNeuNever(other, source) == FALSE

IsNeu(other, source) == other >= source

\* The extenders for b, after those found before it.  An antijoin wraps the
\* last one.
WithExtender(stack, b, prefix, neu) ==
  LET dir == Direction(prefix, b.variables)
  IN CASE b.kind = "Not" ->
            Append(Front(stack), [kind |-> "Antijoin", extender |-> Last(stack)])
       [] b.kind = "Constant" -> Append(stack, [kind |-> "Constant", value |-> b.value])
       [] b.kind = "BinaryPredicate" ->
            Append(stack, [kind |-> "BinaryPredicate", predicate |-> b.predicate,
                           way |-> dir.way, offset |-> dir.offset])
       [] b.kind = "Attribute" ->
            Append(stack, [kind |-> "Collection", attribute |-> b.attribute,
                           way |-> dir.way, offset |-> dir.offset, neu |-> neu])

Extenders(bindings, source, prefix, target) ==
  FoldLeft(LAMBDA stack, q :
             IF q[1] # source /\ CanExtend(q[2], prefix, target)
             THEN WithExtender(stack, q[2], prefix, IsNeu(q[1], source)) ELSE stack,
           <<>>, BindingQueue(bindings))

RECURSIVE VariableOrder(_, _, _)
VariableOrder(bindings, source, st) ==
  LET next == Round(bindings, source, st)
  IN IF Ordered(bindings, next) THEN next.prefix ELSE VariableOrder(bindings, source, next)

\* The prefix and, for every variable it is extended by, the extenders.
Pipeline(bindings, source) ==
  FoldLeft(LAMBDA p, target :
             IF IsBound(p.prefix, target) THEN p
             ELSE [p EXCEPT !.prefix = Append(@, target),
                            !.stages = Append(@, Extenders(bindings, source, p.prefix, target))],
           [source |-> source, prefix |-> SourcePrefix(bindings, source), stages |-> <<>>],
           VariableOrder(bindings, source, StartOrder(bindings, source)))

Sources(bindings) == {i \in DOMAIN bindings : IsAttribute(bindings[i])}

\* The pipelines of every query, where they can be built.
Pipelines ==
  [q \in DOMAIN Queries |->
    LET bindings == Queries[q].bindings
    IN IF Len(bindings) = 1 THEN {}
       ELSE {Pipeline(bindings, i) : i \in {j \in Sources(bindings) : CanSource(bindings, j)}}]

\* Building fails on a conflict, a missing extender or a missing index.
CanImplement(q) ==
  LET bindings == Queries[q].bindings
      stages == UNION {ToSet(p.stages) : p \in Pipelines[q]}
      Lookups(es) == UNION {{e, IF e.kind = "Antijoin" THEN e.extender ELSE e} : e \in ToSet(es)}
  IN IF Len(bindings) = 1 THEN IsAttribute(bindings[1])
     ELSE /\ \A i \in Sources(bindings) : CanSource(bindings, i)
          /\ \A es \in stages : es # <<>>
          /\ \A e \in UNION {Lookups(es) : es \in stages} :
               e.kind = "Collection" => HasIndices(QuerySupport, IndexDirection, e.way)
-----------------------------------------------------------------------------
(* Running the pipelines at one time.  Prefixes are tuples of values.      *)

\* What an extender finds in its attribute's indices.
Found(db, e, at) == Upto(db[e.attribute], LAMBDA s : AltLessEqual([time |-> s, neu |-> e.neu], at))

\* 1 << 31, out of reach of a count.
Infinite == 1000000

\* The extender that expects the fewest extensions is nominated; prefixes it
\* would not extend are dropped.  Records are <<prefix, count, index>>.
Counted(db, e, at, index, counts) ==
  LET cheaper(r, n) == IF n < r[2] THEN <<r[1], n, index>> ELSE r
      found == Found(db, e, at)
      NumberOf(r) == CountOf(found, e.way, r[1][e.offset])
  IN CASE e.kind = "Constant" -> MapRecords(counts, LAMBDA r : cheaper(r, 1))
       [] e.kind = "Collection" ->
            MapRecords(FilterRecords(counts, LAMBDA r : NumberOf(r) > 0),
                       LAMBDA r : cheaper(r, NumberOf(r)))
       [] OTHER -> counts

CanPropose(e) == e.kind \in {"Constant", "Collection"}

\* Records are <<prefix, extension>> from here on.
Propose(db, e, at, prefixes) ==
  LET found == Found(db, e, at)
      Values1(p) == IF e.kind = "Constant" THEN {e.value} ELSE ProposalsOf(found, e.way, p[e.offset])
  IN Collection(UNION {{<<p, v>> : v \in Values1(p)} : p \in Records(prefixes)},
                LAMBDA r : prefixes[r[1]])

\* With the first variable bound, the extension comes first in the
\* comparison; with the second variable bound, it comes second.
PredicateHolds(e, r) ==
  IF e.way = "Forward" THEN Compare(e.predicate, r[2], r[1][e.offset])
                       ELSE Compare(e.predicate, r[1][e.offset], r[2])

RECURSIVE Validate(_, _, _, _)
Validate(db, e, at, extensions) ==
  LET found == Found(db, e, at)
  IN CASE e.kind = "Constant" -> FilterRecords(extensions, LAMBDA r : r[2] = e.value)
       [] e.kind = "BinaryPredicate" -> FilterRecords(extensions, LAMBDA r : PredicateHolds(e, r))
       [] e.kind = "Collection" ->
            FilterRecords(extensions, LAMBDA r : Validates(found, e.way, r[1][e.offset], r[2]))
       [] e.kind = "Antijoin" ->
            Concat(extensions, Negated(Validate(db, e.extender, at, extensions)))

\* The prefixes with the index of the extender that is to propose.
Nominations(db, es, at, prefixes) ==
  LET start == MapRecords(prefixes, LAMBDA p : <<p, Infinite, 1>>)
  IN IF Len(es) = 1 THEN start
     ELSE FoldLeftDomain(LAMBDA acc, i : Counted(db, es[i], at, i, acc), start, es)

\* Extender i proposes for the prefixes it is nominated for, and all others
\* validate.
ExtendBy(db, es, at, nominations, i) ==
  LET mine == FilterRecords(nominations, LAMBDA r : r[3] = i)
      prefixes == MapRecords(mine, LAMBDA r : r[1])
  IN IF ~ CanPropose(es[i]) THEN NoRecords
     ELSE FoldLeftDomain(LAMBDA acc, j : IF j = i THEN acc ELSE Validate(db, es[j], at, acc),
                         Propose(db, es[i], at, prefixes), es)

\* One stage.  An extender that cannot propose panics on its first prefix.
Extend(db, es, at, st) ==
  LET nominations == Nominations(db, es, at, st.tuples)
      parts == [i \in DOMAIN es |-> ExtendBy(db, es, at, nominations, i)]
  IN [tuples |-> MapRecords(Concatenate(parts), LAMBDA r : Append(r[1], r[2])),
      failed |-> st.failed \/ \E r \in Records(nominations) : ~ CanPropose(es[r[3]])]

Project(xs, prefix, tuples) ==
  MapRecords(tuples, LAMBDA p : Columns(p, [i \in DOMAIN xs |-> Binds(prefix, xs[i])]))

\* Changes of the source at time t, as prefixes.
SourceChanges(db, bindings, p, t) ==
  LET b == bindings[p.source]
      oriented == MapRecords(db[b.attribute][t],
                             LAMBDA r : IF p.prefix[1] = b.variables[1] THEN r ELSE <<r[2], r[1]>>)
  IN FilterRecords(oriented,
       LAMBDA r : \A i \in SourceConflicts(bindings, p.source) : r[1] = bindings[i].value)

\* What a pipeline makes of the changes at time t.
Run(db, bindings, p, t) ==
  FoldLeft(LAMBDA st, es : Extend(db, es, Alt(t), st),
           [tuples |-> SourceChanges(db, bindings, p, t), failed |-> FALSE], p.stages)

\* A single binding is not extended at all.
RunAll(db, q, t) ==
  LET bindings == Queries[q].bindings
      runs == {[prefix |-> p.prefix, of |-> p.source] @@ Run(db, bindings, p, t) : p \in Pipelines[q]}
      single == [prefix |-> bindings[1].variables, of |-> 1, failed |-> FALSE,
                 tuples |-> db[bindings[1].attribute][t]]
      all == IF Len(bindings) = 1 THEN {single} ELSE runs
  IN [tuples |-> FoldSet(LAMBDA r, acc : Concat(acc, Project(Queries[q].variables, r.prefix, r.tuples)),
                         NoRecords, all),
      failed |-> \E r \in all : r.failed]
-----------------------------------------------------------------------------
Init ==
  /\ query \in DOMAIN Queries
  /\ input = [a \in Attributes |-> Empty]
  /\ indexed = input
  /\ results = Empty
  /\ panicked = ~ CanImplement(query)

Step == Cardinality(DOMAIN results) + 1
Now == TimeOrder[Step]

With(changes, t, c) == [s \in DOMAIN changes \cup {t} |-> IF s = t THEN c ELSE changes[s]]

\* Faulty variant: InputSemantics::Raw.
IndexedPairsRaw(c) == c

\* InputSemantics::Distinct, as seen in the attribute's indices.
IndexedPairs(c) == Distinct(c)

\* The change at time t that makes what is indexed what it should be.
IndexChange(before, datoms, t) ==
  LET asserted == Asof(With(before.input, t, datoms), t)
  IN Concat(IndexedPairs(asserted), Negated(Asof(before.indexed, t)))

\* The datoms of one time are transacted, and the pipelines run.
Transact(datoms) ==
  /\ ~ panicked
  /\ input' = [a \in Attributes |-> With(input[a], Now, datoms[a])]
  /\ indexed' = [a \in Attributes |->
       With(indexed[a], Now, IndexChange([input |-> input[a], indexed |-> indexed[a]], datoms[a], Now))]
  /\ \E run \in {RunAll(indexed', query, Now)} :
       panicked' = run.failed /\ results' = With(results, Now, run.tuples)
  /\ UNCHANGED query

\* At most MaxChanges datoms are asserted or retracted at a time, and nothing
\* is retracted before it was asserted.
Datoms == Attributes \X (Values \X Values)

Retractable == {d \in Datoms : Times(Asof(input[d[1]], Now), d[2]) > 0}

DatomsOf(added, retracted) ==
  [a \in Attributes |->
    Collection({d[2] : d \in {x \in added \cup retracted : x[1] = a}},
               LAMBDA p : IF <<a, p>> \in added THEN 1 ELSE - 1)]

Next ==
  /\ Step <= Len(TimeOrder)
  /\ \E changed \in UNION {kSubset(n, Datoms) : n \in 0 .. MaxChanges[query][Step]} :
       \E retracted \in SUBSET (changed \cap Retractable) :
         Transact(DatomsOf(changed \ retracted, retracted))

Spec == Init /\ [][Next]_vars
-----------------------------------------------------------------------------
\* What was asserted and not retracted as of time t.
Database(t) == [a \in Attributes |-> Distinct(Asof(input[a], t))]

\* At every time, the changes that all pipelines produced accumulate to the
\* answers of the query in the database of that time, no answer missing or
\* counted twice (Hector::implement, and the doc of q in lib.rs).
ResultsAgree ==
  LET q == Queries[query]
  IN /\ ~ panicked
     /\ \A t \in DOMAIN results :
          Asof(results, t) = Answers(q.bindings, q.variables, Values, Database(t))
=============================================================================
