----------------------------- MODULE Collections -----------------------------
(* Differential collections as the plans of src/src/plan use them: a       *)
(* collection accumulates, at a given time, to an integer multiplicity for *)
(* each of its records.  Records with multiplicity zero are not there.     *)
(* The operators are the library's; only what a plan can observe of them   *)
(* once its inputs are complete is modelled.                               *)
EXTENDS Integers, Sequences, FiniteSets, FiniteSetsExt, SequencesExt

\* The collection holding the records of S, count(r) times each.
Collection(S, count(_)) == [r \in {s \in S : count(s) # 0} |-> count(r)]

Records(c) == DOMAIN c
Times(c, r) == IF r \in DOMAIN c THEN c[r] ELSE 0
NoRecords == Collection({}, LAMBDA r : 0)
OnceEach(S) == Collection(S, LAMBDA r : 1)

\* map and as_collection: records with the same image are consolidated.
MapRecords(c, F(_)) ==
  LET image == [r \in Records(c) |-> F(r)]
  IN Collection({image[r] : r \in Records(c)},
                LAMBDA u : MapThenSumSet(LAMBDA r : c[r], {r \in Records(c) : image[r] = u}))

FilterRecords(c, Keep(_)) == Collection({r \in Records(c) : Keep(r)}, LAMBDA r : c[r])

Negated(c) == Collection(Records(c), LAMBDA r : - c[r])

Concat(c, d) == Collection(Records(c) \cup Records(d), LAMBDA r : Times(c, r) + Times(d, r))

\* concatenate over a sequence of collections.
Concatenate(cs) == FoldLeft(Concat, NoRecords, cs)

\* distinct keeps, once, the records that accumulate to a positive count.
Distinct(c) == OnceEach({r \in Records(c) : c[r] > 0})

\* join_core and join_map over records <<key, value>>.
JoinRecords(c, d, F(_, _, _)) ==
  LET pairs == Collection({q \in Records(c) \X Records(d) : q[1][1] = q[2][1]},
                          LAMBDA q : c[q[1]] * d[q[2]])
  IN MapRecords(pairs, LAMBDA q : F(q[1][1], q[1][2], q[2][2]))

\* antijoin of records <<key, value>> with a collection of keys.
AntijoinRecords(c, keys) ==
  FilterRecords(c, LAMBDA r : Times(keys, r[1]) = 0)

Keys(c) == {r[1] : r \in Records(c)}
Group(c, k) == {r \in Records(c) : r[1] = k}

\* reduce: one output for every key that has records.
Reduce(c, F(_)) == OnceEach({<<k, F(Group(c, k))>> : k \in Keys(c)})

\* explode and count: for every key the sum of weight(r) * count, where it is
\* not zero.
ExplodeCount(c, weight(_)) ==
  LET total == [k \in Keys(c) |-> MapThenSumSet(LAMBDA r : weight(r) * c[r], Group(c, k))]
  IN OnceEach({<<k, total[k]>> : k \in {j \in Keys(c) : total[j] # 0}})
=============================================================================
