------------------------------ MODULE Timestamp ------------------------------
(***************************************************************************)
(* The timestamp types of timestamp/mod.rs and timestamp/pair.rs.          *)
(***************************************************************************)
EXTENDS Naturals

\* u64, ordered by <=.
U64LessEqual(s, t) == s <= t
U64Join(s, t) == IF s <= t THEN t ELSE s
U64Meet(s, t) == IF s <= t THEN s ELSE t
U64Max(F) == CHOOSE m \in F : \A f \in F : f <= m

\* Rewind for u64 (and for Duration): a slack that cannot be subtracted
\* leaves the time as it is.
U64Rewind(t, slack) == IF slack <= t THEN t - slack ELSE t

\* Pair, ordered by the product order.  Pairs are records.
Pair(s, t) == [first |-> s, second |-> t]
PairLessEqual(p, q) == p.first <= q.first /\ p.second <= q.second
PairJoin(p, q) == Pair(U64Join(p.first, q.first), U64Join(p.second, q.second))
PairMeet(p, q) == Pair(U64Meet(p.first, q.first), U64Meet(p.second, q.second))
PairRewind(p, slack) ==
  Pair(U64Rewind(p.first, slack.first), U64Rewind(p.second, slack.second))

\* The derived Ord of Pair is lexicographic; Iterator::max uses it.
PairOrdLessEqual(p, q) ==
  p.first < q.first \/ (p.first = q.first /\ p.second <= q.second)
PairMax(F) == CHOOSE m \in F : \A f \in F : PairOrdLessEqual(f, m)

\* Faulty variant: rounds down.
U64CoarsenDown(t, w) == (t \div w) * w

\* Coarsen for u64: the next multiple of the window.
U64Coarsen(t, w) == (t \div w + 1) * w

\* Duration::new(secs, nanos) carries whole seconds, of NS nanoseconds each.
Duration(secs, nanos, NS) == [secs |-> secs + nanos \div NS, nanos |-> nanos % NS]

\* Faulty variant: a window without seconds still moves to the next second.
DurationCoarsenSecs(d, w, NS) ==
  Duration(U64Coarsen(d.secs, IF w.secs = 0 THEN 1 ELSE w.secs),
           IF w.nanos = 0 THEN 0 ELSE U64Coarsen(d.nanos, w.nanos), NS)

\* Coarsen for Duration treats seconds and nanoseconds separately.
DurationCoarsen(d, w, NS) ==
  Duration(IF w.secs = 0 THEN d.secs ELSE U64Coarsen(d.secs, w.secs),
           IF w.nanos = 0 THEN 0 ELSE U64Coarsen(d.nanos, w.nanos), NS)
=============================================================================
