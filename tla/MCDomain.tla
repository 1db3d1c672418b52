------------------------------- MODULE MCDomain -------------------------------
(* Domain over u64 timestamps, or over bitemporal ones, Pair<Duration, u64>. *)
EXTENDS Domain, Timestamp
CONSTANT MaxTime
U64s == 0..MaxTime
Slack1 == {1}
Pairs == {Pair(s, t) : s, t \in U64s}
PairMinimum == Pair(0, 0)
PairSlacks == {Pair(0, 0), Pair(1, 1)}
=============================================================================
