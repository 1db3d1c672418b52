------------------------------- MODULE AltNeu -------------------------------
(***************************************************************************)
(* The timestamps of timestamp/altneu.rs.  Hector's delta pipelines run at *)
(* times that are split in two: at one inner time, `alt` comes before      *)
(* `neu`.  Both versions of a time are ordered against other times by the  *)
(* inner order alone, so this is a lexicographic order, not a product.     *)
(***************************************************************************)
CONSTANTS
  T,                \* the inner timestamps
  LessEqual(_, _),  \* PartialOrder::less_equal of T
  Join(_, _),       \* Lattice::join of T
  Meet(_, _)        \* Lattice::meet of T

\* T is a lattice.
ASSUME InnerAssumption ==
  /\ \A s, t \in T : LessEqual(s, t) \in BOOLEAN /\ Join(s, t) \in T /\ Meet(s, t) \in T
  /\ \A t \in T : LessEqual(t, t)
  /\ \A s, t \in T : LessEqual(s, t) /\ LessEqual(t, s) => s = t
  /\ \A r, s, t \in T : LessEqual(r, s) /\ LessEqual(s, t) => LessEqual(r, t)

ASSUME InnerLatticeAssumption ==
  /\ \A s, t \in T : LessEqual(s, Join(s, t)) /\ LessEqual(t, Join(s, t))
  /\ \A s, t \in T : LessEqual(Meet(s, t), s) /\ LessEqual(Meet(s, t), t)
  /\ \A s, t, u \in T : LessEqual(s, u) /\ LessEqual(t, u) => LessEqual(Join(s, t), u)
  /\ \A s, t, u \in T : LessEqual(u, s) /\ LessEqual(u, t) => LessEqual(u, Meet(s, t))

Time == [time : T, neu : BOOLEAN]

Alt(t) == [time |-> t, neu |-> FALSE]
Neu(t) == [time |-> t, neu |-> TRUE]

\* Refines::to_outer
ToOuter(a) == a.time

\* Faulty variant: one time is not less than or equal to itself.
AltLessThan(a, b) ==
  IF a.time = b.time THEN ~ a.neu /\ b.neu ELSE LessEqual(a.time, b.time)

AltLessEqual(a, b) ==
  IF a.time = b.time THEN a.neu => b.neu ELSE LessEqual(a.time, b.time)

\* The later half among those of the two that are at the joined time.
AltJoin(a, b) ==
  LET time == Join(a.time, b.time)
  IN [time |-> time, neu |-> \/ time = a.time /\ a.neu
                             \/ time = b.time /\ b.neu]

\* The earlier half among those of the two that are at the common time, neu
\* if neither is.
AltMeet(a, b) ==
  LET time == Meet(a.time, b.time)
  IN [time |-> time, neu |-> /\ time = a.time => a.neu
                             /\ time = b.time => b.neu]
=============================================================================
