----------------------------- MODULE TimeLattice -----------------------------
(***************************************************************************)
(* The timestamp type T of a domain, as the code is generic in it:         *)
(* `T: Timestamp + Lattice + Rewind`.  Timestamp.tla defines the concrete  *)
(* types (u64, Duration, Pair); this module only states what the domain    *)
(* relies on.  Frontiers and antichains are sets of times.                 *)
(***************************************************************************)
CONSTANTS
  T,                 \* the set of timestamps
  Minimum,           \* <T as Lattice>::minimum(), also Default::default()
  LessEqual(_, _),   \* PartialOrder::less_equal
  Meet(_, _),        \* Lattice::meet
  Rewind(_, _),      \* Rewind::rewind(time, slack)
  OrdMax(_)          \* Iterator::max of a non-empty set, by the type's Ord

ASSUME TimeAssumption ==
  /\ Minimum \in T
  /\ \A s, t \in T : LessEqual(s, t) \in BOOLEAN
  /\ \A t \in T : LessEqual(t, t) /\ LessEqual(Minimum, t)
  /\ \A s, t \in T : LessEqual(s, t) /\ LessEqual(t, s) => s = t
  /\ \A r, s, t \in T : LessEqual(r, s) /\ LessEqual(s, t) => LessEqual(r, t)

ASSUME TimeOperatorAssumption ==
  /\ \A s, t \in T : /\ Meet(s, t) \in T
                     /\ LessEqual(Meet(s, t), s)
                     /\ LessEqual(Meet(s, t), t)
  /\ \A s, t \in T : /\ Rewind(t, s) \in T
                     /\ LessEqual(Rewind(t, s), t)
  /\ \A F \in SUBSET T : F # {} => OrdMax(F) \in F

LessThan(s, t) == LessEqual(s, t) /\ s # t

\* AntichainRef::less_equal: some element of the frontier is at or before t,
\* that is, an update at t may still arrive.
FrontierLessEqual(F, t) == \E f \in F : LessEqual(f, t)

\* AntichainRef::less_than.
FrontierLessThan(F, t) == \E f \in F : LessThan(f, t)

\* Frontier G has not moved back behind frontier F: whatever G still
\* distinguishes, F did too.
FrontierReached(F, G) == \A g \in G : FrontierLessEqual(F, g)
=============================================================================
