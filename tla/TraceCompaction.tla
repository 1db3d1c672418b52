-------------------------- MODULE TraceCompaction ---------------------------
(***************************************************************************)
(* An index read by one of Hector's extenders, and its compaction.  The    *)
(* index is kept outside of the scope with AltNeu times and enters it at   *)
(* the alt or the neu half of its times.  An extender tells the trace from *)
(* which frontier of its first input on it still distinguishes times       *)
(* (trace.advance_by in hector.rs), which reaches the index as a frontier  *)
(* of outer times.  Differential dataflow may then replace the time of an  *)
(* update by the earliest time that no read at an outer time in advance of *)
(* the frontier tells apart from it.  The domain also holds the trace, and *)
(* has advanced it at least as far.  A frontier has one or two elements    *)
(* here (twice the same, if one).                                          *)
(***************************************************************************)
EXTENDS AltNeu, Integers

VARIABLES
  rep,    \* for the time of every update in the trace, the time it is kept at
  input,  \* the frontier of the extender's first input
  since   \* the frontier the trace is advanced to

vars == <<rep, input, since>>

\* u is in advance of the frontier.
InAdvanceOf(frontier, u) == LessEqual(frontier[1], u) \/ LessEqual(frontier[2], u)
AltInAdvanceOf(frontier, u) == AltLessEqual(frontier[1], u) \/ AltLessEqual(frontier[2], u)

\* Lattice::advance_by
AdvanceBy(t, frontier) == Meet(Join(t, frontier[1]), Join(t, frontier[2]))

\* The first frontier is the minimum of T, at its alt half.
Init ==
  /\ rep = [t \in {} |-> t]
  /\ \E m \in T : /\ \A s \in T : LessEqual(m, s)
                  /\ input = <<Alt(m), Alt(m)>>
                  /\ since = <<m, m>>

\* Updates arrive at any time.
Insert(t) ==
  /\ t \notin DOMAIN rep
  /\ rep' = [s \in DOMAIN rep \cup {t} |-> IF s = t THEN t ELSE rep[s]]
  /\ UNCHANGED <<input, since>>

\* trace.advance_by at the end of every run of an extender.  The input's
\* frontier only moves forward.
Advance(f, g) ==
  /\ AltInAdvanceOf(input, f) /\ AltInAdvanceOf(input, g)
  /\ input' = <<f, g>>
  /\ since' = <<ToOuter(f), ToOuter(g)>>
  /\ UNCHANGED rep

\* Some batches of the trace are merged.
Compact(merged) ==
  /\ rep' = [t \in DOMAIN rep |-> IF t \in merged THEN AdvanceBy(rep[t], since) ELSE rep[t]]
  /\ UNCHANGED <<input, since>>

Next ==
  \/ \E t \in T : Insert(t)
  \/ \E f, g \in Time : Advance(f, g)
  \/ \E merged \in SUBSET DOMAIN rep : Compact(merged)

Spec == Init /\ [][Next]_vars
-----------------------------------------------------------------------------
\* enter_at, with is_neu of the extender's attribute
Entered(t, neu) == [time |-> t, neu |-> neu]

\* The read that compaction takes an update from: the index is entered at the
\* neu half (a binding after the delta source, hector.rs:681), the update was
\* moved up to the outer time of u, and u is the alt half of that time.
Overtaken(t, u, neu) == neu /\ ~ u.neu /\ rep[t] = u.time /\ t # u.time

\* What an extender reads at u, by summing the updates at or before u: the
\* same updates as if the trace had never been compacted (count, propose and
\* validate of CollectionExtender), at alt and at neu, but for those that were
\* overtaken, and never one that is not due.
ReadsAgree ==
  \A neu \in BOOLEAN : \A u \in Time : AltInAdvanceOf(input, u) =>
    \A t \in DOMAIN rep :
      AltLessEqual(Entered(rep[t], neu), u)
        <=> AltLessEqual(Entered(t, neu), u) /\ ~ Overtaken(t, u, neu)
=============================================================================
