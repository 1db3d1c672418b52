-------------------------- MODULE FrontierScheduling --------------------------
(***************************************************************************)
(* A frontier scheduler (scheduling/frontier_scheduler.rs) beside a probe  *)
(* whose frontier moves forward, for any timestamp type.  Its activators   *)
(* are in a min-heap by Ord, which is total, while one of them is ready    *)
(* when the probe no longer reports an earlier time of the partial order.  *)
(***************************************************************************)
CONSTANTS
  Instants,                \* timestamps
  Earliest,                \* where the frontier starts
  InstantLessEqual(_, _),  \* their PartialOrder
  OrdLessEqual(_, _),      \* their Ord, by which the heap is ordered
  Activators               \* operators that ask to be activated

VARIABLES activator_queue, frontier, triggered
schedulerVars == <<activator_queue, frontier, triggered>>

SchedulerInit == activator_queue = {} /\ frontier = {Earliest} /\ triggered = {}

\* Faulty variant: readiness needs the frontier to be strictly past.
FrontierReadyStrict(e) == \A f \in frontier : ~ InstantLessEqual(f, e.at)

\* FrontieredActivator::is_ready, with AntichainRef::less_than.
FrontierReady(e) == ~ \E f \in frontier : InstantLessEqual(f, e.at) /\ f # e.at

\* The entries of a heap that BinaryHeap::peek may return.
Heads(Q) == {e \in Q : \A d \in Q : OrdLessEqual(e.at, d.at)}

\* FrontierScheduler::has_pending and what next() pops.
FrontierNext == {e \in Heads(activator_queue) : FrontierReady(e)}

\* Environment: an operator waits for one activation at a time, and for a
\* time that is still ahead.
ScheduleAt(a, t) ==
  /\ \E f \in frontier : InstantLessEqual(f, t) /\ f # t
  /\ \A e \in activator_queue : e.activator # a
  /\ activator_queue' = activator_queue \cup {[at |-> t, activator |-> a]}
  /\ triggered' = triggered \ {a}
  /\ UNCHANGED frontier

Antichains ==
  {F \in SUBSET Instants : \A f, g \in F : InstantLessEqual(f, g) => f = g}

FrontierMoves ==
  /\ \E F \in Antichains :
       /\ F # frontier /\ \A f \in F : \E g \in frontier : InstantLessEqual(g, f)
       /\ frontier' = F
  /\ UNCHANGED <<activator_queue, triggered>>

\* scheduler.next() and schedule()
Trigger ==
  \E e \in FrontierNext :
    /\ activator_queue' = activator_queue \ {e}
    /\ triggered' = triggered \cup {e.activator}
    /\ UNCHANGED frontier

SchedulerNext ==
  \/ \E a \in Activators, t \in Instants : ScheduleAt(a, t)
  \/ FrontierMoves \/ Trigger

SchedulerSpec == SchedulerInit /\ [][SchedulerNext]_schedulerVars
-----------------------------------------------------------------------------
Comparable(s, t) == InstantLessEqual(s, t) \/ InstantLessEqual(t, s)

\* The frontier has reached t or left it behind.
FrontierAt(t) == \A f \in frontier : InstantLessEqual(f, t) => f = t

\* An activator whose time the frontier has reached or left behind is held up
\* only by times that are not comparable with its own: otherwise has_pending,
\* which looks at the head of the heap alone, reports that something can be
\* triggered ("Returns true whenever an activator is queued and ready to be
\* scheduled").  Totally ordered times are never held up.
ReadyIsPending ==
  \A e \in activator_queue :
    FrontierAt(e.at) =>
      \/ FrontierNext # {}
      \/ \E h \in Heads(activator_queue) : ~ Comparable(h.at, e.at)
=============================================================================
