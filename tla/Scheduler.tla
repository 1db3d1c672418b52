------------------------------- MODULE Scheduler -------------------------------
(***************************************************************************)
(* The timer of scheduling/realtime_scheduler.rs: activators and events in *)
(* a min-heap by the instant they are due.  A queue is a set of entries    *)
(* with a field `at`; entries that are due at the same instant come off    *)
(* the heap in no particular order.                                        *)
(***************************************************************************)
EXTENDS Naturals

\* The entries BinaryHeap::peek may return.
Peeked(queue) == {e \in queue : \A f \in queue : e.at <= f.at}

\* TimedActivator::is_ready
RealtimeReady(now, e) == now >= e.at

\* RealtimeScheduler::has_pending and what next() pops.
RealtimeNext(queue, now) == {e \in Peeked(queue) : RealtimeReady(now, e)}

\* Faulty variant: looks at the entry that is due last.
UntilNextLast(queue, now, default) ==
  IF queue = {} THEN default
  ELSE LET at == (CHOOSE e \in queue : \A f \in queue : f.at <= e.at).at
       IN IF at > now THEN at - now ELSE 0

\* RealtimeScheduler::until_next().unwrap_or(default)
UntilNext(queue, now, default) ==
  IF queue = {} THEN default
  ELSE LET at == (CHOOSE e \in Peeked(queue) : TRUE).at
       IN IF at > now THEN at - now ELSE 0
=============================================================================
