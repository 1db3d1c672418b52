----------------------------- MODULE LastWriteWins -----------------------------
(***************************************************************************)
(* The last_write_wins operator (operators/last_write_wins.rs): updates    *)
(* are arranged into batches as the frontier advances, each batch is       *)
(* replayed key by key in the order of time, and a state machine per       *)
(* entity retracts the old value when a new one arrives.  The keys of a    *)
(* batch have nothing to do with one another, and are replayed in any      *)
(* order here.                                                             *)
(***************************************************************************)
EXTENDS Integers

CONSTANTS
  Eids,
  Vals,          \* values, integers, ordered by Ord
  MaxWriteTime,  \* bound on times
  MaxWrites,     \* bound on the updates sent
  None           \* Option::None

ASSUME WriteAssumption ==
  MaxWriteTime \in Nat /\ Vals \subseteq Int /\ None \notin Vals

WriteTimes == 0 .. MaxWriteTime
Update == [e : Eids, v : Vals, t : WriteTimes]

VARIABLES
  arranged,  \* arranged diffs: [Update -> Int]
  sends,     \* history: how many updates were sent
  batched,   \* upper frontier of the last batch
  replay,    \* tuples given to the state machine and not processed yet
  state,     \* its value for each entity
  output,    \* the diffs it emitted: [Update -> Int]
  done,      \* the frontier it reports
  panic      \* has the assertion failed?

lastWriteVars == <<arranged, sends, batched, replay, state, output, done, panic>>

LastWriteInit ==
  /\ arranged = [u \in Update |-> 0] /\ sends = 0 /\ batched = 0
  /\ replay = {} /\ state = [e \in Eids |-> None]
  /\ output = [u \in Update |-> 0] /\ done = 0 /\ panic = FALSE

\* An update is arranged, its diff added to others at the same time.
Arrange(u, diff) ==
  /\ ~ panic /\ sends < MaxWrites /\ u.t >= batched
  /\ arranged' = [arranged EXCEPT ![u] = @ + diff]
  /\ sends' = sends + 1
  /\ UNCHANGED <<batched, replay, state, output, done, panic>>

\* The arrangement seals the batch between two frontiers.
SealBatch(next) ==
  /\ ~ panic /\ batched < next
  /\ replay' = replay \cup {u \in Update : arranged[u] # 0 /\ batched <= u.t /\ u.t < next}
  /\ batched' = next
  /\ UNCHANGED <<arranged, sends, state, output, done, panic>>

\* Faulty variant: tuples stay in the cursor's order, by value.
PrecedesByValue(u, w) == u.v < w.v \/ (u.v = w.v /\ u.t < w.t)

\* The cursor yields the values of a key in order, each with its times, and
\* the stable sort_by_key then orders them by time.
Precedes(u, w) == u.t < w.t \/ (u.t = w.t /\ u.v < w.v)

Emit(u, diff, out) == [out EXCEPT ![u] = @ + diff]

\* Faulty variant: the old value is not retracted.
OverwriteOnly(u) ==
  /\ state' = [state EXCEPT ![u.e] = u.v]
  /\ output' = Emit(u, 1, output)
  /\ UNCHANGED panic

\* A new value replaces the old one.
Overwrite(u) ==
  /\ state' = [state EXCEPT ![u.e] = u.v]
  /\ output' = Emit(u, 1, IF state[u.e] = None THEN output
                          ELSE Emit([u EXCEPT !.v = state[u.e]], -1, output))
  /\ UNCHANGED panic

\* A retraction takes away the current value, whatever it names.
Retract(u) ==
  IF state[u.e] = None
  THEN panic' = TRUE /\ UNCHANGED <<state, output>>
  ELSE /\ state' = [state EXCEPT ![u.e] = None]
       /\ output' = Emit([u EXCEPT !.v = state[u.e]], -1, output)
       /\ UNCHANGED panic

StepStateMachine(u) ==
  /\ ~ panic /\ \A w \in replay : w.e = u.e /\ w # u => Precedes(u, w)
  /\ IF arranged[u] > 0 THEN Overwrite(u) ELSE Retract(u)
  /\ replay' = replay \ {u}
  /\ UNCHANGED <<arranged, sends, batched, done>>

\* The operator's output frontier catches up.
ReportProgress ==
  /\ ~ panic /\ replay = {} /\ done < batched
  /\ done' = batched
  /\ UNCHANGED <<arranged, sends, batched, replay, state, output, panic>>

LastWriteNext ==
  \/ \E u \in Update, diff \in {1, -1} : Arrange(u, diff)
  \/ \E next \in 1 .. MaxWriteTime + 1 : SealBatch(next)
  \/ \E u \in replay : StepStateMachine(u)
  \/ ReportProgress

LastWriteSpec == LastWriteInit /\ [][LastWriteNext]_lastWriteVars
-----------------------------------------------------------------------------
\* Running sums of the diffs d over time.
RunningSum(d) ==
  LET sum[s \in WriteTimes] == d[s] + IF s = 0 THEN 0 ELSE sum[s - 1] IN sum

DiffsOf(e, v) == [s \in WriteTimes |-> output[[e |-> e, v |-> v, t |-> s]]]

\* The collection as of time t.
Count(e, v, t) == RunningSum(DiffsOf(e, v))[t]

\* At no time has an entity two values, or a value a count other than one,
\* also when clients do retract ("Ensures that only a single value per eid
\* exists within an attribute").
SingleValue ==
  \A e \in Eids, t \in WriteTimes :
    /\ \A v \in Vals : Count(e, v, t) \in {0, 1}
    /\ \A v, w \in Vals : Count(e, v, t) = 1 /\ Count(e, w, t) = 1 => v = w

\* The answers a reader of the collection gets for completed times.
ValueAt(e, t) ==
  LET present == {v \in Vals : Count(e, v, t) > 0}
  IN IF present = {} THEN None ELSE CHOOSE v \in present : TRUE

Answer ==
  [e \in Eids |-> [t \in WriteTimes |-> IF t >= done THEN None ELSE ValueAt(e, t)]]

Latest == INSTANCE LatestValue WITH
            MaxTime <- MaxWriteTime, updates <- arranged, answer <- Answer

\* The operator implements LatestValue: every completed answer is the value
\* written last, or none after a retraction, and no later batch revises it.
ImplementsLatestValue == Latest!Spec
-----------------------------------------------------------------------------
\* As of time t entity e has the value x, or none if x is None.
HasValue(e, t, x) == \A v \in Vals : Count(e, v, t) = IF v = x THEN 1 ELSE 0

\* The state machine has been given update u, and is done with it.
Processed(u) == arranged[u] # 0 /\ u.t < batched /\ u \notin replay

Written(e, t) == {v \in Vals : arranged[[e |-> e, v |-> v, t |-> t]] > 0}
Retracted(e, t) == \E v \in Vals : arranged[[e |-> e, v |-> v, t |-> t]] < 0

\* The inductive invariant behind ImplementsLatestValue.  What waits is not
\* before what was processed of the same entity and never in a completed time;
\* output changes only at times that were processed; the latest value is the
\* state machine's; and where an entity was updated it has one of the values
\* written then, or none if there was a retraction.
LastWriteInv ==
  /\ arranged \in [Update -> Int] /\ output \in [Update -> Int]
  /\ state \in [Eids -> Vals \cup {None}]
  /\ batched \in 0 .. MaxWriteTime + 1 /\ done \in 0 .. batched
  /\ \A u \in replay : u \in Update /\ arranged[u] # 0 /\ done <= u.t /\ u.t < batched
  /\ \A u \in replay, w \in Update : w.e = u.e /\ Processed(w) => w.t <= u.t
  /\ \A u \in Update :
       output[u] # 0 => \E w \in Update : w.e = u.e /\ w.t = u.t /\ Processed(w)
  /\ \A e \in Eids : HasValue(e, MaxWriteTime, state[e])
  /\ \A e \in Eids, t \in WriteTimes : \E x \in Vals \cup {None} : HasValue(e, t, x)
  /\ \A u \in Update :
       Processed(u) => \E x \in Vals \cup {None} :
         /\ HasValue(u.e, u.t, x)
         /\ x \in Written(u.e, u.t) \/ (x = None /\ Retracted(u.e, u.t))
=============================================================================
