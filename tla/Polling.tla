-------------------------------- MODULE Polling --------------------------------
(***************************************************************************)
(* The server loop as far as time drives it (server/src/main.rs): the      *)
(* timer queue, the chain of Tick commands, a CSV source that polls its    *)
(* file (sources/csv_file.rs), and the park at the end of an iteration.    *)
(* The clock runs beside all of them.  Reader state is per worker; the     *)
(* model has worker 0, the one that ticks.                                 *)
(***************************************************************************)
EXTENDS Scheduler, Sequences, FiniteSets

CONSTANTS
  Coarsen(_, _),  \* Duration::coarsen
  Ticks,          \* tick intervals that may be configured
  Interval,       \* CsvFile::interval
  Fuel,           \* CsvFile::fuel
  Records,        \* records in the file
  IdleDelay,      \* how long the loop parks with an empty queue
  Intervals,      \* bound on the clock, in tick intervals
  MaxSlip,        \* bound on the time from computing a delay to parking for it
  ClientTicks     \* bound: Tick requests sent by clients, for each tick interval

ASSUME PollingAssumption ==
  /\ Ticks \cup {Interval, Fuel, IdleDelay} \subseteq Nat \ {0}
  /\ {Records, Intervals, MaxSlip} \subseteq Nat
  /\ ClientTicks \in [Ticks -> Nat]

VARIABLES
  tick,       \* server_config.tick, which never changes
  clock,      \* Instant::now() - worker.timer()
  queue,      \* RealtimeScheduler::activator_queue
  commands,   \* Tick commands in the sequencer
  ticked,     \* history: when they were handled
  requested,  \* Tick requests by clients so far
  reader,     \* CsvFile's operator: records read, done, capability (or empty)
  active,     \* has the operator been activated?
  emitted,    \* history: what the operator sent
  delay,      \* [wait, since] once the loop knows how long to park, or <<>>
  parked      \* [until, slip] while the loop is parked, or <<>>

loopVars == <<queue, commands, ticked, requested, reader, active, emitted, delay, parked>>
pollingVars == <<tick, clock, loopVars>>

PollingInit ==
  /\ tick \in Ticks
  /\ clock = 0 /\ queue = {}
  /\ commands = 1 /\ ticked = <<>> /\ requested = 0
  /\ reader = [read |-> 0, done |-> FALSE, cap |-> {0}]
  /\ active = TRUE /\ emitted = <<>> /\ delay = <<>> /\ parked = <<>>

MaxClock == Intervals * tick + MaxSlip

Awake == parked = <<>>

\* The loop is before its last step, step_or_park.
Working == Awake /\ delay = <<>>

ClockRuns ==
  /\ clock < MaxClock /\ clock' = clock + 1
  /\ delay # <<>> => clock < delay.since + MaxSlip
  /\ UNCHANGED <<tick, loopVars>>

\* One round of `while let Some(activator) = scheduler.realtime.next()`.
\* Queued entries carry an id, for the heap may hold several for one instant.
TriggerNext ==
  /\ Working
  /\ \E e \in RealtimeNext(queue, clock) :
       /\ queue' = queue \ {e}
       /\ IF e.event = "Tick" THEN commands' = commands + 1 /\ UNCHANGED active
                              ELSE active' = TRUE /\ UNCHANGED commands
  /\ UNCHANGED <<tick, clock, ticked, requested, reader, emitted, delay, parked>>

FreshId == CHOOSE i \in 0 .. Cardinality(queue) : \A e \in queue : e.id # i

Enqueued(at, event) == queue \cup {[at |-> at, event |-> event, id |-> FreshId]}

\* A client sends a Tick to some worker, whose sequencer passes it on; the
\* message wakes up a worker that is parked.
ClientTick ==
  /\ requested < ClientTicks[tick]
  /\ requested' = requested + 1 /\ commands' = commands + 1 /\ parked' = <<>>
  /\ UNCHANGED <<tick, clock, queue, ticked, reader, active, emitted, delay>>

\* Faulty variant: the first tick is the last.
HandleTickOnce ==
  /\ Working /\ commands > 0
  /\ commands' = commands - 1
  /\ UNCHANGED queue
  /\ ticked' = Append(ticked, clock)
  /\ UNCHANGED <<tick, clock, requested, reader, active, emitted, delay, parked>>

\* Request::Tick schedules the next one.
HandleTick ==
  /\ Working /\ commands > 0
  /\ commands' = commands - 1
  /\ queue' = Enqueued(Coarsen(clock, tick), "Tick")
  /\ ticked' = Append(ticked, clock)
  /\ UNCHANGED <<tick, clock, requested, reader, active, emitted, delay, parked>>
-----------------------------------------------------------------------------
(* The CSV reader's operator. *)

\* The reader is done once it was asked for a record past the last one.
Batch(from) == IF from + Fuel <= Records THEN Fuel ELSE Records - from
ReachedEnd(from) == from + Fuel > Records

Sent(n, time) ==
  emitted \o [i \in 1 .. n |-> [record |-> reader.read + i, time |-> time, cap |-> reader.cap]]

\* Faulty variant: the next activation is forgotten.
ReadBatchUnscheduled ==
  /\ emitted' = Sent(Batch(reader.read), clock)
  /\ reader' = [read |-> reader.read + Batch(reader.read),
                done |-> ReachedEnd(reader.read), cap |-> {clock}]
  /\ UNCHANGED queue

\* Faulty variant: the capability is downgraded past the time of the next batch.
ReadBatchAhead ==
  /\ emitted' = Sent(Batch(reader.read), clock)
  /\ reader' = [read |-> reader.read + Batch(reader.read),
                done |-> ReachedEnd(reader.read), cap |-> {clock + Interval + 1}]
  /\ queue' = IF ReachedEnd(reader.read) THEN queue
              ELSE Enqueued(clock + Interval, "Activate")

\* Reads a batch at the present time; then either gives up the capabilities,
\* or downgrades them and asks to be activated again.
ReadBatch ==
  /\ emitted' = Sent(Batch(reader.read), clock)
  /\ IF ReachedEnd(reader.read)
     THEN /\ reader' = [read |-> Records, done |-> TRUE, cap |-> {}]
          /\ UNCHANGED queue
     ELSE /\ reader' = [reader EXCEPT !.read = @ + Fuel, !.cap = {clock}]
          /\ queue' = Enqueued(clock + Interval, "Activate")

StepSource ==
  /\ Working /\ active /\ active' = FALSE
  /\ IF reader.done THEN reader' = [reader EXCEPT !.cap = {}] /\ UNCHANGED <<emitted, queue>>
                    ELSE ReadBatch
  /\ UNCHANGED <<tick, clock, commands, ticked, requested, delay, parked>>
-----------------------------------------------------------------------------
(* The end of an iteration.                                                *)

\* until_next().unwrap_or(Duration::from_millis(100)).  As long as there is
\* work, step_or_park steps whatever the delay.
ComputeDelay ==
  /\ Working /\ ~ active /\ commands = 0
  /\ delay' = [wait |-> UntilNext(queue, clock, IdleDelay), since |-> clock]
  /\ UNCHANGED <<tick, clock, queue, commands, ticked, requested, reader, active, emitted, parked>>

\* worker.step_or_park(Some(delay)) parks, unless there is work by then or
\* nothing to wait for; the next iteration begins after it.
StepOrPark ==
  /\ delay # <<>>
  /\ delay' = <<>>
  /\ parked' = IF commands > 0 \/ delay.wait = 0 THEN <<>>
               ELSE [until |-> clock + delay.wait, slip |-> clock - delay.since]
  /\ UNCHANGED <<tick, clock, queue, commands, ticked, requested, reader, active, emitted>>

\* The timeout passes.
Unpark ==
  /\ ~ Awake /\ clock >= parked.until
  /\ parked' = <<>>
  /\ UNCHANGED <<tick, clock, queue, commands, ticked, requested, reader, active, emitted, delay>>

LoopStep == TriggerNext \/ HandleTick \/ StepSource \/ ComputeDelay \/ StepOrPark \/ Unpark

PollingNext == ClockRuns \/ ClientTick \/ LoopStep

PollingSpec == PollingInit /\ [][PollingNext]_pollingVars
-----------------------------------------------------------------------------
\* Ticks do not multiply: the loop's own chain always has exactly one tick in
\* flight, queued or sequenced ("We only want to issue ticks from a single
\* worker, to avoid redundant ticking"), and a client's Tick starts another.
OneTickInFlight ==
  commands + Cardinality({e \in queue : e.event = "Tick"}) = 1 + requested

\* Unless clients tick, no interval is ticked twice, however late ticks are
\* taken.
NoRedundantTick ==
  requested = 0 =>
    \A i, j \in DOMAIN ticked : i < j => ticked[i] \div tick < ticked[j] \div tick

\* A tick that waits is due at the first multiple of the interval after one
\* that was taken (Coarsen: "Returns a new timestamp delayed up to the next
\* multiple of the specified window size").
NextTickAligned ==
  \A e \in queue : e.event = "Tick" =>
    /\ e.at % tick = 0
    /\ \E i \in DOMAIN ticked : ticked[i] < e.at /\ e.at <= ticked[i] + tick

\* Every tick is due in a new interval of the clock.
TicksOncePerInterval == NextTickAligned /\ NoRedundantTick

\* The reader sends every record once, in order, and never at a time before
\* the capability it holds.
EveryRecordOnce ==
  /\ Len(emitted) = reader.read
  /\ \A i \in DOMAIN emitted :
       emitted[i].record = i /\ \A c \in emitted[i].cap : c <= emitted[i].time
  /\ reader.cap = {} => reader.read = Records

\* A parked loop wakes up no later than the first entry of the queue is due,
\* but for the time that passed before it parked: until_next is an amount of
\* time, which counts from the park and not from when it was computed.
NeverOversleeps ==
  ~ Awake => \A e \in queue : parked.until <= e.at + parked.slip

\* The source keeps reading, activation by activation, until it gives up its
\* capabilities at the end of the file; or else the next activation is not
\* within the bound on the clock, however late the loop parks.
SourceProgresses ==
  clock > 0 ~>
    (reader.cap = {} \/ \E e \in queue : e.event = "Activate" /\ e.at + MaxSlip > MaxClock)

TickedSince(k) == \E i \in DOMAIN ticked : ticked[i] >= k * tick

\* The loop goes on ticking: once all intervals but the last one have passed,
\* a tick is taken after them, so no late tick and no park ends the chain.
TicksRecur == clock >= (Intervals - 1) * tick ~> TickedSince(Intervals - 1)
-----------------------------------------------------------------------------
\* Duration::coarsen returns the first multiple of the window after t.
CoarsenNext ==
  \A t \in Nat, w \in Ticks :
    LET c == Coarsen(t, w) IN c \in Nat /\ c % w = 0 /\ t < c /\ c <= t + w

\* Unless clients tick, the tick in flight belongs to a later interval than
\* every tick that was taken: it is due in one, or was due in one and the
\* clock has reached it.
DueInNewInterval ==
  requested = 0 =>
    \A i \in DOMAIN ticked :
      /\ \A e \in queue : e.event = "Tick" => ticked[i] \div tick < e.at \div tick
      /\ commands > 0 => ticked[i] \div tick < clock \div tick

Entry == [at : Nat, event : {"Tick", "Activate"}, id : Nat]

\* A delay that is known but not yet used ends before any entry is due, had
\* the loop parked at once.
ParkingOK ==
  /\ delay # <<>> =>
       /\ delay \in [wait : Nat, since : Nat] /\ delay.since <= clock /\ Awake
       /\ delay.wait > 0 => \A e \in queue : delay.since + delay.wait <= e.at
  /\ ~ Awake => parked \in [until : Nat, slip : Nat]

\* The inductive strengthening of the safety properties above.
PollingInv ==
  /\ tick \in Ticks /\ clock \in Nat /\ commands \in Nat /\ requested \in Nat
  /\ IsFiniteSet(queue) /\ \A e \in queue : e \in Entry
  /\ ticked \in Seq(Nat)
  /\ reader \in [read : 0 .. Records, done : BOOLEAN, cap : SUBSET Nat]
  /\ reader.done => reader.read = Records
  /\ \A c \in reader.cap : c <= clock
  /\ emitted \in Seq([record : Nat, time : Nat, cap : SUBSET Nat])
  /\ OneTickInFlight /\ TicksOncePerInterval /\ DueInNewInterval
  /\ EveryRecordOnce /\ ParkingOK /\ NeverOversleeps
=============================================================================
