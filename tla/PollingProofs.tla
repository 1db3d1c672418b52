----------------------------- MODULE PollingProofs -----------------------------
(***************************************************************************)
(* Proofs about the timer queue, the chain of ticks, the polling source    *)
(* and the park, for every interval, file, fuel and bound.                 *)
(***************************************************************************)
EXTENDS Polling, Timestamp, FiniteSetTheorems, WellFoundedInduction, TLAPS

\* A non-empty set of natural numbers has a least element.
LEMMA LeastNatural ==
  ASSUME NEW S, S \subseteq Nat, S # {}
  PROVE  \E m \in S : \A n \in S : m <= n
<1> DEFINE R == OpToRel(<, Nat)
<1>1. IsWellFoundedOn(R, Nat)
    BY NatLessThanWellFounded, Zenon
<1> HIDE DEF R
<1>2. \E m \in S : \A n \in S : ~ (<<n, m>> \in R)
    BY <1>1, WFMin, Zenon
<1>3. PICK m \in S : \A n \in S : ~ (<<n, m>> \in R)
    BY <1>2
<1>4. ASSUME NEW n \in S PROVE m <= n
  <2>1. <<n, m>> \notin R
      BY <1>3
  <2>2. n < m => <<n, m>> \in R
      BY DEF OpToRel, R
  <2>3. QED
      BY <2>1, <2>2
<1>5. QED
    BY <1>3, <1>4

\* Dividing by the tick interval keeps the order.
LEMMA DivMonotonic ==
  ASSUME NEW w \in Nat \ {0}, NEW s \in Nat, NEW t \in Nat, s <= t
  PROVE  s \div w <= t \div w /\ s \div w \in Nat /\ t \div w \in Nat
  OBVIOUS

\* A time before a multiple of the interval is in an earlier interval.
LEMMA DivStrict ==
  ASSUME NEW w \in Nat \ {0}, NEW s \in Nat, NEW t \in Nat, s < t, t % w = 0
  PROVE  s \div w < t \div w
  OBVIOUS

\* The heap always has an entry to peek at.
LEMMA PeekedExists ==
  ASSUME NEW Q, Q # {}, \A e \in Q : e \in Entry
  PROVE  \E e \in Q : e \in Peeked(Q) /\ \A f \in Q : e.at <= f.at
<1> DEFINE S == {e.at : e \in Q}
<1>1. S \subseteq Nat /\ S # {}
    BY DEF Entry
<1>2. PICK m \in S : \A n \in S : m <= n
    BY <1>1, LeastNatural
<1>3. PICK e \in Q : e.at = m
    BY <1>2
<1>4. \A f \in Q : e.at <= f.at
    BY <1>2, <1>3
<1>5. \A f \in Q : e.at \in Nat /\ f.at \in Nat
    BY DEF Entry
<1>6. QED
    BY <1>4, <1>5 DEF Peeked

\* What is peeked at is due first.
LEMMA PeekedFirst ==
  ASSUME NEW Q, \A e \in Q : e \in Entry, NEW e \in Peeked(Q)
  PROVE  e \in Q /\ \A f \in Q : e.at <= f.at
    BY DEF Peeked

\* More indices than entries: two of them get the same entry.
LEMMA TooManyIndices ==
  ASSUME NEW Q, IsFiniteSet(Q), NEW n \in Nat, n = Cardinality(Q), NEW f \in [0 .. n -> Q]
  PROVE  \E x, y \in 0 .. n : x # y /\ f[x] = f[y]
<1> DEFINE D == 0 .. n
<1>1. IsFiniteSet(D) /\ Cardinality(D) = n + 1
    BY FS_Interval
<1>2. Cardinality(Q) < Cardinality(D) /\ f \in [D -> Q]
    BY <1>1
<1> HIDE DEF D
<1>3. \E x, y \in D : x # y /\ f[x] = f[y]
    BY <1>1, <1>2, FS_PigeonHole
<1>4. QED
    BY <1>3 DEF D

\* Two entries of the heap are never confused: a new one has an id of its own.
LEMMA FreshEntry ==
  ASSUME IsFiniteSet(queue)
  PROVE  FreshId \in Nat /\ \A e \in queue : e.id # FreshId
<1> DEFINE n == Cardinality(queue)
<1>1. n \in Nat
    BY FS_CardinalityType
<1>3. \E i \in 0 .. n : \A e \in queue : e.id # i
  <2> SUFFICES ASSUME \A i \in 0 .. n : \E e \in queue : e.id = i PROVE FALSE
      OBVIOUS
  <2> DEFINE f == [i \in 0 .. n |-> CHOOSE e \in queue : e.id = i]
  <2>1. \A i \in 0 .. n : f[i] \in queue /\ f[i].id = i
      OBVIOUS
  <2>2. f \in [0 .. n -> queue]
      BY <2>1
  <2> HIDE DEF f
  <2>4. \E x, y \in 0 .. n : x # y /\ f[x] = f[y]
      BY <1>1, <2>2, TooManyIndices
  <2>5. QED
      BY <2>1, <2>4
<1>4. FreshId \in 0 .. n /\ \A e \in queue : e.id # FreshId
    BY <1>3 DEF FreshId, n
<1>5. QED
    BY <1>1, <1>4

\* An entry of the heap that is a tick.
TickEntries(Q) == {e \in Q : e.event = "Tick"}

\* Scheduling an entry adds it to the queue, and to the ticks if it is one.
LEMMA EnqueuedEntry ==
  ASSUME IsFiniteSet(queue), \A e \in queue : e \in Entry,
         NEW at \in Nat, NEW event \in {"Tick", "Activate"}
  PROVE  LET Q == Enqueued(at, event)
         IN /\ IsFiniteSet(Q) /\ \A e \in Q : e \in Entry
            /\ \A e \in Q : e \in queue \/ (e.at = at /\ e.event = event)
            /\ Cardinality(TickEntries(Q)) =
                 Cardinality(TickEntries(queue)) + (IF event = "Tick" THEN 1 ELSE 0)
<1> DEFINE new == [at |-> at, event |-> event, id |-> FreshId]
           Q == queue \cup {new}
<1>1. FreshId \in Nat /\ new \notin queue /\ new \in Entry
    BY FreshEntry DEF Entry
<1>2. Q = Enqueued(at, event)
    BY DEF Enqueued
<1>3. new.at = at /\ new.event = event
    OBVIOUS
<1> HIDE DEF new
<1>4. IsFiniteSet(Q)
    BY FS_AddElement
<1>5. IsFiniteSet(TickEntries(queue))
  <2>1. TickEntries(queue) \in SUBSET queue
      BY DEF TickEntries
  <2>2. QED
      BY <2>1, FS_Subset
<1>9. /\ \A e \in Q : e \in Entry
      /\ \A e \in Q : e \in queue \/ (e.at = at /\ e.event = event)
    BY <1>1, <1>3
<1>6. CASE event = "Tick"
  <2>1. TickEntries(Q) = TickEntries(queue) \cup {new} /\ new \notin TickEntries(queue)
      BY <1>1, <1>3, <1>6 DEF TickEntries
  <2>2. Cardinality(TickEntries(queue) \cup {new}) = Cardinality(TickEntries(queue)) + 1
      BY <1>5, <2>1, FS_AddElement
  <2>3. QED
      BY <1>2, <1>4, <1>6, <1>9, <2>1, <2>2
<1>7. CASE event # "Tick"
  <2>1. TickEntries(Q) = TickEntries(queue)
      BY <1>1, <1>3, <1>7 DEF TickEntries
  <2>2. Cardinality(TickEntries(queue)) \in Nat
      BY <1>5, FS_CardinalityType
  <2>3. Cardinality(TickEntries(Q)) = Cardinality(TickEntries(queue)) + 0
      BY <2>1, <2>2
  <2> HIDE DEF Q
  <2>4. QED
      BY <1>2, <1>4, <1>7, <1>9, <2>3
<1>8. QED
    BY <1>6, <1>7

\* Triggering an entry takes it off the queue, and off the ticks if it is one.
LEMMA TriggeredEntry ==
  ASSUME IsFiniteSet(queue), NEW e \in queue
  PROVE  /\ IsFiniteSet(queue \ {e})
         /\ Cardinality(TickEntries(queue \ {e})) =
              Cardinality(TickEntries(queue)) - (IF e.event = "Tick" THEN 1 ELSE 0)
<1>1. IsFiniteSet(queue \ {e})
    BY FS_RemoveElement
<1>2. IsFiniteSet(TickEntries(queue))
  <2>1. TickEntries(queue) \in SUBSET queue
      BY DEF TickEntries
  <2>2. QED
      BY <2>1, FS_Subset
<1>3. CASE e.event = "Tick"
  <2>1. TickEntries(queue \ {e}) = TickEntries(queue) \ {e} /\ e \in TickEntries(queue)
      BY <1>3 DEF TickEntries
  <2>2. Cardinality(TickEntries(queue) \ {e}) = Cardinality(TickEntries(queue)) - 1
      BY <1>2, <2>1, FS_RemoveElement
  <2>3. QED
      BY <1>1, <1>3, <2>1, <2>2
<1>4. CASE e.event # "Tick"
  <2>1. TickEntries(queue \ {e}) = TickEntries(queue)
      BY <1>4 DEF TickEntries
  <2>2. Cardinality(TickEntries(queue)) \in Nat
      BY <1>2, FS_CardinalityType
  <2>3. QED
      BY <1>1, <1>4, <2>1, <2>2
<1>5. QED
    BY <1>3, <1>4

\* While a tick is sequenced, and clients have not asked for any, none is
\* queued.
LEMMA SequencedAlone ==
  ASSUME PollingInv, requested = 0, commands > 0
  PROVE  TickEntries(queue) = {} /\ commands = 1
<1>1. /\ commands \in Nat /\ IsFiniteSet(queue)
      /\ commands + Cardinality(TickEntries(queue)) = 1 + requested
    BY DEF PollingInv, OneTickInFlight, TickEntries
<1>2. IsFiniteSet(TickEntries(queue))
  <2>1. TickEntries(queue) \in SUBSET queue
      BY DEF TickEntries
  <2>2. QED
      BY <1>1, <2>1, FS_Subset
<1>3. Cardinality(TickEntries(queue)) \in Nat
    BY <1>2, FS_CardinalityType
<1>4. Cardinality(TickEntries(queue)) = 0 /\ commands = 1
    BY <1>1, <1>3
<1>5. QED
    BY <1>2, <1>4, FS_EmptySet
-----------------------------------------------------------------------------
\* What a step that leaves the reader and the park alone has to show.
LEMMA TimerStep ==
  ASSUME PollingInv, UNCHANGED <<tick, reader, emitted>>,
         clock' \in Nat, clock <= clock', commands' \in Nat, requested' \in Nat,
         IsFiniteSet(queue'), \A e \in queue' : e \in Entry, ticked' \in Seq(Nat),
         OneTickInFlight', NextTickAligned', NoRedundantTick', DueInNewInterval',
         ParkingOK', NeverOversleeps'
  PROVE  PollingInv'
<1>1. /\ tick \in Ticks /\ clock \in Nat
      /\ reader \in [read : 0 .. Records, done : BOOLEAN, cap : SUBSET Nat]
      /\ reader.done => reader.read = Records
      /\ \A c \in reader.cap : c <= clock
      /\ emitted \in Seq([record : Nat, time : Nat, cap : SUBSET Nat])
      /\ EveryRecordOnce
    BY DEF PollingInv
<1>2. EveryRecordOnce'
    BY <1>1 DEF EveryRecordOnce
<1>3. \A c \in reader.cap : c <= clock'
    BY <1>1
<1>4. QED
    BY <1>1, <1>2, <1>3 DEF PollingInv, TicksOncePerInterval

\* As long as the loop works, it has no delay and is not parked.
LEMMA StillWorking ==
  ASSUME Working, UNCHANGED <<delay, parked>>
  PROVE  ParkingOK' /\ NeverOversleeps' /\ Awake'
    BY DEF Working, Awake, ParkingOK, NeverOversleeps

\* The clock runs.
LEMMA ClockInv == PollingInv /\ ClockRuns => PollingInv'
<1> SUFFICES ASSUME PollingInv, ClockRuns PROVE PollingInv'
    OBVIOUS
<1>1. /\ clock' = clock + 1
      /\ UNCHANGED <<tick, queue, commands, ticked, requested, reader, active, emitted, delay, parked>>
    BY DEF ClockRuns, loopVars
<1>2. /\ tick \in Ticks /\ clock \in Nat /\ commands \in Nat /\ requested \in Nat
      /\ IsFiniteSet(queue) /\ \A e \in queue : e \in Entry
      /\ ticked \in Seq(Nat)
      /\ OneTickInFlight /\ NextTickAligned /\ NoRedundantTick /\ DueInNewInterval
    BY DEF PollingInv, TicksOncePerInterval
<1>3. tick \in Nat \ {0}
    BY <1>2, PollingAssumption
<1>4. OneTickInFlight' /\ NextTickAligned' /\ NoRedundantTick'
    BY <1>1, <1>2 DEF OneTickInFlight, NextTickAligned, NoRedundantTick
<1>5. clock \div tick <= clock' \div tick /\ clock \div tick \in Nat /\ clock' \div tick \in Nat
  <2>1. clock' \in Nat /\ clock <= clock'
      BY <1>1, <1>2
  <2>2. QED
      BY <1>2, <1>3, <2>1, DivMonotonic
<1>6. \A i \in DOMAIN ticked : ticked[i] \div tick \in Nat
    BY <1>2, <1>3, DivMonotonic, SMTT(30)
<1>7. DueInNewInterval'
  <2> SUFFICES ASSUME requested = 0, NEW i \in DOMAIN ticked
               PROVE  /\ \A e \in queue : e.event = "Tick" => ticked[i] \div tick < e.at \div tick
                      /\ commands > 0 => ticked[i] \div tick < clock' \div tick
      BY <1>1 DEF DueInNewInterval
  <2>1. /\ \A e \in queue : e.event = "Tick" => ticked[i] \div tick < e.at \div tick
        /\ commands > 0 => ticked[i] \div tick < clock \div tick
      BY <1>2 DEF DueInNewInterval
  <2>2. QED
      BY <1>5, <1>6, <2>1
<1>8. ParkingOK' /\ NeverOversleeps'
    BY <1>1, <1>2 DEF PollingInv, ParkingOK, NeverOversleeps, Awake
<1>9. QED
    BY <1>1, <1>2, <1>4, <1>7, <1>8, TimerStep

\* A client's tick.
LEMMA ClientTickInv == PollingInv /\ ClientTick => PollingInv'
<1> SUFFICES ASSUME PollingInv, ClientTick PROVE PollingInv'
    OBVIOUS
<1>1. /\ requested' = requested + 1 /\ commands' = commands + 1 /\ parked' = <<>>
      /\ UNCHANGED <<tick, clock, queue, ticked, reader, active, emitted, delay>>
    BY DEF ClientTick
<1>2. /\ clock \in Nat /\ commands \in Nat /\ requested \in Nat
      /\ IsFiniteSet(queue) /\ \A e \in queue : e \in Entry
      /\ ticked \in Seq(Nat)
      /\ OneTickInFlight /\ NextTickAligned
    BY DEF PollingInv, TicksOncePerInterval
<1>3. Cardinality(TickEntries(queue)) \in Nat
  <2>1. TickEntries(queue) \in SUBSET queue
      BY DEF TickEntries
  <2>2. QED
      BY <1>2, <2>1, FS_Subset, FS_CardinalityType
<1>4. OneTickInFlight'
    BY <1>1, <1>2, <1>3 DEF OneTickInFlight, TickEntries
<1>5. NextTickAligned'
    BY <1>1, <1>2 DEF NextTickAligned
<1>6. requested' # 0
    BY <1>1, <1>2
<1>7. NoRedundantTick' /\ DueInNewInterval'
    BY <1>6 DEF NoRedundantTick, DueInNewInterval
<1>8. ParkingOK' /\ NeverOversleeps'
    BY <1>1 DEF PollingInv, ParkingOK, NeverOversleeps, Awake
<1>9. QED
    BY <1>1, <1>2, <1>4, <1>5, <1>7, <1>8, TimerStep

\* An entry of the queue is triggered.
LEMMA TriggerInv == ASSUME PollingInv, TriggerNext PROVE PollingInv'
<1>1. PICK e \in RealtimeNext(queue, clock) :
        /\ queue' = queue \ {e}
        /\ IF e.event = "Tick" THEN commands' = commands + 1 /\ UNCHANGED active
                               ELSE active' = TRUE /\ UNCHANGED commands
    BY DEF TriggerNext
<1>2. Working /\ UNCHANGED <<tick, clock, ticked, requested, reader, emitted, delay, parked>>
    BY DEF TriggerNext
<1>3. /\ tick \in Ticks /\ clock \in Nat /\ commands \in Nat /\ requested \in Nat
      /\ IsFiniteSet(queue) /\ \A f \in queue : f \in Entry
      /\ ticked \in Seq(Nat)
      /\ OneTickInFlight /\ NextTickAligned /\ NoRedundantTick /\ DueInNewInterval
    BY DEF PollingInv, TicksOncePerInterval
<1>4. e \in queue /\ e.at <= clock /\ e.at \in Nat
    BY <1>1, <1>3 DEF RealtimeNext, Peeked, RealtimeReady, Entry
<1>5. tick \in Nat \ {0}
    BY <1>3, PollingAssumption
<1>6. IsFiniteSet(queue') /\ queue' \subseteq queue /\ commands' \in Nat
    BY <1>1, <1>3, <1>4, TriggeredEntry
<1>7. OneTickInFlight'
  <2>1. Cardinality(TickEntries(queue)) \in Nat
    <3>1. TickEntries(queue) \in SUBSET queue
        BY DEF TickEntries
    <3>2. QED
        BY <1>3, <3>1, FS_Subset, FS_CardinalityType
  <2>2. Cardinality(TickEntries(queue')) =
          Cardinality(TickEntries(queue)) - (IF e.event = "Tick" THEN 1 ELSE 0)
      BY <1>1, <1>3, <1>4, TriggeredEntry
  <2>3. commands + Cardinality(TickEntries(queue)) = 1 + requested
      BY <1>3 DEF OneTickInFlight, TickEntries
  <2>4. commands' + Cardinality(TickEntries(queue')) = 1 + requested
      BY <1>1, <1>3, <2>1, <2>2, <2>3
  <2>5. QED
      BY <1>2, <2>4 DEF OneTickInFlight, TickEntries
<1>8. NextTickAligned' /\ NoRedundantTick'
    BY <1>2, <1>3, <1>6 DEF NextTickAligned, NoRedundantTick
<1>9. DueInNewInterval'
  <2> SUFFICES ASSUME requested = 0, NEW i \in DOMAIN ticked
               PROVE  /\ \A f \in queue' : f.event = "Tick" => ticked[i] \div tick < f.at \div tick
                      /\ commands' > 0 => ticked[i] \div tick < clock \div tick
      BY <1>2 DEF DueInNewInterval
  <2>1. /\ \A f \in queue : f.event = "Tick" => ticked[i] \div tick < f.at \div tick
        /\ commands > 0 => ticked[i] \div tick < clock \div tick
      BY <1>3 DEF DueInNewInterval
  <2>2. /\ e.at \div tick <= clock \div tick /\ e.at \div tick \in Nat
        /\ clock \div tick \in Nat /\ ticked[i] \div tick \in Nat
    <3>1. ticked[i] \in Nat /\ ticked[i] <= ticked[i]
        BY <1>3
    <3>2. ticked[i] \div tick \in Nat
        BY <1>5, <3>1, DivMonotonic
    <3>3. QED
        BY <1>3, <1>4, <1>5, <3>2, DivMonotonic
  <2>3. CASE e.event = "Tick"
      BY <1>4, <1>6, <2>1, <2>2, <2>3
  <2>4. CASE e.event # "Tick"
      BY <1>1, <1>6, <2>1, <2>4
  <2>5. QED
      BY <2>3, <2>4
<1>10. ParkingOK' /\ NeverOversleeps'
    BY <1>2, StillWorking
<1>11. QED
    BY <1>2, <1>3, <1>6, <1>7, <1>8, <1>9, <1>10, TimerStep

\* A tick is taken, and the next one scheduled.
LEMMA HandleTickInv == ASSUME CoarsenNext, PollingInv, HandleTick PROVE PollingInv'
<1> DEFINE at == Coarsen(clock, tick)
<1>1. /\ Working /\ commands > 0 /\ commands' = commands - 1
      /\ queue' = Enqueued(at, "Tick") /\ ticked' = Append(ticked, clock)
      /\ UNCHANGED <<tick, clock, requested, reader, active, emitted, delay, parked>>
    BY DEF HandleTick
<1>2. /\ tick \in Ticks /\ clock \in Nat /\ commands \in Nat /\ requested \in Nat
      /\ IsFiniteSet(queue) /\ \A f \in queue : f \in Entry
      /\ ticked \in Seq(Nat)
      /\ OneTickInFlight /\ NextTickAligned /\ NoRedundantTick /\ DueInNewInterval
    BY DEF PollingInv, TicksOncePerInterval
<1>3. tick \in Nat \ {0}
    BY <1>2, PollingAssumption
<1>4. at \in Nat /\ at % tick = 0 /\ clock < at /\ at <= clock + tick
    BY <1>2 DEF CoarsenNext
<1> HIDE DEF at
<1>5. /\ IsFiniteSet(queue') /\ \A e \in queue' : e \in Entry
      /\ \A e \in queue' : e \in queue \/ (e.at = at /\ e.event = "Tick")
      /\ Cardinality(TickEntries(queue')) = Cardinality(TickEntries(queue)) + 1
    BY <1>1, <1>2, <1>4, EnqueuedEntry
<1>6. /\ ticked' \in Seq(Nat) /\ Len(ticked') = Len(ticked) + 1
      /\ DOMAIN ticked' = 1 .. Len(ticked) + 1 /\ DOMAIN ticked = 1 .. Len(ticked)
      /\ Len(ticked) \in Nat
      /\ ticked'[Len(ticked) + 1] = clock
      /\ \A i \in DOMAIN ticked : i \in DOMAIN ticked' /\ ticked'[i] = ticked[i]
    BY <1>1, <1>2
<1>7. OneTickInFlight'
  <2>1. Cardinality(TickEntries(queue)) \in Nat
    <3>1. TickEntries(queue) \in SUBSET queue
        BY DEF TickEntries
    <3>2. QED
        BY <1>2, <3>1, FS_Subset, FS_CardinalityType
  <2>2. commands + Cardinality(TickEntries(queue)) = 1 + requested
      BY <1>2 DEF OneTickInFlight, TickEntries
  <2>3. commands' + Cardinality(TickEntries(queue')) = 1 + requested
      BY <1>1, <1>2, <1>5, <2>1, <2>2
  <2>4. QED
      BY <1>1, <2>3 DEF OneTickInFlight, TickEntries
<1>8. NextTickAligned'
  <2> SUFFICES ASSUME NEW e \in queue', e.event = "Tick"
               PROVE  /\ e.at % tick = 0
                      /\ \E i \in DOMAIN ticked' : ticked'[i] < e.at /\ e.at <= ticked'[i] + tick
      BY <1>1 DEF NextTickAligned
  <2>1. CASE e \in queue
      BY <1>2, <1>6, <2>1 DEF NextTickAligned
  <2>2. CASE e.at = at
    <3>1. Len(ticked) + 1 \in DOMAIN ticked'
        BY <1>6
    <3>2. QED
        BY <1>4, <1>6, <2>2, <3>1
  <2>3. QED
      BY <1>5, <2>1, <2>2
<1>9. ASSUME requested = 0
      PROVE  /\ \A i \in DOMAIN ticked : ticked[i] \div tick < clock \div tick
             /\ TickEntries(queue) = {} /\ commands = 1
    BY <1>1, <1>2, <1>9, SequencedAlone DEF DueInNewInterval
<1>10. NoRedundantTick'
  <2> SUFFICES ASSUME requested = 0, NEW i \in DOMAIN ticked', NEW j \in DOMAIN ticked', i < j
               PROVE  ticked'[i] \div tick < ticked'[j] \div tick
      BY <1>1 DEF NoRedundantTick
  <2>1. i \in DOMAIN ticked
      BY <1>6
  <2>2. CASE j \in DOMAIN ticked
      BY <1>2, <1>6, <2>1, <2>2 DEF NoRedundantTick
  <2>3. CASE j = Len(ticked) + 1
      BY <1>6, <1>9, <2>1, <2>3
  <2>4. QED
      BY <1>6, <2>2, <2>3
<1>11. DueInNewInterval'
  <2> SUFFICES ASSUME requested = 0, NEW i \in DOMAIN ticked', NEW e \in queue', e.event = "Tick"
               PROVE  ticked'[i] \div tick < e.at \div tick
    <3>1. requested = 0 => ~ (commands' > 0)
        BY <1>1, <1>2, <1>9
    <3>2. QED
        BY <1>1, <3>1 DEF DueInNewInterval
  <2>1. e.at = at
    <3>1. e \notin queue
        BY <1>9 DEF TickEntries
    <3>2. QED
        BY <1>5, <3>1
  <2>2. clock \div tick < at \div tick
      BY <1>2, <1>3, <1>4, DivStrict
  <2>3. CASE i = Len(ticked) + 1
      BY <1>6, <2>1, <2>2, <2>3
  <2>4. CASE i \in DOMAIN ticked
    <3>1. ticked[i] \in Nat /\ ticked[i] <= ticked[i] /\ at <= at /\ clock <= clock
        BY <1>2, <1>4, <2>4
    <3>2. ticked[i] \div tick \in Nat /\ clock \div tick \in Nat /\ at \div tick \in Nat
        BY <1>2, <1>3, <1>4, <3>1, DivMonotonic
    <3>3. ticked[i] \div tick < clock \div tick /\ ticked'[i] = ticked[i]
        BY <1>6, <1>9, <2>4
    <3>4. QED
        BY <2>1, <2>2, <3>2, <3>3
  <2>5. QED
      BY <1>6, <2>3, <2>4
<1>12. commands' \in Nat
    BY <1>1, <1>2
<1>13. ParkingOK' /\ NeverOversleeps'
    BY <1>1, StillWorking
<1>14. QED
    BY <1>1, <1>2, <1>5, <1>6, <1>7, <1>8, <1>10, <1>11, <1>12, <1>13, TimerStep
-----------------------------------------------------------------------------
\* What the concatenation of two sequences holds, index by index.
LEMMA Concatenation ==
  ASSUME NEW S, NEW a \in Seq(S), NEW b \in Seq(S)
  PROVE  /\ a \o b \in Seq(S) /\ Len(a \o b) = Len(a) + Len(b)
         /\ DOMAIN (a \o b) = 1 .. Len(a) + Len(b) /\ DOMAIN a = 1 .. Len(a)
         /\ \A i \in 1 .. Len(a) : (a \o b)[i] = a[i]
         /\ \A i \in Len(a) + 1 .. Len(a) + Len(b) : (a \o b)[i] = b[i - Len(a)]
<1>1. a \o b \in Seq(S) /\ Len(a \o b) = Len(a) + Len(b)
    OBVIOUS
<1>2. DOMAIN (a \o b) = 1 .. Len(a) + Len(b) /\ DOMAIN a = 1 .. Len(a)
    BY <1>1
<1>3. \A i \in 1 .. Len(a) : (a \o b)[i] = a[i]
    OBVIOUS
<1>4. \A i \in Len(a) + 1 .. Len(a) + Len(b) : (a \o b)[i] = b[i - Len(a)]
    OBVIOUS
<1>5. QED
    BY <1>1, <1>2, <1>3, <1>4

\* A batch of n records, from the one after the last that was read.
LEMMA SentBatch ==
  ASSUME PollingInv, NEW n \in Nat
  PROVE  LET sent == Sent(n, clock)
         IN /\ sent \in Seq([record : Nat, time : Nat, cap : SUBSET Nat])
            /\ Len(sent) = reader.read + n
            /\ \A i \in DOMAIN sent :
                 sent[i].record = i /\ \A c \in sent[i].cap : c <= sent[i].time
<1> DEFINE Row == [record : Nat, time : Nat, cap : SUBSET Nat]
           more == [i \in 1 .. n |->
                      [record |-> reader.read + i, time |-> clock, cap |-> reader.cap]]
           sent == emitted \o more
           k == Len(emitted)
<1>1. /\ clock \in Nat /\ reader.read \in Nat /\ reader.cap \in SUBSET Nat
      /\ emitted \in Seq(Row) /\ k = reader.read /\ k \in Nat
      /\ \A c \in reader.cap : c <= clock
      /\ \A i \in DOMAIN emitted :
           emitted[i].record = i /\ \A c \in emitted[i].cap : c <= emitted[i].time
  <2>1. reader.read \in 0 .. Records /\ reader.cap \in SUBSET Nat
      BY DEF PollingInv
  <2>2. QED
      BY <2>1, PollingAssumption DEF PollingInv, EveryRecordOnce
<1>2. /\ \A i \in 1 .. n : more[i] \in Row
      /\ more \in Seq(Row) /\ Len(more) = n
  <2>1. \A i \in 1 .. n : more[i] \in Row
      BY <1>1
  <2>2. more \in [1 .. n -> Row]
      BY <2>1
  <2>3. QED
      BY <2>1, <2>2
<1>3. \A i \in 1 .. n : more[i].record = k + i /\ more[i].time = clock /\ more[i].cap = reader.cap
    BY <1>1
<1> HIDE DEF more, Row, k
<1>4. /\ sent \in Seq(Row) /\ Len(sent) = k + n
      /\ DOMAIN sent = 1 .. k + n /\ DOMAIN emitted = 1 .. k
      /\ \A i \in 1 .. k : sent[i] = emitted[i]
      /\ \A i \in k + 1 .. k + n : sent[i] = more[i - k]
  <2>1. emitted \in Seq(Row) /\ more \in Seq(Row) /\ Len(more) = n /\ Len(emitted) = k
      BY <1>1, <1>2 DEF k
  <2> HIDE DEF sent
  <2>2. /\ sent \in Seq(Row) /\ Len(sent) = Len(emitted) + Len(more)
        /\ DOMAIN sent = 1 .. Len(emitted) + Len(more) /\ DOMAIN emitted = 1 .. Len(emitted)
        /\ \A i \in 1 .. Len(emitted) : sent[i] = emitted[i]
        /\ \A i \in Len(emitted) + 1 .. Len(emitted) + Len(more) : sent[i] = more[i - Len(emitted)]
      BY <2>1, Concatenation, Zenon DEF sent
  <2>3. QED
      BY <2>1, <2>2, Zenon
<1>5. ASSUME NEW i \in DOMAIN sent
      PROVE  sent[i].record = i /\ \A c \in sent[i].cap : c <= sent[i].time
  <2>1. CASE i \in 1 .. k
      BY <1>1, <1>4, <2>1
  <2>2. CASE i \in k + 1 .. k + n
    <3>1. i - k \in 1 .. n /\ k + (i - k) = i
        BY <1>1, <2>2
    <3>2. sent[i] = more[i - k]
        BY <1>4, <2>2
    <3>3. more[i - k].record = i /\ more[i - k].time = clock /\ more[i - k].cap = reader.cap
        BY <1>3, <3>1
    <3> HIDE DEF sent
    <3>4. QED
        BY <1>1, <3>2, <3>3
  <2>3. QED
      BY <1>1, <1>4, <2>1, <2>2
<1>6. sent = Sent(n, clock)
    BY DEF Sent, more
<1>7. QED
    BY <1>1, <1>4, <1>5, <1>6 DEF Row

\* The source asks to be activated again, or does not.
LEMMA SourceQueue ==
  ASSUME PollingInv, NEW at \in Nat,
         queue' = queue \/ queue' = Enqueued(at, "Activate"),
         UNCHANGED <<tick, clock, commands, ticked, requested>>
  PROVE  /\ IsFiniteSet(queue') /\ \A e \in queue' : e \in Entry
         /\ OneTickInFlight' /\ TicksOncePerInterval' /\ DueInNewInterval'
<1>1. /\ IsFiniteSet(queue) /\ \A e \in queue : e \in Entry
      /\ OneTickInFlight /\ NextTickAligned /\ NoRedundantTick /\ DueInNewInterval
    BY DEF PollingInv, TicksOncePerInterval
<1>2. Cardinality(TickEntries(queue)) \in Nat
  <2>1. TickEntries(queue) \in SUBSET queue
      BY DEF TickEntries
  <2>2. QED
      BY <1>1, <2>1, FS_Subset, FS_CardinalityType
<1>3. /\ IsFiniteSet(queue') /\ \A e \in queue' : e \in Entry
      /\ \A e \in queue' : e \in queue \/ e.event = "Activate"
      /\ Cardinality(TickEntries(queue')) = Cardinality(TickEntries(queue))
  <2>1. CASE queue' = queue
      BY <1>1, <2>1
  <2>2. CASE queue' = Enqueued(at, "Activate")
    <3>1. /\ IsFiniteSet(queue') /\ \A e \in queue' : e \in Entry
          /\ \A e \in queue' : e \in queue \/ (e.at = at /\ e.event = "Activate")
          /\ Cardinality(TickEntries(queue')) =
               Cardinality(TickEntries(queue)) + (IF "Activate" = "Tick" THEN 1 ELSE 0)
        BY <1>1, <2>2, EnqueuedEntry
    <3>2. (IF "Activate" = "Tick" THEN 1 ELSE 0) = 0
        OBVIOUS
    <3>3. Cardinality(TickEntries(queue')) = Cardinality(TickEntries(queue)) + 0
        BY <3>1, <3>2
    <3>4. Cardinality(TickEntries(queue')) = Cardinality(TickEntries(queue))
        BY <1>2, <3>3
    <3>5. QED
        BY <3>1, <3>4
  <2>3. QED
      BY <2>1, <2>2
<1>4. \A e \in queue' : e.event = "Tick" => e \in queue
    BY <1>3
<1>5. OneTickInFlight'
    BY <1>1, <1>3 DEF OneTickInFlight, TickEntries
<1>6. NextTickAligned'
    BY <1>1, <1>4 DEF NextTickAligned
<1>7. NoRedundantTick' /\ DueInNewInterval'
    BY <1>1, <1>4 DEF NoRedundantTick, DueInNewInterval
<1>8. QED
    BY <1>3, <1>5, <1>6, <1>7 DEF TicksOncePerInterval

\* The source reads a batch, or finds out that it is done.
LEMMA StepSourceInv == PollingInv /\ StepSource => PollingInv'
<1> SUFFICES ASSUME PollingInv, StepSource PROVE PollingInv'
    OBVIOUS
<1> DEFINE Reader == [read : 0 .. Records, done : BOOLEAN, cap : SUBSET Nat]
           Rows == Seq([record : Nat, time : Nat, cap : SUBSET Nat])
<1>1. Working /\ UNCHANGED <<tick, clock, commands, ticked, requested, delay, parked>>
    BY DEF StepSource
<1>2. /\ tick \in Ticks /\ clock \in Nat /\ commands \in Nat /\ requested \in Nat
      /\ ticked \in Seq(Nat) /\ reader \in Reader
      /\ reader.done => reader.read = Records
      /\ \A c \in reader.cap : c <= clock
      /\ emitted \in Rows /\ EveryRecordOnce
    BY DEF PollingInv
<1>3. Records \in Nat /\ Fuel \in Nat \ {0} /\ Interval \in Nat
    BY PollingAssumption
<1>4. reader.read \in 0 .. Records
    BY <1>2
<1>5. \/ queue' = queue \/ queue' = Enqueued(clock + Interval, "Activate")
    BY DEF StepSource, ReadBatch
<1>6. /\ IsFiniteSet(queue') /\ \A e \in queue' : e \in Entry
      /\ OneTickInFlight' /\ TicksOncePerInterval' /\ DueInNewInterval'
  <2>1. clock + Interval \in Nat
      BY <1>2, <1>3
  <2>2. QED
      BY <1>1, <1>5, <2>1, SourceQueue
<1>7. ParkingOK' /\ NeverOversleeps'
    BY <1>1, StillWorking
<1>8. /\ reader' \in Reader /\ (reader'.done => reader'.read = Records)
      /\ \A c \in reader'.cap : c <= clock
      /\ emitted' \in Rows /\ EveryRecordOnce'
  <2>1. CASE reader.done
    <3>1. reader' = [reader EXCEPT !.cap = {}] /\ emitted' = emitted
        BY <2>1 DEF StepSource
    <3>2. reader' \in Reader /\ reader'.read = Records /\ reader'.cap = {} /\ reader.read = Records
        BY <1>2, <2>1, <3>1
    <3>3. EveryRecordOnce'
        BY <1>2, <3>1, <3>2 DEF EveryRecordOnce
    <3>4. QED
        BY <1>2, <3>1, <3>2, <3>3
  <2>2. CASE ~ reader.done /\ ReachedEnd(reader.read)
    <3>1. /\ reader' = [read |-> Records, done |-> TRUE, cap |-> {}]
          /\ emitted' = Sent(Batch(reader.read), clock)
        BY <2>2 DEF StepSource, ReadBatch
    <3>2. Batch(reader.read) = Records - reader.read /\ Batch(reader.read) \in Nat
          /\ reader.read + Batch(reader.read) = Records
        BY <1>3, <1>4, <2>2 DEF Batch, ReachedEnd
    <3>3. /\ emitted' \in Rows /\ Len(emitted') = Records
          /\ \A i \in DOMAIN emitted' :
               emitted'[i].record = i /\ \A c \in emitted'[i].cap : c <= emitted'[i].time
        BY <3>1, <3>2, SentBatch
    <3>4. /\ reader' \in Reader /\ reader'.read = Records /\ reader'.cap = {}
        BY <1>3, <3>1
    <3>5. QED
        BY <3>3, <3>4 DEF EveryRecordOnce
  <2>3. CASE ~ reader.done /\ ~ ReachedEnd(reader.read)
    <3>1. /\ reader' = [reader EXCEPT !.read = @ + Fuel, !.cap = {clock}]
          /\ emitted' = Sent(Batch(reader.read), clock)
        BY <2>3 DEF StepSource, ReadBatch
    <3>2. /\ Batch(reader.read) = Fuel /\ Batch(reader.read) \in Nat
          /\ reader.read + Fuel \in 0 .. Records
        BY <1>3, <1>4, <2>3 DEF Batch, ReachedEnd
    <3>3. /\ emitted' \in Rows /\ Len(emitted') = reader.read + Fuel
          /\ \A i \in DOMAIN emitted' :
               emitted'[i].record = i /\ \A c \in emitted'[i].cap : c <= emitted'[i].time
        BY <3>1, <3>2, SentBatch
    <3>4. /\ reader' \in Reader /\ reader'.read = reader.read + Fuel /\ reader'.cap = {clock}
          /\ reader'.done = reader.done
        BY <1>2, <3>1, <3>2
    <3>5. QED
        BY <1>2, <2>3, <3>3, <3>4 DEF EveryRecordOnce
  <2>4. QED
      BY <2>1, <2>2, <2>3
<1>9. QED
    BY <1>1, <1>2, <1>6, <1>7, <1>8 DEF PollingInv

\* The loop parks until the head of the queue is due.
LEMMA ParkUntil ==
  ASSUME PollingInv
  PROVE  LET d == UntilNext(queue, clock, IdleDelay)
         IN d \in Nat /\ \A e \in queue : clock + d <= e.at \/ d = 0
<1>1. clock \in Nat /\ IdleDelay \in Nat /\ \A e \in queue : e \in Entry
    BY PollingAssumption DEF PollingInv
<1>2. CASE queue = {}
    BY <1>1, <1>2 DEF UntilNext
<1>3. CASE queue # {}
  <2> DEFINE h == CHOOSE e \in Peeked(queue) : TRUE
  <2>1. h \in Peeked(queue)
      BY <1>1, <1>3, PeekedExists
  <2>2. UntilNext(queue, clock, IdleDelay) = IF h.at > clock THEN h.at - clock ELSE 0
      BY <1>3 DEF UntilNext
  <2> HIDE DEF h
  <2>3. h \in queue /\ \A e \in queue : h.at <= e.at
      BY <1>1, <2>1, PeekedFirst
  <2>4. h.at \in Nat /\ \A e \in queue : e.at \in Nat
      BY <1>1, <2>3 DEF Entry
  <2>5. CASE h.at > clock
      BY <1>1, <2>2, <2>3, <2>4, <2>5
  <2>6. CASE ~ (h.at > clock)
      BY <2>2, <2>6
  <2>7. QED
      BY <2>5, <2>6
<1>4. QED
    BY <1>2, <1>3

\* The end of an iteration changes nothing but the delay and the park.
LEMMA ParkInv ==
  ASSUME PollingInv, ComputeDelay \/ StepOrPark \/ Unpark
  PROVE  PollingInv'
<1>1. UNCHANGED <<tick, clock, queue, commands, ticked, requested, reader, emitted>>
    BY DEF ComputeDelay, StepOrPark, Unpark
<1>2. OneTickInFlight' /\ NextTickAligned' /\ NoRedundantTick' /\ DueInNewInterval'
  <2>1. OneTickInFlight'
      BY <1>1 DEF PollingInv, OneTickInFlight
  <2>2. NextTickAligned' /\ NoRedundantTick' /\ DueInNewInterval'
      BY <1>1 DEF PollingInv, TicksOncePerInterval, NextTickAligned, NoRedundantTick,
                  DueInNewInterval
  <2>3. QED
      BY <2>1, <2>2
<1>3. clock \in Nat /\ \A e \in queue : e.at \in Nat
    BY DEF PollingInv, Entry
<1>4. CASE Unpark
  <2>1. ParkingOK' /\ NeverOversleeps'
      BY <1>1, <1>4 DEF Unpark, PollingInv, ParkingOK, NeverOversleeps, Awake
  <2>2. QED
      BY <1>1, <1>2, <2>1, TimerStep DEF PollingInv
<1>5. CASE ComputeDelay
  <2> DEFINE d == UntilNext(queue, clock, IdleDelay)
  <2>1. delay' = [wait |-> d, since |-> clock] /\ Awake' /\ Awake
      BY <1>5 DEF ComputeDelay, Working, Awake
  <2>2. d \in Nat /\ \A e \in queue : clock + d <= e.at \/ d = 0
      BY ParkUntil
  <2> HIDE DEF d
  <2>3. /\ delay' \in [wait : Nat, since : Nat] /\ delay'.since <= clock'
        /\ delay'.wait > 0 => \A e \in queue' : delay'.since + delay'.wait <= e.at
      BY <1>1, <1>3, <2>1, <2>2
  <2>4. ParkingOK' /\ NeverOversleeps'
      BY <2>1, <2>3 DEF ParkingOK, NeverOversleeps
  <2>5. QED
      BY <1>1, <1>2, <2>4, TimerStep DEF PollingInv
<1>6. CASE StepOrPark
  <2>1. /\ delay # <<>> /\ delay' = <<>> /\ delay \in [wait : Nat, since : Nat]
        /\ delay.since <= clock
        /\ delay.wait > 0 => \A e \in queue : delay.since + delay.wait <= e.at
      BY <1>6 DEF StepOrPark, PollingInv, ParkingOK
  <2>2. CASE parked' = <<>>
    <3>1. ParkingOK' /\ NeverOversleeps'
        BY <2>1, <2>2 DEF ParkingOK, NeverOversleeps, Awake
    <3>2. QED
        BY <1>1, <1>2, <3>1, TimerStep DEF PollingInv
  <2>3. CASE delay.wait # 0 /\ parked' = [until |-> clock + delay.wait, slip |-> clock - delay.since]
    <3>1. delay.wait \in Nat /\ delay.since \in Nat /\ delay.wait > 0
        BY <2>1, <2>3
    <3>2. clock - delay.since \in Nat /\ clock + delay.wait \in Nat
        BY <1>3, <2>1, <3>1
    <3>3. parked'.until = clock + delay.wait /\ parked'.slip = clock - delay.since
        BY <2>3
    <3>4. parked' \in [until : Nat, slip : Nat]
        BY <2>3, <3>2
    <3>5. ASSUME NEW e \in queue PROVE clock + delay.wait <= e.at + (clock - delay.since)
      <4>1. delay.since + delay.wait <= e.at /\ e.at \in Nat
          BY <1>3, <2>1, <3>1
      <4>2. QED
          BY <1>3, <3>1, <4>1
    <3>6. ParkingOK' /\ NeverOversleeps'
        BY <1>1, <2>1, <3>3, <3>4, <3>5 DEF ParkingOK, NeverOversleeps
    <3>7. QED
        BY <1>1, <1>2, <3>6, TimerStep DEF PollingInv
  <2>4. QED
      BY <1>6, <2>2, <2>3 DEF StepOrPark
<1>7. QED
    BY <1>4, <1>5, <1>6

\* At the start the first tick is sequenced and the source activated.
LEMMA InitPollingInv == PollingInit => PollingInv
<1> SUFFICES ASSUME PollingInit PROVE PollingInv
    OBVIOUS
<1>1. /\ tick \in Ticks /\ clock = 0 /\ queue = {} /\ commands = 1 /\ ticked = <<>>
      /\ requested = 0 /\ reader = [read |-> 0, done |-> FALSE, cap |-> {0}]
      /\ emitted = <<>> /\ delay = <<>> /\ Awake
    BY DEF PollingInit, Awake
<1>2. Records \in Nat
    BY PollingAssumption
<1>3. /\ reader \in [read : 0 .. Records, done : BOOLEAN, cap : SUBSET Nat]
      /\ ~ reader.done /\ reader.cap = {0} /\ reader.read = 0
    BY <1>1, <1>2
<1>4. IsFiniteSet(queue) /\ Cardinality(queue) = 0
    BY <1>1, FS_EmptySet
<1>5. OneTickInFlight
  <2>1. {e \in queue : e.event = "Tick"} = queue
      BY <1>1
  <2>2. QED
      BY <1>1, <1>4, <2>1 DEF OneTickInFlight
<1>6. TicksOncePerInterval /\ DueInNewInterval /\ ParkingOK /\ NeverOversleeps
    BY <1>1 DEF TicksOncePerInterval, NextTickAligned, NoRedundantTick, DueInNewInterval,
                ParkingOK, NeverOversleeps
<1>7. EveryRecordOnce
    BY <1>1, <1>3 DEF EveryRecordOnce
<1>8. QED
    BY <1>1, <1>3, <1>4, <1>5, <1>6, <1>7 DEF PollingInv

\* PollingInv is inductive.
LEMMA NextPollingInv ==
  ASSUME CoarsenNext, PollingInv, [PollingNext]_pollingVars PROVE PollingInv'
<1>1. CASE UNCHANGED pollingVars
  <2>1. UNCHANGED <<tick, clock, queue, commands, ticked, requested, reader, emitted, delay, parked>>
      BY <1>1 DEF pollingVars, loopVars
  <2>2. OneTickInFlight' /\ EveryRecordOnce' /\ ParkingOK' /\ NeverOversleeps'
      BY <2>1 DEF PollingInv, OneTickInFlight, EveryRecordOnce, ParkingOK, NeverOversleeps, Awake
  <2>3. TicksOncePerInterval' /\ DueInNewInterval'
      BY <2>1 DEF PollingInv, TicksOncePerInterval, NextTickAligned, NoRedundantTick,
                  DueInNewInterval
  <2>4. QED
      BY <2>1, <2>2, <2>3 DEF PollingInv, Awake
<1>2. QED
    BY <1>1, ClockInv, TriggerInv, ClientTickInv, HandleTickInv, StepSourceInv, ParkInv
    DEF PollingNext, LoopStep

\* PollingInv holds in every state of the loop.
THEOREM PollingInvariant ==
  ASSUME CoarsenNext PROVE PollingSpec => []PollingInv
<1>1. PollingInv /\ [PollingNext]_pollingVars => PollingInv'
    BY NextPollingInv
<1>2. QED
    BY <1>1, InitPollingInv, PTL DEF PollingSpec

\* The chain of ticks neither dies nor multiplies, whatever the interval and
\* however late the loop gets to them (Request::Tick in server/src/main.rs).
THEOREM OneTickChain ==
  ASSUME CoarsenNext PROVE PollingSpec => []OneTickInFlight
<1>1. PollingInv => OneTickInFlight
    BY DEF PollingInv
<1>2. QED
    BY <1>1, PollingInvariant, PTL

\* Every tick is due at a multiple of the interval, in an interval of its own.
THEOREM TicksAligned ==
  ASSUME CoarsenNext PROVE PollingSpec => []TicksOncePerInterval
<1>1. PollingInv => TicksOncePerInterval
    BY DEF PollingInv
<1>2. QED
    BY <1>1, PollingInvariant, PTL

\* The polling reader (sources/csv_file.rs) sends every record of the file
\* once, in order and under a capability it holds, whatever its fuel.
THEOREM RecordsOnce ==
  ASSUME CoarsenNext PROVE PollingSpec => []EveryRecordOnce
<1>1. PollingInv => EveryRecordOnce
    BY DEF PollingInv
<1>2. QED
    BY <1>1, PollingInvariant, PTL

\* until_next and step_or_park: the loop is never parked past the instant of a
\* queued entry by more than the time between the two.
THEOREM ParksInTime ==
  ASSUME CoarsenNext PROVE PollingSpec => []NeverOversleeps
<1>1. PollingInv => NeverOversleeps
    BY DEF PollingInv
<1>2. QED
    BY <1>1, PollingInvariant, PTL
-----------------------------------------------------------------------------
(***************************************************************************)
(* Coarsen (timestamp/mod.rs), which the chain of ticks relies on.         *)
(***************************************************************************)

\* Products of natural numbers, as the steps below use them.
LEMMA MulFacts ==
  ASSUME NEW a \in Nat, NEW b \in Nat
  PROVE a * b \in Nat /\ a * b = b * a
  OBVIOUS

\* Multiplication is associative and distributes over addition.
LEMMA MulAssoc == ASSUME NEW a \in Nat, NEW b \in Nat, NEW c \in Nat
  PROVE a * (b * c) = (a * b) * c /\ a * (b + c) = a * b + a * c
  OBVIOUS

\* Multiplication keeps the order.
LEMMA MulOrder == ASSUME NEW a \in Nat, NEW b \in Nat, NEW c \in Nat, b <= c
  PROVE a * b <= a * c
  OBVIOUS

\* Quotient and remainder.
LEMMA DivMod ==
  ASSUME NEW n \in Nat, NEW w \in Nat \ {0}
  PROVE  n \div w \in Nat /\ n % w \in 0 .. (w - 1) /\ n = w * (n \div w) + (n % w)
  OBVIOUS

\* Division without a remainder.
LEMMA ExactDiv ==
  ASSUME NEW n \in Nat, NEW w \in Nat \ {0}, n % w = 0
  PROVE  n \div w \in Nat /\ n = w * (n \div w)
  OBVIOUS

\* A multiple leaves no remainder.
LEMMA MultipleMod ==
  ASSUME NEW k \in Nat, NEW w \in Nat \ {0}
  PROVE  (w * k) % w = 0
  OBVIOUS

\* Coarsen for u64 (timestamp/mod.rs) returns the first multiple of the window
\* after t.
LEMMA U64CoarsenAligned ==
  ASSUME NEW t \in Nat, NEW w \in Nat \ {0}
  PROVE  LET c == U64Coarsen(t, w)
         IN c \in Nat /\ c % w = 0 /\ t < c /\ c <= t + w
<1> DEFINE q == t \div w
           c == U64Coarsen(t, w)
<1>1. q \in Nat /\ w * q <= t /\ t < w * q + w
  OBVIOUS
<1>2. c = w * (q + 1)
  BY <1>1 DEF U64Coarsen
<1> HIDE DEF q, c
<1>3. c = w * q + w
  BY <1>1, <1>2
<1>4. c \in Nat
  BY <1>1, <1>2
<1>5. c % w = 0
  BY <1>1, <1>2
<1> QED
  BY <1>1, <1>3, <1>4, <1>5 DEF c

\* A Duration in nanoseconds, of which a second has NS.
AsNanos(d, NS) == d.secs * NS + d.nanos

\* Duration::new carries whole seconds without losing any time.
LEMMA DurationRoundTrip ==
  ASSUME NEW NS \in Nat \ {0}, NEW s \in Nat, NEW n \in Nat
  PROVE  AsNanos(Duration(s, n, NS), NS) = NS * s + n
<1> DEFINE q == n \div NS
           r == n % NS
<1>2. Duration(s, n, NS) = [secs |-> s + q, nanos |-> r]
  BY DEF Duration
<1>1. q \in Nat /\ r \in 0 .. (NS - 1) /\ n = NS * q + r
  BY DivMod
<1> HIDE DEF q, r
<1>3. AsNanos(Duration(s, n, NS), NS) = (s + q) * NS + r
  BY <1>2 DEF AsNanos
<1>4. q \in Nat /\ r \in Nat /\ n = NS * q + r
  BY <1>1
<1>5. (s + q) * NS = NS * s + NS * q
  BY <1>4, MulFacts, MulAssoc
<1>6. NS * s \in Nat /\ NS * q \in Nat
  BY <1>4, MulFacts
<1> QED
  BY <1>3, <1>4, <1>5, <1>6

\* Coarsen for Duration rounds seconds and nanoseconds separately; as long as
\* the window is a number of whole seconds, or a second is a multiple of it,
\* the result is again the first multiple of the window after t.
LEMMA DurationCoarsenAligned ==
  ASSUME NEW NS \in Nat \ {0}, NEW t \in Nat, NEW w \in Nat \ {0}, w % NS = 0 \/ NS % w = 0
  PROVE  LET c == AsNanos(DurationCoarsen(Duration(0, t, NS), Duration(0, w, NS), NS), NS)
         IN c \in Nat /\ c % w = 0 /\ t < c /\ c <= t + w
<1> DEFINE s == t \div NS
           n == t % NS
           ws == w \div NS
           wn == w % NS
           c == AsNanos(DurationCoarsen(Duration(0, t, NS), Duration(0, w, NS), NS), NS)
<1>1. s \in Nat /\ n \in Nat /\ n < NS /\ t = NS * s + n
  BY DivMod
<1>2. ws \in Nat /\ wn \in Nat /\ wn < NS /\ w = NS * ws + wn
  BY DivMod
<1>3. Duration(0, t, NS) = [secs |-> s, nanos |-> n] /\ Duration(0, w, NS) = [secs |-> ws, nanos |-> wn]
  BY <1>1, <1>2 DEF Duration
<1>4. c = NS * (IF ws = 0 THEN s ELSE U64Coarsen(s, ws))
            + (IF wn = 0 THEN 0 ELSE U64Coarsen(n, wn))
  <2> DEFINE S == IF ws = 0 THEN s ELSE U64Coarsen(s, ws)
             N == IF wn = 0 THEN 0 ELSE U64Coarsen(n, wn)
  <2>1. S \in Nat /\ N \in Nat
    BY <1>1, <1>2, U64CoarsenAligned
  <2>2. c = AsNanos(Duration(S, N, NS), NS)
    BY <1>3 DEF DurationCoarsen
  <2> HIDE DEF S, N
  <2>3. c = NS * S + N
    BY <2>1, <2>2, DurationRoundTrip
  <2> QED
    BY <2>3 DEF S, N
<1> HIDE DEF s, n, ws, wn, c
<1>5. CASE wn = 0
  <2>1. ws # 0 /\ w = NS * ws
    BY <1>2, <1>5
  <2> DEFINE C == U64Coarsen(s, ws)
             k == C \div ws
  <2>2. C \in Nat /\ C % ws = 0 /\ s < C /\ C <= s + ws
    BY <1>1, <1>2, <2>1, U64CoarsenAligned
  <2>3. c = NS * C
    BY <1>4, <1>5, <2>1, <2>2
  <2>4. k \in Nat /\ C = ws * k
    <3> HIDE DEF C
    <3>1. ws \in Nat \ {0}
      BY <1>2, <2>1
    <3> QED
      BY <2>2, <3>1, ExactDiv
  <2> HIDE DEF C, k
  <2>5. c = w * k
    BY <1>2, <2>1, <2>3, <2>4, MulAssoc
  <2>6. c % w = 0
    BY <2>4, <2>5, MultipleMod
  <2>7. NS * (s + 1) <= NS * C /\ NS * C <= NS * (s + ws)
    BY <1>1, <1>2, <2>2, MulOrder
  <2>8. NS * (s + 1) = NS * s + NS /\ NS * (s + ws) = NS * s + w
    BY <1>1, <1>2, <2>1, MulAssoc
  <2>9. NS * s \in Nat /\ c \in Nat
    BY <1>1, <2>2, <2>3, MulFacts
  <2>10. t < c /\ c <= t + w
    BY <1>1, <2>3, <2>7, <2>8, <2>9
  <2> QED
    BY <2>6, <2>9, <2>10 DEF c
<1>6. CASE wn # 0
  <2>1. NS % w = 0
    BY <1>6 DEF wn
  <2> DEFINE q == NS \div w
  <2>2. q \in Nat /\ NS = w * q
    BY <2>1, ExactDiv
  <2>3. ws = 0 /\ wn = w
    <3>1. w <= NS
      BY <2>2
    <3>2. ws = 0
      BY <1>2, <1>6, <3>1
    <3> QED
      BY <1>2, <3>2
  <2> DEFINE N == U64Coarsen(n, w)
             k == N \div w
  <2>4. N \in Nat /\ N % w = 0 /\ n < N /\ N <= n + w
    BY <1>1, U64CoarsenAligned
  <2>5. c = NS * s + N
    BY <1>4, <1>6, <2>3
  <2>6. k \in Nat /\ N = w * k
    <3> HIDE DEF N
    <3> QED
      BY <2>4, ExactDiv
  <2> HIDE DEF N, k, q
  <2>7. NS * s = w * (q * s) /\ q * s \in Nat
    BY <1>1, <2>2, MulAssoc
  <2>8. c = w * (q * s + k)
    <3>1. w * (q * s + k) = w * (q * s) + w * k
      BY <2>6, <2>7, MulAssoc
    <3> QED
      BY <2>5, <2>6, <2>7, <3>1
  <2>9. c % w = 0
    <3>1. q * s + k \in Nat
      BY <2>6, <2>7
    <3> QED
      BY <2>8, <3>1, MultipleMod
  <2>10. NS * s \in Nat
    BY <1>1, MulFacts
  <2>11. c \in Nat /\ t < c /\ c <= t + w
    BY <1>1, <2>4, <2>5, <2>10
  <2> QED
    BY <2>9, <2>11 DEF c
<1> QED
  BY <1>5, <1>6

\* The assumption CoarsenNext on the next tick holds for every tick interval
\* that is a number of whole seconds or goes into a second evenly.
THEOREM DurationTicksAlign ==
  ASSUME NEW NS \in Nat \ {0},
         \A t \in Nat, w \in Ticks :
           Coarsen(t, w) =
             AsNanos(DurationCoarsen(Duration(0, t, NS), Duration(0, w, NS), NS), NS),
         \A w \in Ticks : w % NS = 0 \/ NS % w = 0
  PROVE  CoarsenNext
<1> SUFFICES ASSUME NEW t \in Nat, NEW w \in Ticks
             PROVE  LET c == Coarsen(t, w) IN c \in Nat /\ c % w = 0 /\ t < c /\ c <= t + w
    BY DEF CoarsenNext
<1> DEFINE c == AsNanos(DurationCoarsen(Duration(0, t, NS), Duration(0, w, NS), NS), NS)
<1>1. w \in Nat \ {0} /\ (w % NS = 0 \/ NS % w = 0) /\ Coarsen(t, w) = c
    BY PollingAssumption
<1>2. c \in Nat /\ c % w = 0 /\ t < c /\ c <= t + w
    BY <1>1, DurationCoarsenAligned
<1>3. QED
    BY <1>1, <1>2, Zenon
=============================================================================
