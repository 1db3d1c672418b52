----------------------------- MODULE RuntimeProofs -----------------------------
(***************************************************************************)
(* Proofs about three parts that the dataflows share, each for any times,  *)
(* graphs and numbers of updates: the compaction of the traces that        *)
(* operators read, the frontier scheduler, and the source that describes   *)
(* the sizes of the traces.                                                *)
(***************************************************************************)
EXTENDS TraceCompaction, FrontierScheduling, LogSources, FiniteSetTheorems,
        WellFoundedInduction, TLAPS
-----------------------------------------------------------------------------
(* AltNeu is a lattice whenever the inner time is one.  Compaction, which  *)
(* works with the lattice of the inner times, never changes what a read of *)
(* an index entered at alt times sees in advance of the frontier.          *)

\* less_equal of AltNeu (altneu.rs:39) is reflexive and antisymmetric.
LEMMA AltReflexiveAntisymmetric ==
  ASSUME NEW a \in Time, NEW b \in Time
  PROVE  /\ AltLessEqual(a, a)
         /\ AltLessEqual(a, b) /\ AltLessEqual(b, a) => a = b
<1>1. AltLessEqual(a, a)
  BY DEF AltLessEqual
<1>2. ASSUME AltLessEqual(a, b), AltLessEqual(b, a)
      PROVE  a = b
  <2>1. a.time = b.time
    BY <1>2, InnerAssumption DEF Time, AltLessEqual
  <2>2. a.neu <=> b.neu
    BY <1>2, <2>1 DEF AltLessEqual
  <2>3. a.neu \in BOOLEAN /\ b.neu \in BOOLEAN
    BY DEF Time
  <2>4. a.neu = b.neu
    BY <2>2, <2>3
  <2> QED BY <2>1, <2>4 DEF Time
<1> QED BY <1>1, <1>2

\* What is before an inner time is so in outer times.
LEMMA AltOuter ==
  ASSUME NEW a \in Time, NEW b \in Time, AltLessEqual(a, b)
  PROVE  LessEqual(a.time, b.time)
<1>1. a.time \in T /\ b.time \in T
  BY DEF Time
<1>2. CASE a.time = b.time
  BY <1>1, <1>2, InnerAssumption
<1>3. CASE a.time # b.time
  BY <1>3 DEF AltLessEqual
<1> QED BY <1>2, <1>3


\* less_equal of AltNeu (altneu.rs:39) is transitive.
LEMMA AltTransitive ==
  ASSUME NEW a \in Time, NEW b \in Time, NEW c \in Time,
         AltLessEqual(a, b), AltLessEqual(b, c)
  PROVE  AltLessEqual(a, c)
<1>1. CASE a.time = b.time
  BY <1>1 DEF Time, AltLessEqual
<1>2. CASE a.time # b.time /\ b.time = c.time
  BY <1>2 DEF Time, AltLessEqual
<1>3. CASE a.time # b.time /\ b.time # c.time
  <2>1. LessEqual(a.time, b.time) /\ LessEqual(b.time, c.time)
    BY <1>3 DEF AltLessEqual
  <2>2. LessEqual(a.time, c.time) /\ a.time # c.time
    BY <2>1, <1>3, InnerAssumption DEF Time
  <2> QED BY <2>2 DEF AltLessEqual
<1> QED BY <1>1, <1>2, <1>3

\* join of AltNeu (altneu.rs:88) is the least upper bound.
THEOREM AltJoinIsLeastUpperBound ==
  ASSUME NEW a \in Time, NEW b \in Time
  PROVE  /\ AltJoin(a, b) \in Time
         /\ AltLessEqual(a, AltJoin(a, b)) /\ AltLessEqual(b, AltJoin(a, b))
         /\ \A c \in Time : AltLessEqual(a, c) /\ AltLessEqual(b, c)
                              => AltLessEqual(AltJoin(a, b), c)
<1> DEFINE j == Join(a.time, b.time)
<1>1. j \in T /\ LessEqual(a.time, j) /\ LessEqual(b.time, j)
  BY InnerAssumption, InnerLatticeAssumption DEF Time
<1>2. /\ AltJoin(a, b).time = j
      /\ AltJoin(a, b).neu <=> ((j = a.time /\ a.neu) \/ (j = b.time /\ b.neu))
      /\ AltJoin(a, b) \in Time
  BY <1>1 DEF AltJoin, Time
<1>3. AltLessEqual(a, AltJoin(a, b))
  BY <1>1, <1>2 DEF AltLessEqual
<1>4. AltLessEqual(b, AltJoin(a, b))
  BY <1>1, <1>2 DEF AltLessEqual
<1>5. ASSUME NEW c \in Time, AltLessEqual(a, c), AltLessEqual(b, c)
      PROVE  AltLessEqual(AltJoin(a, b), c)
  <2>1. LessEqual(a.time, c.time) /\ LessEqual(b.time, c.time)
    BY <1>5, AltOuter
  <2>2. LessEqual(j, c.time)
    BY <2>1, InnerLatticeAssumption DEF Time
  <2>3. CASE j = c.time
    <3>1. /\ j = a.time /\ a.neu => c.neu
          /\ j = b.time /\ b.neu => c.neu
      BY <2>3, <1>5 DEF AltLessEqual
    <3> QED BY <3>1, <1>2, <2>3 DEF AltLessEqual
  <2>4. CASE j # c.time
    BY <2>2, <2>4, <1>2 DEF AltLessEqual
  <2> QED BY <2>3, <2>4
<1> QED BY <1>2, <1>3, <1>4, <1>5

\* meet of AltNeu (altneu.rs:99) is the greatest lower bound.
THEOREM AltMeetIsGreatestLowerBound ==
  ASSUME NEW a \in Time, NEW b \in Time
  PROVE  /\ AltMeet(a, b) \in Time
         /\ AltLessEqual(AltMeet(a, b), a) /\ AltLessEqual(AltMeet(a, b), b)
         /\ \A c \in Time : AltLessEqual(c, a) /\ AltLessEqual(c, b)
                              => AltLessEqual(c, AltMeet(a, b))
<1> DEFINE m == Meet(a.time, b.time)
<1>1. m \in T /\ LessEqual(m, a.time) /\ LessEqual(m, b.time)
  BY InnerAssumption, InnerLatticeAssumption DEF Time
<1>2. /\ AltMeet(a, b).time = m
      /\ AltMeet(a, b).neu <=> ((m = a.time => a.neu) /\ (m = b.time => b.neu))
      /\ AltMeet(a, b) \in Time
  BY <1>1 DEF AltMeet, Time
<1>3. AltLessEqual(AltMeet(a, b), a)
  BY <1>1, <1>2 DEF AltLessEqual
<1>4. AltLessEqual(AltMeet(a, b), b)
  BY <1>1, <1>2 DEF AltLessEqual
<1>5. ASSUME NEW c \in Time, AltLessEqual(c, a), AltLessEqual(c, b)
      PROVE  AltLessEqual(c, AltMeet(a, b))
  <2>1. LessEqual(c.time, a.time) /\ LessEqual(c.time, b.time)
    BY <1>5, AltOuter
  <2>2. LessEqual(c.time, m)
    BY <2>1, InnerLatticeAssumption DEF Time
  <2>3. CASE m = c.time
    <3>1. /\ m = a.time => (c.neu => a.neu)
          /\ m = b.time => (c.neu => b.neu)
      BY <2>3, <1>5 DEF AltLessEqual
    <3> QED BY <3>1, <1>2, <2>3 DEF AltLessEqual
  <2>4. CASE m # c.time
    BY <2>2, <2>4, <1>2 DEF AltLessEqual
  <2> QED BY <2>3, <2>4
<1> QED BY <1>2, <1>3, <1>4, <1>5
-----------------------------------------------------------------------------
\* Advancing an inner time by a frontier (Lattice::advance_by, used by the
\* trace after hector.rs:1262) is invisible at every time in advance of it.
LEMMA AdvanceIsInvisible ==
  ASSUME NEW t \in T, NEW front \in T \X T, NEW u \in T,
         InAdvanceOf(front, u)
  PROVE  /\ AdvanceBy(t, front) \in T /\ LessEqual(t, AdvanceBy(t, front))
         /\ LessEqual(AdvanceBy(t, front), u) <=> LessEqual(t, u)
<1> DEFINE f == front[1]
           g == front[2]
           tf == Join(t, f)
           tg == Join(t, g)
           r == Meet(tf, tg)
<1>1. f \in T /\ g \in T /\ AdvanceBy(t, front) = r
  BY DEF AdvanceBy
<1>2. tf \in T /\ tg \in T /\ LessEqual(t, tf) /\ LessEqual(t, tg)
  BY <1>1, InnerAssumption, InnerLatticeAssumption
<1>3. /\ LessEqual(t, u) /\ LessEqual(f, u) => LessEqual(tf, u)
      /\ LessEqual(t, u) /\ LessEqual(g, u) => LessEqual(tg, u)
  BY <1>1, InnerLatticeAssumption
<1> HIDE DEF tf, tg
<1>4. r \in T /\ LessEqual(r, tf) /\ LessEqual(r, tg) /\ LessEqual(t, r)
  BY <1>2, InnerAssumption, InnerLatticeAssumption
<1> HIDE DEF r
<1>5. LessEqual(r, u) => LessEqual(t, u)
  BY <1>4, InnerAssumption
<1>6. ASSUME LessEqual(t, u) PROVE LessEqual(r, u)
  <2>1. LessEqual(f, u) \/ LessEqual(g, u)
    BY DEF InAdvanceOf
  <2>2. LessEqual(tf, u) \/ LessEqual(tg, u)
    BY <2>1, <1>3, <1>6
  <2> QED BY <2>2, <1>2, <1>4, InnerAssumption
<1> QED BY <1>1, <1>4, <1>5, <1>6

\* A time in advance of a later frontier of the input (hector.rs:1262) is in
\* advance of the earlier one.
LEMMA AdvanceShrinks ==
  ASSUME NEW front \in Time \X Time, NEW f \in Time, NEW g \in Time, NEW u \in Time,
         AltInAdvanceOf(front, f), AltInAdvanceOf(front, g), AltInAdvanceOf(<<f, g>>, u)
  PROVE  AltInAdvanceOf(front, u)
<1>1. front[1] \in Time /\ front[2] \in Time
  OBVIOUS
<1>2. AltLessEqual(f, u) \/ AltLessEqual(g, u)
  BY DEF AltInAdvanceOf
<1>3. CASE AltLessEqual(f, u)
  BY <1>1, <1>3, AltTransitive DEF AltInAdvanceOf
<1>4. CASE AltLessEqual(g, u)
  BY <1>1, <1>4, AltTransitive DEF AltInAdvanceOf
<1> QED BY <1>2, <1>3, <1>4

\* What is visible of an update at an inner time (enter_at, hector.rs:730).
LEMMA AltVisibility ==
  ASSUME NEW t \in T, NEW u \in Time, NEW neu \in BOOLEAN
  PROVE  AltLessEqual(Entered(t, neu), u)
           <=> LessEqual(t, ToOuter(u)) /\ ~ (t = u.time /\ neu /\ ~ u.neu)
<1>1. u.neu \in BOOLEAN /\ Entered(t, neu).time = t /\ Entered(t, neu).neu = neu /\ ToOuter(u) = u.time
  BY DEF Time, Entered, ToOuter
<1>2. CASE t = u.time
  <2>1. LessEqual(t, u.time)
    BY <1>2, InnerAssumption
  <2> QED BY <1>1, <1>2, <2>1 DEF AltLessEqual
<1>3. CASE t # u.time
  BY <1>1, <1>3 DEF AltLessEqual
<1> QED BY <1>2, <1>3
-----------------------------------------------------------------------------
\* The invariant that is inductive: the trace is advanced as far as the input
\* and kept times are later than the updates' own and indistinguishable from
\* them in outer times.
CompactionInv ==
  /\ input \in Time \X Time
  /\ since = <<ToOuter(input[1]), ToOuter(input[2])>>
  /\ rep \in [DOMAIN rep -> T]
  /\ DOMAIN rep \subseteq T
  /\ \A t \in DOMAIN rep : LessEqual(t, rep[t])
  /\ \A u \in Time : AltInAdvanceOf(input, u) =>
       \A t \in DOMAIN rep : LessEqual(rep[t], ToOuter(u)) <=> LessEqual(t, ToOuter(u))

\* However an extender advances a trace, and whenever it is compacted
\* (hector.rs:1262), a read at a time it still distinguishes sums exactly the
\* updates it would have summed without compaction if the trace is entered at
\* alt, and all of them but the overtaken ones if it is entered at neu.
THEOREM CompactionKeepsReads == Spec => []ReadsAgree
<1>1. Init => CompactionInv
  <2> SUFFICES ASSUME Init PROVE CompactionInv
    OBVIOUS
  <2>1. DOMAIN rep = {}
    BY DEF Init
  <2>2. PICK m \in T : input = <<Alt(m), Alt(m)>> /\ since = <<m, m>>
    BY DEF Init
  <2>3. Alt(m) \in Time /\ ToOuter(Alt(m)) = m
    BY DEF Alt, Time, ToOuter
  <2>4. input \in Time \X Time /\ since = <<ToOuter(input[1]), ToOuter(input[2])>>
    BY <2>2, <2>3
  <2>5. rep \in [DOMAIN rep -> T]
    BY <2>1 DEF Init
  <2> QED BY <2>1, <2>4, <2>5 DEF CompactionInv
<1>2. CompactionInv /\ [Next]_vars => CompactionInv'
  <2> SUFFICES ASSUME CompactionInv, [Next]_vars PROVE CompactionInv'
    OBVIOUS
  <2> USE DEF CompactionInv
  <2>1. ASSUME NEW t \in T, Insert(t) PROVE CompactionInv'
    <3>1. /\ DOMAIN rep' = DOMAIN rep \cup {t} /\ input' = input /\ since' = since
          /\ \A s \in DOMAIN rep' : rep'[s] = IF s = t THEN t ELSE rep[s]
      BY <2>1 DEF Insert
    <3>2. rep' \in [DOMAIN rep' -> T] /\ DOMAIN rep' \subseteq T
      BY <3>1, <2>1 DEF Insert
    <3>3. \A s \in DOMAIN rep' : LessEqual(s, rep'[s])
      BY <3>1, InnerAssumption
    <3> QED BY <3>1, <3>2, <3>3
  <2>2. ASSUME NEW f \in Time, NEW g \in Time, Advance(f, g) PROVE CompactionInv'
    <3>1. /\ input' = <<f, g>> /\ rep' = rep /\ input' \in Time \X Time
          /\ since' = <<ToOuter(f), ToOuter(g)>>
      BY <2>2 DEF Advance
    <3>2. \A u \in Time : AltInAdvanceOf(input', u) => AltInAdvanceOf(input, u)
      BY <3>1, <2>2, AdvanceShrinks DEF Advance
    <3> QED BY <3>1, <3>2
  <2>3. ASSUME NEW merged \in SUBSET DOMAIN rep, Compact(merged) PROVE CompactionInv'
    <3>1. /\ input' = input /\ since' = since /\ DOMAIN rep' = DOMAIN rep
          /\ \A t \in DOMAIN rep :
               rep'[t] = IF t \in merged THEN AdvanceBy(rep[t], since) ELSE rep[t]
      BY <2>3 DEF Compact
    <3>2. /\ \A t \in DOMAIN rep : rep[t] \in T
          /\ input[1] \in Time /\ input[2] \in Time
          /\ since \in T \X T /\ since[1] = ToOuter(input[1]) /\ since[2] = ToOuter(input[2])
      BY DEF Time, ToOuter
    <3>3. \A t \in DOMAIN rep : rep'[t] \in T /\ LessEqual(t, rep'[t])
      <4>1. InAdvanceOf(since, since[1]) /\ since[1] \in T
        BY <3>2, InnerAssumption DEF InAdvanceOf
      <4>2. \A t \in DOMAIN rep : /\ AdvanceBy(rep[t], since) \in T
                                  /\ LessEqual(rep[t], AdvanceBy(rep[t], since))
        BY <4>1, <3>2, AdvanceIsInvisible
      <4>3. ASSUME NEW t \in DOMAIN rep PROVE LessEqual(t, AdvanceBy(rep[t], since))
        <5>1. t \in T /\ rep[t] \in T /\ LessEqual(t, rep[t])
          BY <3>2
        <5> HIDE DEF CompactionInv
        <5> QED BY <4>2, <5>1, InnerAssumption
      <4> QED BY <4>2, <4>3, <3>1, <3>2
    <3>4. rep' \in [DOMAIN rep' -> T]
      BY <3>1, <3>3, <2>3 DEF Compact
    <3>5. ASSUME NEW u \in Time, AltInAdvanceOf(input, u), NEW t \in DOMAIN rep
          PROVE  LessEqual(rep'[t], ToOuter(u)) <=> LessEqual(t, ToOuter(u))
      <4>1. ToOuter(u) \in T /\ InAdvanceOf(since, ToOuter(u))
        <5>1. u.time \in T /\ ToOuter(u) = u.time
          BY DEF ToOuter, Time
        <5>2. \A a \in Time : AltLessEqual(a, u) => LessEqual(ToOuter(a), u.time)
          BY AltOuter DEF ToOuter
        <5> HIDE DEF CompactionInv
        <5> QED BY <3>2, <3>5, <5>1, <5>2 DEF AltInAdvanceOf, InAdvanceOf
      <4>2. LessEqual(AdvanceBy(rep[t], since), ToOuter(u)) <=> LessEqual(rep[t], ToOuter(u))
        BY <4>1, <3>2, AdvanceIsInvisible
      <4>3. LessEqual(rep[t], ToOuter(u)) <=> LessEqual(t, ToOuter(u))
        BY <3>5
      <4> QED BY <4>2, <4>3, <3>1
    <3> QED BY <3>1, <3>3, <3>4, <3>5
  <2>4. CASE UNCHANGED vars
    BY <2>4 DEF vars
  <2> QED BY <2>1, <2>2, <2>3, <2>4 DEF Next
<1>3. CompactionInv => ReadsAgree
  <2> SUFFICES ASSUME CompactionInv, NEW neu \in BOOLEAN, NEW u \in Time, AltInAdvanceOf(input, u),
                      NEW t \in DOMAIN rep
               PROVE  AltLessEqual(Entered(rep[t], neu), u)
                        <=> AltLessEqual(Entered(t, neu), u) /\ ~ Overtaken(t, u, neu)
    BY DEF ReadsAgree
  <2>1. rep[t] \in T /\ t \in T /\ u.time \in T /\ ToOuter(u) = u.time /\ LessEqual(t, rep[t])
    BY DEF CompactionInv, Time, ToOuter
  <2>2. LessEqual(rep[t], u.time) <=> LessEqual(t, u.time)
    BY <2>1 DEF CompactionInv
  <2>3. AltLessEqual(Entered(rep[t], neu), u)
          <=> LessEqual(rep[t], u.time) /\ ~ (rep[t] = u.time /\ neu /\ ~ u.neu)
    BY <2>1, AltVisibility
  <2>4. AltLessEqual(Entered(t, neu), u) <=> LessEqual(t, u.time) /\ ~ (t = u.time /\ neu /\ ~ u.neu)
    BY <2>1, AltVisibility
  <2>5. t = u.time /\ LessEqual(rep[t], u.time) => rep[t] = u.time
    BY <2>1, InnerAssumption
  <2> QED BY <2>1, <2>2, <2>3, <2>4, <2>5 DEF Overtaken
<1> QED BY <1>1, <1>2, <1>3, PTL DEF Spec
-----------------------------------------------------------------------------
(* The frontier scheduler, for every type of timestamps.                   *)

\* The timestamps are partially ordered, and their Ord is a total order that
\* extends it: the numbers and durations have the two equal, and pairs have
\* the lexicographic order for the product order.
TimestampOrders ==
  /\ Earliest \in Instants
  /\ \A s, t \in Instants : InstantLessEqual(s, t) /\ InstantLessEqual(t, s) => s = t
  /\ \A s, t, u \in Instants :
       InstantLessEqual(s, t) /\ InstantLessEqual(t, u) => InstantLessEqual(s, u)
  /\ \A s, t \in Instants : InstantLessEqual(s, t) => OrdLessEqual(s, t)
  /\ \A s, t \in Instants : OrdLessEqual(s, t) \/ OrdLessEqual(t, s)
  /\ \A s, t \in Instants : OrdLessEqual(s, t) /\ OrdLessEqual(t, s) => s = t
  /\ \A s, t, u \in Instants : OrdLessEqual(s, t) /\ OrdLessEqual(t, u) => OrdLessEqual(s, u)

\* The heap always has a head, whichever entries are left in it.
HeapInv ==
  /\ frontier \subseteq Instants /\ \A e \in activator_queue : e.at \in Instants
  /\ \A Q \in SUBSET activator_queue : Q # {} => Heads(Q) # {}

\* An operator pushes its activation (schedule_at): the head is the new entry
\* or the old head.
LEMMA HeapPush ==
  ASSUME TimestampOrders, HeapInv, NEW e, e.at \in Instants
  PROVE  \A Q \in SUBSET (activator_queue \cup {e}) : Q # {} => Heads(Q) # {}
<1> SUFFICES ASSUME NEW Q \in SUBSET (activator_queue \cup {e}), Q # {} PROVE Heads(Q) # {}
  OBVIOUS
<1>0. \A d \in Q : d.at \in Instants
  BY DEF HeapInv
<1>1. CASE Q \subseteq {e}
  <2>1. Q = {e} /\ OrdLessEqual(e.at, e.at)
    BY <1>1 DEF TimestampOrders
  <2> QED
    BY <2>1 DEF Heads
<1>2. CASE ~ Q \subseteq {e}
  <2>1. Q \ {e} # {} /\ Q \ {e} \in SUBSET activator_queue
    BY <1>2
  <2>2. PICK h \in Q \ {e} : \A d \in Q \ {e} : OrdLessEqual(h.at, d.at)
    BY <2>1 DEF HeapInv, Heads
  <2>3. CASE OrdLessEqual(h.at, e.at)
    <3>1. \A d \in Q : OrdLessEqual(h.at, d.at)
      BY <2>2, <2>3
    <3> QED
      BY <3>1, <2>2 DEF Heads
  <2>4. CASE ~ OrdLessEqual(h.at, e.at) /\ e \in Q
    <3>1. OrdLessEqual(e.at, h.at) /\ OrdLessEqual(e.at, e.at)
      BY <1>0, <2>4 DEF TimestampOrders
    <3>2. \A d \in Q \ {e} : OrdLessEqual(e.at, d.at)
      BY <1>0, <2>2, <3>1 DEF TimestampOrders
    <3> QED
      BY <2>4, <3>1, <3>2 DEF Heads
  <2>5. CASE e \notin Q
    BY <2>2, <2>5 DEF Heads
  <2> QED
    BY <2>3, <2>4, <2>5
<1> QED
  BY <1>1, <1>2

\* For every timestamp type, whatever was scheduled and however the frontier
\* moved: has_pending reports an activator that is ready, unless the head of
\* the heap waits for a time that is not comparable with its own.
THEOREM HeadIsReadyFirst ==
  ASSUME TimestampOrders
  PROVE  SchedulerSpec => []ReadyIsPending
<1>1. SchedulerInit => HeapInv
  BY DEF SchedulerInit, HeapInv, TimestampOrders
<1>2. HeapInv /\ [SchedulerNext]_schedulerVars => HeapInv'
  <2> SUFFICES ASSUME HeapInv, [SchedulerNext]_schedulerVars PROVE HeapInv'
    OBVIOUS
  <2>1. ASSUME NEW a \in Activators, NEW t \in Instants, ScheduleAt(a, t) PROVE HeapInv'
    <3> DEFINE e == [at |-> t, activator |-> a]
    <3>1. activator_queue' = activator_queue \cup {e} /\ frontier' = frontier /\ e.at \in Instants
      BY <2>1 DEF ScheduleAt
    <3> HIDE DEF e
    <3> QED
      BY <3>1, HeapPush DEF HeapInv, Heads
  <2>2. CASE FrontierMoves
    BY <2>2 DEF FrontierMoves, Antichains, HeapInv, Heads
  <2>3. CASE Trigger
    <3>1. activator_queue' \subseteq activator_queue /\ frontier' = frontier
      BY <2>3 DEF Trigger
    <3> QED
      BY <3>1 DEF HeapInv, Heads
  <2>4. CASE UNCHANGED schedulerVars
    BY <2>4 DEF schedulerVars, HeapInv, Heads
  <2> QED
    BY <2>1, <2>2, <2>3, <2>4 DEF SchedulerNext
<1>3. HeapInv => ReadyIsPending
  <2> SUFFICES ASSUME HeapInv, NEW e \in activator_queue, FrontierAt(e.at),
                      \A h \in Heads(activator_queue) : Comparable(h.at, e.at)
               PROVE  FrontierNext # {}
    BY DEF ReadyIsPending
  <2>1. PICK h \in Heads(activator_queue) : TRUE
    BY DEF HeapInv
  <2>2. /\ h \in activator_queue /\ h.at \in Instants /\ e.at \in Instants
        /\ OrdLessEqual(h.at, e.at) /\ Comparable(h.at, e.at)
    BY <2>1 DEF Heads, HeapInv
  <2>3. InstantLessEqual(h.at, e.at)
    <3>1. CASE InstantLessEqual(e.at, h.at)
      BY <2>2, <3>1 DEF TimestampOrders, Comparable
    <3> QED
      BY <2>2, <3>1 DEF Comparable
  <2>4. ASSUME NEW f \in frontier, InstantLessEqual(f, h.at) PROVE f = h.at
    <3>1. f \in Instants
      BY DEF HeapInv
    <3>2. f = e.at
      BY <2>2, <2>3, <2>4, <3>1 DEF TimestampOrders, FrontierAt
    <3> QED
      BY <2>2, <2>3, <2>4, <3>2 DEF TimestampOrders
  <2>5. h \in FrontierNext
    BY <2>1, <2>4 DEF FrontierNext, FrontierReady
  <2> QED
    BY <2>5
<1> QED
  BY <1>1, <1>2, <1>3, PTL DEF SchedulerSpec
-----------------------------------------------------------------------------
(* The source of log events, for any graph, traces and batches: what it    *)
(* has reported, with what the log has still to say, is what there is.     *)

\* A non-empty set of numbers has a least element.
LEMMA LeastNumber ==
  ASSUME NEW S, S \subseteq Nat, S # {}
  PROVE  \E m \in S : \A n \in S : m <= n
<1> DEFINE R == OpToRel(<, Nat)
<1>1. IsWellFoundedOn(R, Nat)
    BY NatLessThanWellFounded, Zenon
<1> HIDE DEF R
<1>2. \E m \in S : \A n \in S : ~ (<<n, m>> \in R)
    BY <1>1, WFMin, Zenon
<1>3. PICK m \in S : \A n \in S : ~ (<<n, m>> \in R)
    BY <1>2
<1>4. ASSUME NEW n \in S PROVE m <= n
  <2>1. <<n, m>> \notin R /\ m \in Nat /\ n \in Nat
      BY <1>3
  <2>2. n < m => <<n, m>> \in R
      BY <2>1 DEF OpToRel, R
  <2>3. QED
      BY <2>1, <2>2
<1>5. QED
    BY <1>3, <1>4

\* The partial sums of f.
Sums(s, f, n) == s[0] = 0 /\ \A i \in 1 .. n : s[i] = s[i - 1] + f[i]

\* Partial sums exist up to every number.
LEMMA SumsExist ==
  ASSUME NEW n \in Nat, NEW f, \A i \in 1 .. n : f[i] \in Int
  PROVE  \E s \in [0 .. n -> Int] : Sums(s, f, n)
<1> DEFINE Bad == {m \in 0 .. n : ~ \E s \in [0 .. m -> Int] : Sums(s, f, m)}
<1>1. ASSUME NEW m \in Bad, \A k \in Bad : m <= k PROVE FALSE
  <2>1. m \in 0 .. n /\ m \in Nat
      OBVIOUS
  <2>2. CASE m = 0
    <3> DEFINE s == [i \in 0 .. m |-> 0]
    <3>1. s \in [0 .. m -> Int] /\ Sums(s, f, m)
        BY <2>2 DEF Sums
    <3>2. QED
        BY <3>1
  <2>3. CASE m # 0
    <3>1. m - 1 \in 0 .. n /\ f[m] \in Int
        BY <2>1, <2>3
    <3> HIDE DEF Bad
    <3>2. m - 1 \notin Bad
        BY <1>1, <2>1
    <3> USE DEF Bad
    <3>3. PICK s \in [0 .. (m - 1) -> Int] : Sums(s, f, m - 1)
        BY <3>1, <3>2
    <3> DEFINE z == [i \in 0 .. m |-> IF i = m THEN s[m - 1] + f[m] ELSE s[i]]
    <3>4. z \in [0 .. m -> Int]
        BY <2>1, <2>3, <3>1, <3>3
    <3>5. z[0] = 0
        BY <2>1, <2>3, <3>3 DEF Sums
    <3>6. ASSUME NEW i \in 1 .. m PROVE z[i] = z[i - 1] + f[i]
      <4>1. i - 1 \in 0 .. (m - 1) /\ z[i - 1] = s[i - 1]
          BY <2>1, <2>3
      <4>2. CASE i = m
          BY <2>1, <4>1, <4>2
      <4>3. CASE i # m
        <5>1. i \in 1 .. (m - 1) /\ z[i] = s[i]
            BY <2>1, <4>3
        <5>2. s[i] = s[i - 1] + f[i]
            BY <3>3, <5>1 DEF Sums
        <5>3. QED
            BY <4>1, <5>1, <5>2
      <4>4. QED
          BY <4>2, <4>3
    <3>7. Sums(z, f, m)
        BY <3>5, <3>6 DEF Sums
    <3>8. QED
        BY <3>4, <3>7
  <2>4. QED
      BY <2>2, <2>3
<1>2. Bad \subseteq Nat
    OBVIOUS
<1> HIDE DEF Bad
<1>3. Bad = {}
    BY <1>1, <1>2, LeastNumber
<1> USE DEF Bad
<1>4. n \notin Bad
    BY <1>3
<1>5. QED
    BY <1>4

\* Partial sums are those that SumTo computes.
LEMMA SumToIs ==
  ASSUME NEW n \in Nat, NEW f, \A i \in 1 .. n : f[i] \in Int,
         NEW s \in [0 .. n -> Int], Sums(s, f, n)
  PROVE  SumTo(f, n) = s[n]
<1> DEFINE F(g) == [i \in 0 .. n |-> IF i = 0 THEN 0 ELSE g[i - 1] + f[i]]
           sum == CHOOSE g : g = F(g)
<1>1. s = F(s)
    BY DEF Sums
<1>2. sum = F(sum)
    BY <1>1
<1>3. SumTo(f, n) = sum[n]
    BY DEF SumTo
<1> HIDE DEF sum
<1>4. \A i \in 0 .. n : sum[i] = IF i = 0 THEN 0 ELSE sum[i - 1] + f[i]
    BY <1>2
<1> DEFINE Bad == {i \in 0 .. n : sum[i] # s[i]}
<1>5. ASSUME NEW m \in Bad, \A k \in Bad : m <= k PROVE FALSE
  <2>1. m \in 0 .. n /\ m \in Nat
      OBVIOUS
  <2>2. m # 0
      BY <1>4, <2>1 DEF Sums
  <2>3. m - 1 \in 0 .. n /\ m - 1 \notin Bad /\ m \in 1 .. n
      BY <1>5, <2>1, <2>2
  <2>4. sum[m - 1] = s[m - 1]
      BY <2>3
  <2>5. sum[m] = sum[m - 1] + f[m] /\ s[m] = s[m - 1] + f[m]
      BY <1>4, <2>1, <2>2, <2>3 DEF Sums
  <2>6. QED
      BY <2>4, <2>5
<1>6. Bad \subseteq Nat
    OBVIOUS
<1> HIDE DEF Bad
<1>7. Bad = {}
    BY <1>5, <1>6, LeastNumber
<1> USE DEF Bad
<1>8. QED
    BY <1>3, <1>7

\* One more summand.
LEMMA SumToNext ==
  ASSUME NEW n \in Nat, NEW f, NEW g, \A i \in 1 .. n + 1 : g[i] \in Int,
         \A i \in 1 .. n : f[i] = g[i]
  PROVE  SumTo(g, n + 1) = SumTo(f, n) + g[n + 1] /\ SumTo(f, n) \in Int
<1>1. PICK s \in [0 .. n + 1 -> Int] : Sums(s, g, n + 1)
    BY SumsExist
<1>2. n + 1 \in Nat /\ n + 1 \in 1 .. n + 1 /\ (n + 1) - 1 = n
    OBVIOUS
<1>3. s[n + 1] = s[n] + g[n + 1]
    BY <1>1, <1>2 DEF Sums
<1>4. SumTo(g, n + 1) = s[n + 1]
    BY <1>1, <1>2, SumToIs
<1>5. \A i \in 1 .. n : f[i] \in Int
    OBVIOUS
<1> DEFINE z == [i \in 0 .. n |-> s[i]]
<1>6. z \in [0 .. n -> Int] /\ Sums(z, f, n) /\ z[n] = s[n]
    BY <1>1 DEF Sums
<1>7. SumTo(f, n) = z[n]
    BY <1>6, <1>5, SumToIs
<1>8. QED
    BY <1>3, <1>4, <1>6, <1>7

\* A summand that changes.
LEMMA SumToChange ==
  ASSUME NEW n \in Nat, NEW f, NEW g, \A i \in 1 .. n : f[i] \in Int,
         NEW r \in 1 .. n, NEW k \in Int,
         g[r] = f[r] + k, \A i \in 1 .. n : i # r => g[i] = f[i]
  PROVE  SumTo(g, n) = SumTo(f, n) + k /\ SumTo(f, n) \in Int
<1>1. PICK s \in [0 .. n -> Int] : Sums(s, f, n)
    BY SumsExist
<1>2. SumTo(f, n) = s[n]
    BY <1>1, SumToIs
<1> DEFINE z == [i \in 0 .. n |-> s[i] + IF r <= i THEN k ELSE 0]
<1>3. z \in [0 .. n -> Int] /\ z[n] = s[n] + k /\ z[0] = 0
    BY <1>1 DEF Sums
<1>4. ASSUME NEW i \in 1 .. n PROVE z[i] = z[i - 1] + g[i]
  <2>1. /\ i - 1 \in 0 .. n /\ s[i] = s[i - 1] + f[i] /\ s[i] \in Int /\ s[i - 1] \in Int
        /\ f[i] \in Int
      BY <1>1 DEF Sums
  <2>2. CASE i = r
      BY <2>1, <2>2
  <2>3. CASE i # r
    <3> DEFINE d == IF r <= i THEN k ELSE 0
    <3>1. (r <= i <=> r <= i - 1) /\ g[i] = f[i] /\ d \in Int
        BY <2>3
    <3>2. z[i] = s[i] + d /\ z[i - 1] = s[i - 1] + d
        BY <2>1, <3>1
    <3> HIDE DEF d, z
    <3>3. QED
        BY <2>1, <3>1, <3>2
  <2>4. QED
      BY <2>2, <2>3
<1>5. Sums(z, g, n)
    BY <1>3, <1>4 DEF Sums
<1>6. ASSUME NEW i \in 1 .. n PROVE g[i] \in Int
  <2>1. i = r \/ g[i] = f[i]
      OBVIOUS
  <2>2. QED
      BY <2>1
<1>7. SumTo(g, n) = z[n]
    BY <1>3, <1>5, <1>6, SumToIs
<1>8. QED
    BY <1>2, <1>3, <1>7

\* Two summands of f are replaced by one in g.
Merges(f, g, a, b, n) ==
  /\ \A i \in 1 .. n : f[i] \in Int
  /\ a # b /\ g[a] \in Int /\ g[b] = 0
  /\ \A i \in (1 .. n) \ {a, b} : g[i] = f[i]

\* The sum changes by the difference.
LEMMA SumToMerge ==
  ASSUME NEW n \in Nat, NEW f, NEW g, NEW a \in 1 .. n, NEW b \in 1 .. n, Merges(f, g, a, b, n)
  PROVE  SumTo(g, n) = SumTo(f, n) + (g[a] - (f[a] + f[b]))
<1> DEFINE h == [i \in 1 .. n |-> IF i = a THEN g[a] ELSE f[i]]
           j == g[a] - f[a]
           k == - f[b]
<1>1. (\A i \in 1 .. n : f[i] \in Int) /\ f[a] \in Int /\ f[b] \in Int /\ g[a] \in Int
    BY DEF Merges
<1>2. /\ j \in Int /\ h[a] = f[a] + j /\ \A i \in 1 .. n : i # a => h[i] = f[i]
      /\ \A i \in 1 .. n : h[i] \in Int
    BY <1>1
<1>3. k \in Int /\ g[b] = h[b] + k /\ \A i \in 1 .. n : i # b => g[i] = h[i]
    BY <1>1 DEF Merges
<1> HIDE DEF h, j, k
<1>4. SumTo(h, n) = SumTo(f, n) + j /\ SumTo(f, n) \in Int
    BY <1>1, <1>2, SumToChange
<1>5. SumTo(g, n) = SumTo(h, n) + k
    BY <1>2, <1>3, SumToChange
<1>6. QED
    BY <1>1, <1>4, <1>5 DEF j, k

\* Sums of the same summands.
LEMMA SumToSame ==
  ASSUME NEW n \in Nat, NEW f, NEW g, \A i \in 1 .. n : f[i] \in Int /\ g[i] = f[i]
  PROVE  SumTo(g, n) = SumTo(f, n) /\ SumTo(f, n) \in Int
<1>1. PICK s \in [0 .. n -> Int] : Sums(s, f, n)
    BY SumsExist
<1>2. Sums(s, g, n)
    BY <1>1 DEF Sums
<1>3. QED
    BY <1>1, <1>2, SumToIs
-----------------------------------------------------------------------------
(* The sizes *)

\* What an event changes in the size reported of o.
ChangeOf(e, o) ==
  IF SizeChange(e) # <<>> /\ SizeChange(e)[1][1] = o THEN SizeChange(e)[1][2] ELSE 0

\* An event changes the size of one operator, or of none.
EventOK(e) ==
  SizeChange(e) = <<>> \/ \E i \in Nat, k \in Int : SizeChange(e) = <<<<i, k>>>>

\* The events lead from a to b.
Leads(es, o, a, b) ==
  \E f \in [0 .. Len(es) -> Int] :
    /\ f[0] = a /\ f[Len(es)] = b
    /\ \A k \in 1 .. Len(es) : f[k] = f[k - 1] + ChangeOf(es[k], o)

\* The change an event reports is a number.
LEMMA ChangeIsInt ==
  ASSUME NEW e, EventOK(e), NEW o
  PROVE  ChangeOf(e, o) \in Int
<1>1. CASE SizeChange(e) = <<>>
    BY <1>1 DEF ChangeOf
<1>2. CASE \E i \in Nat, k \in Int : SizeChange(e) = <<<<i, k>>>>
  <2>1. PICK i \in Nat, k \in Int : SizeChange(e) = <<<<i, k>>>>
      BY <1>2
  <2>2. QED
      BY <2>1 DEF ChangeOf
<1>3. QED
    BY <1>1, <1>2 DEF EventOK

\* An event that is logged leads on by its change.
LEMMA LeadsAppend ==
  ASSUME NEW S, NEW es \in Seq(S), NEW e \in S, NEW o, NEW a, NEW b, Leads(es, o, a, b),
         NEW c \in Int, c = b + ChangeOf(e, o)
  PROVE  Leads(Append(es, e), o, a, c)
<1>1. PICK f \in [0 .. Len(es) -> Int] :
        /\ f[0] = a /\ f[Len(es)] = b
        /\ \A k \in 1 .. Len(es) : f[k] = f[k - 1] + ChangeOf(es[k], o)
    BY DEF Leads
<1> DEFINE n == Len(es)
           new == Append(es, e)
           g == [k \in 0 .. n + 1 |-> IF k = n + 1 THEN c ELSE f[k]]
<1>2. n \in Nat /\ Len(new) = n + 1 /\ new[n + 1] = e /\ \A k \in 1 .. n : new[k] = es[k]
    OBVIOUS
<1> HIDE DEF new, n
<1>3. g \in [0 .. n + 1 -> Int] /\ g[0] = a /\ g[n + 1] = c /\ g[n] = b
    BY <1>1, <1>2 DEF n
<1>4. ASSUME NEW k \in 1 .. n + 1 PROVE g[k] = g[k - 1] + ChangeOf(new[k], o)
  <2>1. CASE k = n + 1
      BY <1>2, <1>3, <2>1
  <2>2. CASE k # n + 1
    <3>1. k \in 1 .. n /\ g[k] = f[k] /\ g[k - 1] = f[k - 1]
        BY <1>2, <2>2
    <3>2. QED
        BY <1>1, <1>2, <3>1 DEF n
  <2>3. QED
      BY <2>1, <2>2
<1> HIDE DEF g
<1>5. /\ g \in [0 .. Len(new) -> Int] /\ g[0] = a /\ g[Len(new)] = c
      /\ \A k \in 1 .. Len(new) : g[k] = g[k - 1] + ChangeOf(new[k], o)
    BY <1>2, <1>3, <1>4
<1>6. Leads(new, o, a, c)
    BY <1>5 DEF Leads
<1>7. QED
    BY <1>6 DEF new

\* An event that is read is one step less to go.
LEMMA LeadsTail ==
  ASSUME NEW S, NEW es \in Seq(S), es # <<>>, NEW o, NEW a, NEW b, Leads(es, o, a, b)
  PROVE  Leads(Tail(es), o, a + ChangeOf(Head(es), o), b)
<1>1. PICK f \in [0 .. Len(es) -> Int] :
        /\ f[0] = a /\ f[Len(es)] = b
        /\ \A k \in 1 .. Len(es) : f[k] = f[k - 1] + ChangeOf(es[k], o)
    BY DEF Leads
<1> DEFINE n == Len(es) - 1
           rest == Tail(es)
           g == [k \in 0 .. n |-> f[k + 1]]
<1>2. n \in Nat /\ Len(es) = n + 1 /\ Len(rest) = n /\ \A k \in 1 .. n : rest[k] = es[k + 1]
    OBVIOUS
<1>3. Head(es) = es[1]
    OBVIOUS
<1> HIDE DEF rest, n
<1>4. g \in [0 .. n -> Int] /\ g[n] = b
    BY <1>1, <1>2
<1>5. g[0] = a + ChangeOf(Head(es), o)
    BY <1>1, <1>2, <1>3
<1>6. ASSUME NEW k \in 1 .. n PROVE g[k] = g[k - 1] + ChangeOf(rest[k], o)
  <2>1. k + 1 \in 1 .. Len(es) /\ g[k] = f[k + 1] /\ g[k - 1] = f[k] /\ (k + 1) - 1 = k
      BY <1>2
  <2>2. QED
      BY <1>1, <1>2, <2>1
<1>7. QED
    BY <1>2, <1>4, <1>5, <1>6 DEF Leads, rest

\* An empty log leads nowhere.
LEMMA LeadsNowhere ==
  ASSUME NEW o, NEW a, NEW b, Leads(<<>>, o, a, b)
  PROVE  a = b
BY DEF Leads

\* Operators and channels, and the events that are logged.
Kinds == {"Operates", "Channels"}
Node == [kind : Kinds, scope : Seq(Nat), index : Nat]
NodeEvent == [kind : Kinds, id : Nat, scope : Seq(Nat)]
BatchEvent == [kind : {"Batch"}, operator : Nat, length : Nat]
MergeBegun == [kind : {"Merge"}, operator : Nat, before : Nat, complete : {FALSE}]
MergeDone == [kind : {"Merge"}, operator : Nat, before : Nat, complete : {TRUE}, size : Nat]
Event == NodeEvent \cup BatchEvent \cup MergeBegun \cup MergeDone

\* Events change the size of an operator or none.
LEMMA EventsOK ==
  ASSUME NEW e \in Event
  PROVE  EventOK(e)
<1>1. CASE e \in NodeEvent
    BY <1>1 DEF NodeEvent, Kinds, EventOK, SizeChange
<1>2. CASE e \in BatchEvent
    BY <1>2 DEF BatchEvent, EventOK, SizeChange
<1>3. CASE e \in MergeBegun
    BY <1>3 DEF MergeBegun, EventOK, SizeChange
<1>4. CASE e \in MergeDone
  <2>1. e.complete \in {TRUE}
      BY <1>4 DEF MergeDone
  <2>2. e.kind = "Merge" /\ e.operator \in Nat /\ e.size - e.before \in Int
      BY <1>4 DEF MergeDone
  <2>3. e.kind = "Merge" /\ e.complete = TRUE /\ e.operator \in Nat /\ e.size - e.before \in Int
      BY <2>1, <2>2
  <2>4. SizeChange(e) = <<<<e.operator, e.size - e.before>>>>
      BY <2>3 DEF SizeChange
  <2>5. QED
      BY <2>3, <2>4 DEF EventOK
<1>5. QED
    BY <1>1, <1>2, <1>3, <1>4 DEF Event

\* The batches of the traces.
TracesOK ==
  /\ minted \in 0 .. MaxBatches
  /\ traces = [o \in Ids |-> traces[o]]
  /\ \A o \in Ids : /\ DOMAIN traces[o] \subseteq 1 .. minted
                    /\ \A b \in DOMAIN traces[o] : traces[o][b] \in Nat

\* The types of the graph, the traces, the log and the sizes.
LogTypeOK ==
  /\ graph \in Seq(Node) /\ Len(graph) <= MaxNodes
  /\ TracesOK
  /\ events \in Seq(Event)
  /\ size \in Seq(Nat \X Int)

\* Address and index of an operator.
LEMMA NodeTypes ==
  ASSUME LogTypeOK, NEW o \in Operators
  PROVE  /\ o \in Ids /\ o \in DOMAIN graph /\ graph[o] \in Node
         /\ Address(graph[o]) \in Seq(Nat) /\ Address(graph[o]) # <<>>
<1>1. o \in DOMAIN graph /\ graph \in Seq(Node) /\ Len(graph) <= MaxNodes
    BY DEF LogTypeOK, Operators
<1>2. DOMAIN graph = 1 .. Len(graph) /\ Len(graph) \in Nat
    BY <1>1
<1>3. o \in DOMAIN graph /\ graph[o] \in Node /\ o \in Ids
    BY <1>1, <1>2, LogAssumption DEF Ids
<1>4. graph[o].scope \in Seq(Nat) /\ graph[o].index \in Nat
    BY <1>3 DEF Node
<1>5. QED
    BY <1>3, <1>4 DEF Address

\* The siblings of an operator are finitely many, so it has an index.
LEMMA SiblingsCount ==
  ASSUME LogTypeOK, NEW in
  PROVE  /\ IsFiniteSet({i \in Operators : graph[i].scope = in})
         /\ IndexIn(in) \in Nat
<1> DEFINE sib == {i \in Operators : graph[i].scope = in}
<1>1. Len(graph) \in Nat /\ sib \subseteq 1 .. Len(graph)
    BY DEF LogTypeOK, Operators
<1>2. IsFiniteSet(1 .. Len(graph))
    BY <1>1, FS_Interval
<1>3. IsFiniteSet(sib)
    BY <1>1, <1>2, FS_Subset
<1>4. Cardinality(sib) \in Nat
    BY <1>3, FS_CardinalityType
<1>5. QED
    BY <1>3, <1>4 DEF IndexIn

\* The lengths of the batches in a trace, 0 for those merged away.
Lengths(o) == [b \in BatchNumbers |-> IF b \in DOMAIN traces[o] THEN traces[o][b] ELSE 0]

\* The size of a trace is the sum of its lengths, a number.
LEMMA LengthsType ==
  ASSUME LogTypeOK, NEW o \in Ids
  PROVE  /\ \A b \in 1 .. MaxBatches : Lengths(o)[b] \in Int
         /\ TraceSize(o) = SumTo(Lengths(o), MaxBatches) /\ TraceSize(o) \in Int
<1>1. \A b \in 1 .. MaxBatches : Lengths(o)[b] \in Int
    BY DEF LogTypeOK, TracesOK, Lengths, BatchNumbers
<1>2. TraceSize(o) = SumTo(Lengths(o), MaxBatches)
    BY DEF TraceSize, Lengths
<1>3. QED
    BY <1>1, <1>2, SumToSame, LogAssumption

\* Only the trace of an operator changes.
LEMMA OneTrace ==
  ASSUME LogTypeOK, NEW o \in Ids, NEW new, traces' = [traces EXCEPT ![o] = new],
         minted' \in 0 .. MaxBatches, minted <= minted',
         DOMAIN new \subseteq 1 .. minted', \A b \in DOMAIN new : new[b] \in Nat
  PROVE  /\ TracesOK' /\ traces'[o] = new
         /\ \A p \in Ids : p # o => TraceSize(p)' = TraceSize(p)
<1>1. traces' = [p \in Ids |-> traces'[p]] /\ traces'[o] = new
    BY DEF LogTypeOK, TracesOK
<1>2. ASSUME NEW p \in Ids, p # o PROVE traces'[p] = traces[p]
    BY <1>2 DEF LogTypeOK, TracesOK
<1>3. ASSUME NEW p \in Ids, p # o PROVE TraceSize(p)' = TraceSize(p)
    BY <1>2, <1>3 DEF TraceSize
<1>4. ASSUME NEW p \in Ids
      PROVE  DOMAIN traces'[p] \subseteq 1 .. minted' /\ \A b \in DOMAIN traces'[p] : traces'[p][b] \in Nat
  <2>1. CASE p = o
      BY <1>1, <2>1
  <2>2. CASE p # o
      BY <1>2, <2>2, LogAssumption DEF LogTypeOK, TracesOK
  <2>3. QED
      BY <2>1, <2>2
<1>5. QED
    BY <1>1, <1>3, <1>4 DEF TracesOK

\* A step of a trace logs what it changes.
TraceStep ==
  \E e \in Event :
    /\ events' = Append(events, e) /\ UNCHANGED <<graph, scope, size>> /\ TracesOK'
    /\ \A p \in Ids : TraceSize(p)' = TraceSize(p) + ChangeOf(e, p)

\* A batch adds its length.
LEMMA MintStep ==
  ASSUME LogTypeOK, NEW o \in Operators, NEW n \in 1 .. MaxLength, Mint(o, n)
  PROVE  TraceStep
<1> USE LogAssumption
<1> DEFINE r == minted + 1
           e == [kind |-> "Batch", operator |-> o, length |-> n]
           new == [b \in DOMAIN traces[o] \cup {r} |-> IF b = r THEN n ELSE traces[o][b]]
           f == Lengths(o)
           g == Lengths(o)'
<1>1. o \in Ids /\ o \in Nat /\ n \in Nat /\ minted \in Nat /\ r \in 1 .. MaxBatches /\ minted' = r
  <2>1. o \in Ids /\ o \in Nat /\ n \in Nat
      BY NodeTypes DEF Ids
  <2>2. minted \in 0 .. MaxBatches /\ minted < MaxBatches /\ minted' = r
      BY DEF Mint, LogTypeOK, TracesOK
  <2>3. QED
      BY <2>1, <2>2
<1>2. events' = Append(events, e) /\ UNCHANGED <<graph, scope, size>>
    BY DEF Mint, Logged
<1>3. traces' = [traces EXCEPT ![o] = new]
    BY <1>1 DEF Mint
<1>4. /\ DOMAIN new \subseteq 1 .. minted' /\ \A b \in DOMAIN new : new[b] \in Nat
      /\ r \notin DOMAIN traces[o]
    BY <1>1 DEF LogTypeOK, TracesOK
<1> HIDE DEF r
<1>5. /\ f[r] = 0 /\ (traces'[o] = new => g[r] = n)
      /\ traces'[o] = new => \A b \in 1 .. MaxBatches : b # r => g[b] = f[b]
    BY <1>1, <1>4 DEF Lengths, BatchNumbers
<1>6. e \in Event /\ SizeChange(e) = <<<<o, n>>>>
    BY <1>1 DEF Event, BatchEvent, SizeChange
<1> HIDE DEF new, e
<1>7. TracesOK' /\ traces'[o] = new /\ \A p \in Ids : p # o => TraceSize(p)' = TraceSize(p)
  <2>1. minted' \in 0 .. MaxBatches /\ minted <= minted'
      BY <1>1 DEF r
  <2>2. QED
      BY <1>1, <1>3, <1>4, <2>1, OneTrace
<1>8. TraceSize(o)' = TraceSize(o) + n
  <2>1. \A b \in 1 .. MaxBatches : f[b] \in Int
      BY <1>1, LengthsType
  <2>2. TraceSize(o) = SumTo(f, MaxBatches) /\ TraceSize(o)' = SumTo(g, MaxBatches)
      BY DEF TraceSize, Lengths
  <2> HIDE DEF f, g
  <2>3. g[r] = f[r] + n /\ n \in Int /\ MaxBatches \in Nat
      BY <1>1, <1>5, <1>7
  <2>4. SumTo(g, MaxBatches) = SumTo(f, MaxBatches) + n
      BY <1>1, <1>5, <1>7, <2>1, <2>3, SumToChange
  <2>5. QED
      BY <2>2, <2>4
<1>9. ASSUME NEW p \in Ids PROVE TraceSize(p)' = TraceSize(p) + ChangeOf(e, p)
  <2>1. ChangeOf(e, p) = IF p = o THEN n ELSE 0
      BY <1>6 DEF ChangeOf
  <2>2. QED
      BY <1>7, <1>8, <2>1, LengthsType
<1>10. QED
    BY <1>2, <1>6, <1>7, <1>9 DEF TraceStep

\* The start of a merge changes nothing.
LEMMA BeginMergeStep ==
  ASSUME LogTypeOK, NEW o \in Operators, NEW a \in DOMAIN traces[o], NEW b \in DOMAIN traces[o],
         BeginMerge(o, a, b)
  PROVE  TraceStep
<1> DEFINE before == traces[o][a] + traces[o][b]
           e == [kind |-> "Merge", operator |-> o, before |-> before, complete |-> FALSE]
<1>1. o \in Ids /\ o \in Nat
    BY NodeTypes, LogAssumption DEF Ids
<1>2. before \in Nat
    BY <1>1 DEF LogTypeOK, TracesOK
<1>3. events' = Append(events, e) /\ UNCHANGED <<graph, traces, minted, scope, size>>
    BY DEF BeginMerge, Logged
<1> HIDE DEF before
<1>4. e \in Event
    BY <1>1, <1>2 DEF Event, MergeBegun
<1>5. SizeChange(e) = <<>>
    BY DEF SizeChange
<1> HIDE DEF e
<1>6. TracesOK'
    BY <1>3 DEF LogTypeOK, TracesOK
<1>7. ASSUME NEW p \in Ids PROVE TraceSize(p)' = TraceSize(p) + ChangeOf(e, p)
  <2>1. TraceSize(p)' = TraceSize(p)
      BY <1>3 DEF TraceSize
  <2>2. QED
      BY <1>5, <2>1, LengthsType DEF ChangeOf
<1>8. QED
    BY <1>3, <1>4, <1>6, <1>7 DEF TraceStep

\* A merge takes off what it saves.
LEMMA CompleteMergeStep ==
  ASSUME LogTypeOK, NEW o \in Operators, NEW a \in DOMAIN traces[o], NEW b \in DOMAIN traces[o],
         NEW n \in 0 .. traces[o][a] + traces[o][b], CompleteMerge(o, a, b, n)
  PROVE  TraceStep
<1> USE LogAssumption
<1> DEFINE la == traces[o][a]
           lb == traces[o][b]
           e == [kind |-> "Merge", operator |-> o, before |-> la + lb, complete |-> TRUE, size |-> n]
           new == [c \in DOMAIN traces[o] \ {b} |-> IF c = a THEN n ELSE traces[o][c]]
           f == Lengths(o)
           g == Lengths(o)'
<1>1. o \in Ids /\ o \in Nat
    BY NodeTypes DEF Ids
<1>2. /\ a \in 1 .. MaxBatches /\ b \in 1 .. MaxBatches /\ a # b
      /\ la \in Nat /\ lb \in Nat /\ n \in Nat
  <2>1. a \in 1 .. MaxBatches /\ b \in 1 .. MaxBatches /\ la \in Nat /\ lb \in Nat
      BY <1>1 DEF LogTypeOK, TracesOK
  <2>2. a < b
      BY DEF CompleteMerge
  <2>3. QED
      BY <2>1, <2>2
<1>3. events' = Append(events, e) /\ UNCHANGED <<graph, minted, scope, size>>
    BY DEF CompleteMerge, Logged
<1>4. traces' = [traces EXCEPT ![o] = new]
    BY DEF CompleteMerge
<1>5. DOMAIN new \subseteq 1 .. minted' /\ \A c \in DOMAIN new : new[c] \in Nat
    BY <1>1, <1>2, <1>3 DEF LogTypeOK, TracesOK
<1>6. f[a] = la /\ f[b] = lb
    BY <1>2 DEF Lengths, BatchNumbers
<1>7. traces'[o] = new =>
        g[a] = n /\ g[b] = 0 /\ \A c \in (1 .. MaxBatches) \ {a, b} : g[c] = f[c]
    BY <1>1, <1>2 DEF Lengths, BatchNumbers
<1> HIDE DEF new, la, lb
<1>8. TracesOK' /\ traces'[o] = new /\ \A p \in Ids : p # o => TraceSize(p)' = TraceSize(p)
  <2>1. minted' \in 0 .. MaxBatches /\ minted <= minted'
      BY <1>3 DEF LogTypeOK, TracesOK
  <2>2. QED
      BY <1>1, <1>4, <1>5, <2>1, OneTrace
<1>9. TraceSize(o)' = TraceSize(o) + (n - (la + lb))
  <2>1. \A c \in 1 .. MaxBatches : f[c] \in Int
      BY <1>1, LengthsType
  <2>2. TraceSize(o) = SumTo(f, MaxBatches) /\ TraceSize(o)' = SumTo(g, MaxBatches)
      BY DEF TraceSize, Lengths
  <2> HIDE DEF f, g
  <2>3. g[a] = n /\ g[b] = 0 /\ \A c \in (1 .. MaxBatches) \ {a, b} : g[c] = f[c]
      BY <1>7, <1>8
  <2>4. MaxBatches \in Nat /\ a \in 1 .. MaxBatches /\ b \in 1 .. MaxBatches /\ a # b /\ g[a] \in Int
      BY <1>2, <2>3
  <2>5. Merges(f, g, a, b, MaxBatches)
      BY <2>1, <2>3, <2>4 DEF Merges
  <2>6. SumTo(g, MaxBatches) = SumTo(f, MaxBatches) + (g[a] - (f[a] + f[b]))
      BY <2>4, <2>5, SumToMerge
  <2>7. QED
      BY <1>6, <2>2, <2>3, <2>6
<1>10. e \in Event
    BY <1>1, <1>2 DEF Event, MergeDone
<1>11. SizeChange(e) = <<<<o, n - (la + lb)>>>>
    BY DEF SizeChange
<1> HIDE DEF e
<1>12. ASSUME NEW p \in Ids PROVE TraceSize(p)' = TraceSize(p) + ChangeOf(e, p)
  <2>1. ChangeOf(e, p) = IF p = o THEN n - (la + lb) ELSE 0
      BY <1>11 DEF ChangeOf
  <2>2. TraceSize(p) \in Int
      BY LengthsType
  <2>3. CASE p = o
      BY <1>9, <2>1, <2>3
  <2>4. CASE p # o
    <3>1. TraceSize(p)' = TraceSize(p) /\ ChangeOf(e, p) = 0
        BY <1>8, <2>1, <2>4
    <3>2. QED
        BY <2>2, <3>1
  <2>5. QED
      BY <2>3, <2>4
<1>13. QED
    BY <1>3, <1>8, <1>10, <1>12 DEF TraceStep

\* A step adds a node to the graph, changes a trace, or reads the log.
LEMMA LogSteps ==
  ASSUME LogTypeOK, LogsNext
  PROVE  \/ \E kind \in Kinds, in \in Seq(Nat) : NewNode(kind, in)
         \/ TraceStep
         \/ ReadLog
<1>1. CASE NewNode("Operates", <<>>)
  <2>1. "Operates" \in Kinds /\ <<>> \in Seq(Nat)
      BY DEF Kinds
  <2>2. QED
      BY <1>1, <2>1
<1>2. ASSUME NEW o \in Operators, NEW kind \in Kinds, NewNode(kind, Address(graph[o]))
      PROVE  \E k \in Kinds, in \in Seq(Nat) : NewNode(k, in)
    BY <1>2, NodeTypes
<1>3. QED
    BY <1>1, <1>2, MintStep, BeginMergeStep, CompleteMergeStep DEF LogsNext, Kinds

\* Reading an event reports its change.
LEMMA ReadReports ==
  ASSUME LogTypeOK, ReadLog, "differential" \in Introspect, NEW o \in Ids
  PROVE  /\ ReportedSize(o) \in Int
         /\ ReportedSize(o)' = ReportedSize(o) + ChangeOf(Head(events), o)
<1> DEFINE of(s) == [i \in DOMAIN s |-> IF s[i][1] = o THEN s[i][2] ELSE 0]
           e == Head(events)
<1>1. e \in Event /\ size' = size \o SizeChange(e) /\ size \in Seq(Nat \X Int)
    BY DEF ReadLog, LogTypeOK
<1> HIDE DEF e
<1>2. Len(size) \in Nat /\ \A i \in 1 .. Len(size) : of(size)[i] \in Int
  <2>1. Len(size) \in Nat /\ DOMAIN size = 1 .. Len(size) /\ \A i \in 1 .. Len(size) : size[i] \in Nat \X Int
      BY <1>1
  <2>2. \A i \in 1 .. Len(size) : size[i][2] \in Int
      BY <2>1
  <2>3. QED
      BY <2>1, <2>2
<1>3. /\ ReportedSize(o) = SumTo(of(size), Len(size))
      /\ ReportedSize(o)' = SumTo(of(size'), Len(size'))
    BY DEF ReportedSize
<1>4. ReportedSize(o) \in Int
    BY <1>2, <1>3, SumToSame
<1>5. CASE SizeChange(e) = <<>>
  <2>1. size' = size
      BY <1>1, <1>5
  <2>2. ChangeOf(e, o) = 0
      BY <1>5 DEF ChangeOf
  <2>3. QED
      BY <1>3, <1>4, <2>1, <2>2 DEF e
<1>6. CASE \E i \in Nat, k \in Int : SizeChange(e) = <<<<i, k>>>>
  <2>1. PICK i \in Nat, k \in Int : SizeChange(e) = <<<<i, k>>>>
      BY <1>6
  <2> DEFINE n == Len(size)
             new == size'
  <2>2. Len(new) = n + 1 /\ new[n + 1] = <<i, k>> /\ \A j \in 1 .. n : new[j] = size[j]
    <3>1. <<i, k>> \in Nat \X Int
        OBVIOUS
    <3>2. new = size \o <<<<i, k>>>>
        BY <1>1, <2>1
    <3> HIDE DEF new
    <3>3. QED
        BY <1>1, <3>1, <3>2
  <2>3. DOMAIN new = 1 .. n + 1 /\ DOMAIN size = 1 .. n
    <3>1. new \in Seq(Nat \X Int)
        BY <1>1, <2>1
    <3>2. QED
        BY <1>1, <2>2, <3>1
  <2> DEFINE f == of(size)
             g == of(new)
  <2>4. ChangeOf(e, o) = (IF i = o THEN k ELSE 0) /\ g[n + 1] = (IF i = o THEN k ELSE 0)
    <3>1. n + 1 \in 1 .. n + 1
        BY <1>2
    <3>2. g[n + 1] = IF new[n + 1][1] = o THEN new[n + 1][2] ELSE 0
        BY <2>3, <3>1
    <3>3. ChangeOf(e, o) = IF i = o THEN k ELSE 0
        BY <2>1 DEF ChangeOf
    <3>4. QED
        BY <2>2, <3>2, <3>3
  <2>5. \A j \in 1 .. n : f[j] = g[j] /\ g[j] \in Int
    <3>1. ASSUME NEW j \in 1 .. n PROVE f[j] = g[j]
      <4>1. j \in DOMAIN size /\ j \in DOMAIN new /\ new[j] = size[j]
          BY <1>2, <2>2, <2>3
      <4>2. QED
          BY <4>1
    <3>2. QED
        BY <1>2, <3>1
  <2>6. \A j \in 1 .. n + 1 : g[j] \in Int
    <3>1. ASSUME NEW j \in 1 .. n + 1 PROVE g[j] \in Int
      <4>1. j = n + 1 \/ j \in 1 .. n
          BY <1>2
      <4>2. (IF i = o THEN k ELSE 0) \in Int
          OBVIOUS
      <4> HIDE DEF g
      <4>3. g[n + 1] \in Int
          BY <2>4, <4>2
      <4>4. QED
          BY <2>5, <4>1, <4>3
    <3>2. QED
        BY <3>1
  <2> HIDE DEF f, g, new, n
  <2>7. SumTo(g, n + 1) = SumTo(f, n) + g[n + 1]
    <3>1. n \in Nat
        BY <1>2 DEF n
    <3>2. \A j \in 1 .. n : f[j] = g[j]
        BY <2>5
    <3>3. QED
        BY <2>6, <3>1, <3>2, SumToNext
  <2>8. ReportedSize(o) = SumTo(f, n) /\ ReportedSize(o)' = SumTo(g, n + 1)
      BY <1>3, <2>2 DEF f, g, n, new
  <2>9. QED
      BY <1>4, <2>4, <2>7, <2>8 DEF e
<1>7. QED
    BY <1>1, <1>5, <1>6, EventsOK DEF EventOK

\* Every step keeps the types.
LEMMA LogTypeStep ==
  ASSUME LogTypeOK, [LogsNext]_logVars
  PROVE  LogTypeOK'
<1>1. ASSUME NEW kind \in Kinds, NEW in \in Seq(Nat), NewNode(kind, in) PROVE LogTypeOK'
  <2> DEFINE node == [kind |-> kind, scope |-> in,
                      index |-> IF kind = "Operates" THEN IndexIn(in) ELSE 0]
             e == [kind |-> kind, id |-> Len(graph) + 1, scope |-> in]
  <2>1. IndexIn(in) \in Nat
      BY SiblingsCount
  <2>2. Len(graph) \in Nat
      BY DEF LogTypeOK
  <2>3. node \in Node
      BY <2>1 DEF Node
  <2>4. e \in Event
    <3>1. e \in NodeEvent
        BY <2>2 DEF NodeEvent
    <3>2. QED
        BY <3>1 DEF Event
  <2>5. graph' = Append(graph, node) /\ events' = Append(events, e) /\ Len(graph) < MaxNodes
        /\ UNCHANGED <<traces, minted, size>>
      BY <1>1 DEF NewNode, Logged
  <2> HIDE DEF node, e
  <2>6. graph' \in Seq(Node) /\ Len(graph') <= MaxNodes /\ events' \in Seq(Event)
      BY <2>3, <2>4, <2>5, LogAssumption DEF LogTypeOK
  <2>7. QED
      BY <2>5, <2>6 DEF LogTypeOK, TracesOK
<1>2. CASE TraceStep
    BY <1>2 DEF TraceStep, LogTypeOK
<1>3. ASSUME ReadLog PROVE LogTypeOK'
  <2> DEFINE change == SizeChange(Head(events))
  <2>1. /\ events # <<>> /\ events' = Tail(events) /\ UNCHANGED <<graph, traces, minted>>
        /\ size' = IF "differential" \in Introspect THEN size \o change ELSE size
      BY <1>3 DEF ReadLog
  <2>2. events' \in Seq(Event) /\ Head(events) \in Event
      BY <2>1 DEF LogTypeOK
  <2>3. change = <<>> \/ \E i \in Nat, k \in Int : change = <<<<i, k>>>>
      BY <2>2, EventsOK DEF EventOK
  <2> HIDE DEF change
  <2>4. CASE change = <<>>
    <3>1. <<>> \in Seq(Nat \X Int)
        OBVIOUS
    <3>2. size' \in Seq(Nat \X Int)
        BY <2>1, <2>4, <3>1 DEF LogTypeOK
    <3>3. QED
        BY <2>1, <2>2, <3>2 DEF LogTypeOK, TracesOK
  <2>5. ASSUME NEW i \in Nat, NEW k \in Int, change = <<<<i, k>>>> PROVE LogTypeOK'
    <3>1. <<i, k>> \in Nat \X Int
        OBVIOUS
    <3>2. change \in Seq(Nat \X Int)
        BY <2>5, <3>1
    <3>3. size' \in Seq(Nat \X Int)
        BY <2>1, <3>2 DEF LogTypeOK
    <3>4. QED
        BY <2>1, <2>2, <3>3 DEF LogTypeOK, TracesOK
  <2>6. QED
      BY <2>3, <2>4, <2>5
<1>4. CASE UNCHANGED logVars
    BY <1>4 DEF logVars, LogTypeOK, TracesOK
<1>5. QED
    BY <1>1, <1>2, <1>3, <1>4, LogSteps
-----------------------------------------------------------------------------
\* What the log has still to say of a size is what is missing from it.
SizesInv ==
  "differential" \in Introspect =>
    \A o \in Ids : Leads(events, o, ReportedSize(o), TraceSize(o))

\* Every step keeps the account of the sizes.
LEMMA SizesStep ==
  ASSUME LogTypeOK, SizesInv, [LogsNext]_logVars
  PROVE  SizesInv'
<1> SUFFICES ASSUME "differential" \in Introspect, NEW p \in Ids
             PROVE  Leads(events', p, ReportedSize(p)', TraceSize(p)')
    BY DEF SizesInv
<1>1. Leads(events, p, ReportedSize(p), TraceSize(p)) /\ events \in Seq(Event) /\ TraceSize(p) \in Int
    BY LengthsType DEF SizesInv, LogTypeOK
<1>2. size' = size => ReportedSize(p)' = ReportedSize(p)
    BY DEF ReportedSize
<1>3. traces' = traces => TraceSize(p)' = TraceSize(p)
    BY DEF TraceSize
<1>4. ASSUME NEW e \in Event, events' = Append(events, e), size' = size,
             TraceSize(p)' = TraceSize(p) + ChangeOf(e, p)
      PROVE  Leads(events', p, ReportedSize(p)', TraceSize(p)')
  <2>1. ChangeOf(e, p) \in Int
      BY EventsOK, ChangeIsInt
  <2>2. TraceSize(p)' \in Int
      BY <1>1, <1>4, <2>1
  <2>3. Leads(Append(events, e), p, ReportedSize(p), TraceSize(p)')
      BY <1>1, <1>4, <2>2, LeadsAppend
  <2>4. QED
      BY <1>2, <1>4, <2>3
<1>5. ASSUME NEW kind \in Kinds, NEW in \in Seq(Nat), NewNode(kind, in)
      PROVE  Leads(events', p, ReportedSize(p)', TraceSize(p)')
  <2> DEFINE e == [kind |-> kind, id |-> Len(graph) + 1, scope |-> in]
  <2>1. Len(graph) + 1 \in Nat
      BY DEF LogTypeOK
  <2>2. e \in Event
      BY <2>1 DEF Event, NodeEvent
  <2>3. events' = Append(events, e) /\ size' = size /\ traces' = traces
      BY <1>5 DEF NewNode, Logged
  <2>4. e.kind = kind /\ kind # "Batch" /\ kind # "Merge"
      BY DEF Kinds
  <2>5. ChangeOf(e, p) = 0
      BY <2>4 DEF ChangeOf, SizeChange
  <2> HIDE DEF e
  <2>6. QED
      BY <1>1, <1>3, <1>4, <2>2, <2>3, <2>5
<1>6. CASE TraceStep
    BY <1>4, <1>6 DEF TraceStep
<1>7. CASE ReadLog
  <2>1. events # <<>> /\ events' = Tail(events) /\ traces' = traces
      BY <1>7 DEF ReadLog
  <2>2. ReportedSize(p)' = ReportedSize(p) + ChangeOf(Head(events), p)
      BY <1>7, ReadReports
  <2>3. Leads(Tail(events), p, ReportedSize(p) + ChangeOf(Head(events), p), TraceSize(p))
      BY <1>1, <2>1, LeadsTail
  <2>4. QED
      BY <1>3, <2>1, <2>2, <2>3
<1>8. CASE UNCHANGED logVars
    BY <1>1, <1>2, <1>3, <1>8 DEF logVars
<1>9. QED
    BY <1>5, <1>6, <1>7, <1>8, LogSteps
-----------------------------------------------------------------------------
\* The invariant.
LogInv == LogTypeOK /\ SizesInv

\* Nothing is logged at the start.
LEMMA LogInvInit == LogsInit => LogInv
<1> SUFFICES ASSUME LogsInit PROVE LogInv
    OBVIOUS
<1> USE LogAssumption
<1>1. LogTypeOK
    BY DEF LogsInit, LogTypeOK, TracesOK
<1>2. ASSUME NEW o \in Ids PROVE Leads(events, o, ReportedSize(o), TraceSize(o))
  <2>1. ReportedSize(o) = 0
    <3> DEFINE f == [i \in DOMAIN size |-> IF size[i][1] = o THEN size[i][2] ELSE 0]
               s == [i \in 0 .. 0 |-> 0]
    <3>1. s \in [0 .. 0 -> Int] /\ Sums(s, f, 0) /\ \A i \in 1 .. 0 : f[i] \in Int
        BY DEF Sums
    <3> HIDE DEF f, s
    <3>2. SumTo(f, 0) = s[0]
        BY <3>1, SumToIs
    <3>3. ReportedSize(o) = SumTo(f, 0)
        BY DEF ReportedSize, f, LogsInit
    <3>4. QED
        BY <3>2, <3>3 DEF s
  <2>2. TraceSize(o) = 0
    <3> DEFINE f == Lengths(o)
               s == [i \in 0 .. MaxBatches |-> 0]
    <3>1. \A i \in 1 .. MaxBatches : f[i] = 0
        BY DEF Lengths, LogsInit, BatchNumbers
    <3> HIDE DEF f
    <3>2. s \in [0 .. MaxBatches -> Int] /\ Sums(s, f, MaxBatches) /\ s[MaxBatches] = 0
        BY <3>1 DEF Sums
    <3> HIDE DEF s
    <3>3. \A i \in 1 .. MaxBatches : f[i] \in Int
        BY <3>1
    <3>4. SumTo(f, MaxBatches) = s[MaxBatches]
        BY <3>2, <3>3, SumToIs
    <3>5. QED
        BY <1>1, <3>2, <3>4, LengthsType DEF f
  <2>3. events = <<>>
      BY DEF LogsInit
  <2> DEFINE f == [i \in 0 .. 0 |-> 0]
  <2>4. Len(events) = 0 /\ f \in [0 .. 0 -> Int] /\ f[0] = 0
      BY <2>3
  <2> HIDE DEF f
  <2>5. QED
      BY <2>1, <2>2, <2>4 DEF Leads
<1>3. QED
    BY <1>1, <1>2 DEF LogInv, SizesInv

\* Once the log is read, the sizes the source reports add up to those of the
\* traces (differential_logging.rs), for every graph, every number of batches
\* and every order of merges and reads.
THEOREM SizesTellTheTraces == LogsSpec => []SizesAddUp
<1>1. LogInv /\ [LogsNext]_logVars => LogInv'
    BY LogTypeStep, SizesStep DEF LogInv
<1>2. LogInv => SizesAddUp
    BY LeadsNowhere DEF LogInv, SizesInv, SizesAddUp
<1>3. QED
    BY <1>1, <1>2, LogInvInit, PTL DEF LogsSpec
=============================================================================
