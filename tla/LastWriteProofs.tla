---------------------------- MODULE LastWriteProofs ----------------------------
(***************************************************************************)
(* Proof that the last_write_wins operator implements LatestValue, for     *)
(* every set of entities and values and every bound on times and updates.  *)
(* Facts about running sums come first; an argument by induction over time *)
(* is made by taking the least time that breaks the claim.                 *)
(***************************************************************************)
EXTENDS LastWriteWins, WellFoundedInduction, TLAPS

\* A non-empty set of times has a least element.
LEMMA LeastTime ==
  ASSUME NEW S, S \subseteq WriteTimes, S # {}
  PROVE  \E m \in S : \A n \in S : m <= n
<1> DEFINE R == OpToRel(<, Nat)
<1>1. IsWellFoundedOn(R, Nat)
    BY NatLessThanWellFounded, Zenon
<1> HIDE DEF R
<1>2. S \subseteq Nat
    BY WriteAssumption DEF WriteTimes
<1>3. \E m \in S : \A n \in S : ~ (<<n, m>> \in R)
    BY <1>1, <1>2, WFMin, Zenon
<1>4. PICK m \in S : \A n \in S : ~ (<<n, m>> \in R)
    BY <1>3
<1>5. ASSUME NEW n \in S PROVE m <= n
  <2>1. <<n, m>> \notin R /\ m \in Nat /\ n \in Nat
      BY <1>2, <1>4
  <2>2. n < m => <<n, m>> \in R
      BY <2>1 DEF OpToRel, R
  <2>3. QED
      BY <2>1, <2>2
<1>6. QED
    BY <1>4, <1>5

\* Up to every time there is a function that satisfies the recursion.
LEMMA PartialSums ==
  ASSUME NEW d \in [WriteTimes -> Int], NEW n \in WriteTimes
  PROVE  \E g \in [0 .. n -> Int] :
           \A s \in 0 .. n : g[s] = d[s] + IF s = 0 THEN 0 ELSE g[s - 1]
<1> DEFINE Sums(m, g) == \A s \in 0 .. m : g[s] = d[s] + IF s = 0 THEN 0 ELSE g[s - 1]
           Bad == {m \in WriteTimes : ~ \E g \in [0 .. m -> Int] : Sums(m, g)}
<1>1. ASSUME NEW m \in Bad, \A k \in Bad : m <= k PROVE FALSE
  <2>1. m \in Nat /\ m \in WriteTimes /\ \A s \in 0 .. m : s \in WriteTimes /\ d[s] \in Int
      BY WriteAssumption DEF WriteTimes
  <2>2. CASE m = 0
    <3> DEFINE g == [s \in 0 .. m |-> d[s]]
    <3>1. g \in [0 .. m -> Int] /\ Sums(m, g)
        BY <2>1, <2>2
    <3>2. QED
        BY <3>1
  <2>3. CASE m # 0
    <3>1. m - 1 \in WriteTimes /\ m - 1 \in Nat
        BY <2>1, <2>3, WriteAssumption DEF WriteTimes
    <3>2. m - 1 \notin Bad
        BY <1>1, <2>1
    <3>3. PICK g \in [0 .. (m - 1) -> Int] : Sums(m - 1, g)
        BY <3>1, <3>2
    <3> DEFINE h == [s \in 0 .. m |-> IF s = m THEN d[m] + g[m - 1] ELSE g[s]]
    <3>4. h \in [0 .. m -> Int]
        BY <2>1, <2>3, <3>1, <3>3
    <3>5. ASSUME NEW s \in 0 .. m PROVE h[s] = d[s] + IF s = 0 THEN 0 ELSE h[s - 1]
      <4>1. CASE s = m
          BY <2>1, <2>3, <3>1, <3>3, <4>1
      <4>2. CASE s # m
        <5>1. s \in 0 .. (m - 1) /\ (s # 0 => s - 1 \in 0 .. (m - 1))
            BY <2>1, <4>2
        <5>2. h[s] = g[s] /\ (s # 0 => h[s - 1] = g[s - 1])
            BY <2>1, <4>2, <5>1
        <5>3. g[s] = d[s] + IF s = 0 THEN 0 ELSE g[s - 1]
            BY <3>3, <5>1
        <5>4. QED
            BY <5>2, <5>3
      <4>3. QED
          BY <4>1, <4>2
    <3>6. QED
        BY <3>4, <3>5
  <2>4. QED
      BY <2>2, <2>3
<1>2. Bad = {}
    BY <1>1, LeastTime
<1>3. QED
    BY <1>2

\* The running sum of the diffs satisfies its recursion.
LEMMA RunningSumDef ==
  ASSUME NEW d \in [WriteTimes -> Int]
  PROVE  /\ RunningSum(d) \in [WriteTimes -> Int]
         /\ \A s \in WriteTimes :
              RunningSum(d)[s] = d[s] + IF s = 0 THEN 0 ELSE RunningSum(d)[s - 1]
<1> DEFINE F(g) == [s \in WriteTimes |-> d[s] + IF s = 0 THEN 0 ELSE g[s - 1]]
           sum == CHOOSE g : g = F(g)
<1>1. MaxWriteTime \in WriteTimes
    BY WriteAssumption DEF WriteTimes
<1>2. PICK g \in [WriteTimes -> Int] :
        \A s \in WriteTimes : g[s] = d[s] + IF s = 0 THEN 0 ELSE g[s - 1]
    BY <1>1, PartialSums DEF WriteTimes
<1>3. g = F(g)
    BY <1>2
<1>4. sum = F(sum)
    BY <1>3
<1>5. RunningSum(d) = sum
    BY DEF RunningSum
<1> HIDE DEF sum
<1>6. \A s \in WriteTimes : sum[s] = d[s] + IF s = 0 THEN 0 ELSE sum[s - 1]
    BY <1>4
<1> DEFINE Bad == {s \in WriteTimes : sum[s] \notin Int}
<1>7. ASSUME NEW m \in Bad, \A k \in Bad : m <= k PROVE FALSE
  <2>1. m \in WriteTimes /\ m \in Nat /\ d[m] \in Int
      BY WriteAssumption DEF WriteTimes
  <2>2. m # 0 => m - 1 \in WriteTimes /\ m - 1 \notin Bad
      BY <1>7, <2>1, WriteAssumption DEF WriteTimes
  <2>3. QED
      BY <1>6, <2>1, <2>2
<1>8. Bad = {}
    BY <1>7, LeastTime
<1>9. sum \in [WriteTimes -> Int]
    BY <1>4, <1>8
<1>10. QED
    BY <1>5, <1>6, <1>9

\* A diff added at one time changes the sums from that time on.
LEMMA RunningSumShift ==
  ASSUME NEW d \in [WriteTimes -> Int], NEW c \in [WriteTimes -> Int],
         NEW r \in WriteTimes, NEW k \in Int,
         \A s \in WriteTimes : c[s] = d[s] + IF s = r THEN k ELSE 0,
         NEW t \in WriteTimes
  PROVE  RunningSum(c)[t] = RunningSum(d)[t] + IF r <= t THEN k ELSE 0
<1> DEFINE D == RunningSum(d)
           C == RunningSum(c)
           Bad == {s \in WriteTimes : C[s] # D[s] + IF r <= s THEN k ELSE 0}
<1>1. /\ D \in [WriteTimes -> Int] /\ C \in [WriteTimes -> Int]
      /\ \A s \in WriteTimes : D[s] = d[s] + IF s = 0 THEN 0 ELSE D[s - 1]
      /\ \A s \in WriteTimes : C[s] = c[s] + IF s = 0 THEN 0 ELSE C[s - 1]
    BY RunningSumDef
<1> HIDE DEF C, D
<1>2. ASSUME NEW m \in Bad, \A s \in Bad : m <= s PROVE FALSE
  <2>1. /\ m \in WriteTimes /\ m \in Nat /\ r \in Nat /\ d[m] \in Int /\ c[m] \in Int
        /\ D[m] \in Int /\ C[m] \in Int
      BY <1>1, WriteAssumption DEF WriteTimes
  <2>2. c[m] = d[m] + IF m = r THEN k ELSE 0
      BY <2>1
  <2>3. CASE m = 0
      BY <1>1, <2>1, <2>2, <2>3
  <2>4. CASE m # 0
    <3>1. m - 1 \in WriteTimes /\ m - 1 \in Nat
        BY <2>1, <2>4, WriteAssumption DEF WriteTimes
    <3>2. m - 1 \notin Bad
        BY <1>2, <2>1
    <3>3. C[m - 1] = D[m - 1] + IF r <= m - 1 THEN k ELSE 0
        BY <3>1, <3>2
    <3>4. D[m] = d[m] + D[m - 1] /\ C[m] = c[m] + C[m - 1]
        BY <1>1, <2>1, <2>4
    <3>5. D[m - 1] \in Int /\ C[m - 1] \in Int
        BY <1>1, <3>1
    <3>6. C[m] = D[m] + IF r <= m THEN k ELSE 0
      <4>1. CASE m = r
          BY <2>1, <2>2, <3>3, <3>4, <3>5, <4>1
      <4>2. CASE m # r
          BY <2>1, <2>2, <3>3, <3>4, <3>5, <4>2
      <4>3. QED
          BY <4>1, <4>2
    <3>7. QED
        BY <3>6
  <2>5. QED
      BY <2>3, <2>4
<1>3. Bad = {}
    BY <1>2, LeastTime
<1>4. QED
    BY <1>3 DEF C, D

\* Without diffs the sum stays as it is.
LEMMA RunningSumRests ==
  ASSUME NEW d \in [WriteTimes -> Int], NEW r \in WriteTimes, NEW t \in WriteTimes, r <= t,
         \A s \in WriteTimes : r < s => d[s] = 0
  PROVE  RunningSum(d)[t] = RunningSum(d)[r]
<1> DEFINE D == RunningSum(d)
           Bad == {s \in WriteTimes : r <= s /\ D[s] # D[r]}
<1>1. /\ D \in [WriteTimes -> Int]
      /\ \A s \in WriteTimes : D[s] = d[s] + IF s = 0 THEN 0 ELSE D[s - 1]
    BY RunningSumDef
<1> HIDE DEF D
<1>2. ASSUME NEW m \in Bad, \A s \in Bad : m <= s PROVE FALSE
  <2>1. m \in WriteTimes /\ m \in Nat /\ r \in Nat /\ r < m
      BY WriteAssumption DEF WriteTimes
  <2>2. m - 1 \in WriteTimes /\ m - 1 \in Nat /\ r <= m - 1
      BY <2>1, WriteAssumption DEF WriteTimes
  <2>3. m - 1 \notin Bad
      BY <1>2, <2>1
  <2>4. D[m - 1] = D[r] /\ D[m - 1] \in Int
      BY <1>1, <2>2, <2>3
  <2>5. D[m] = 0 + D[m - 1]
      BY <1>1, <2>1
  <2>6. QED
      BY <2>4, <2>5
<1>3. Bad = {}
    BY <1>2, LeastTime
<1>4. QED
    BY <1>3 DEF D

\* What was emitted for a tuple, as a function of time.
LEMMA DiffsType ==
  ASSUME output \in [Update -> Int], NEW e \in Eids, NEW v \in Vals
  PROVE  /\ DiffsOf(e, v) \in [WriteTimes -> Int]
         /\ \A s \in WriteTimes : DiffsOf(e, v)[s] = output[[e |-> e, v |-> v, t |-> s]]
<1>1. \A s \in WriteTimes : [e |-> e, v |-> v, t |-> s] \in Update
    BY DEF Update
<1>2. QED
    BY <1>1 DEF DiffsOf

\* The collection is read one time after the other.
LEMMA CountStep ==
  ASSUME output \in [Update -> Int], NEW e \in Eids, NEW v \in Vals, NEW t \in WriteTimes
  PROVE  /\ Count(e, v, t) \in Int
         /\ Count(e, v, t) = output[[e |-> e, v |-> v, t |-> t]]
                             + IF t = 0 THEN 0 ELSE Count(e, v, t - 1)
<1>1. /\ DiffsOf(e, v) \in [WriteTimes -> Int]
      /\ DiffsOf(e, v)[t] = output[[e |-> e, v |-> v, t |-> t]]
    BY DiffsType
<1>2. QED
    BY <1>1, RunningSumDef DEF Count

\* An entity has one value, or none.
LEMMA ValueUnique ==
  ASSUME NEW e, NEW t, NEW x \in Vals \cup {None}, NEW y \in Vals \cup {None},
         HasValue(e, t, x), HasValue(e, t, y)
  PROVE  x = y
  BY WriteAssumption DEF HasValue
-----------------------------------------------------------------------------
\* The part of the invariant about types.
LEMMA Types ==
  ASSUME LastWriteInv
  PROVE  /\ arranged \in [Update -> Int] /\ output \in [Update -> Int]
         /\ state \in [Eids -> Vals \cup {None}]
         /\ batched \in Nat /\ batched <= MaxWriteTime + 1
         /\ done \in Nat /\ done <= batched
         /\ \A u \in Update : u.e \in Eids /\ u.v \in Vals /\ u.t \in WriteTimes /\ u.t \in Nat
         /\ \A u \in replay : u \in Update /\ arranged[u] # 0 /\ done <= u.t /\ u.t < batched
<1>1. \A u \in Update : u.e \in Eids /\ u.v \in Vals /\ u.t \in WriteTimes /\ u.t \in Nat
    BY WriteAssumption DEF Update, WriteTimes
<1>2. QED
    BY <1>1, WriteAssumption DEF LastWriteInv

\* A step of the state machine takes the old value out and puts the new one in,
\* at the time of the update; an assertion that fails finds no value to take.
LEMMA StepEffect ==
  ASSUME LastWriteInv, NEW u \in replay, StepStateMachine(u)
  PROVE  /\ state' = [state EXCEPT ![u.e] = IF arranged[u] > 0 THEN u.v ELSE None]
         /\ output' \in [Update -> Int]
         /\ \A w \in Update :
              output'[w] = output[w]
                + IF w.e = u.e /\ w.t = u.t
                  THEN (IF w.v = state'[u.e] THEN 1 ELSE 0) - (IF w.v = state[u.e] THEN 1 ELSE 0)
                  ELSE 0
<1> DEFINE old == [u EXCEPT !.v = state[u.e]]
<1>1. /\ output \in [Update -> Int] /\ state \in [Eids -> Vals \cup {None}]
      /\ u \in Update /\ u.e \in Eids /\ u.v \in Vals
    BY Types
<1>2. state[u.e] # None => old \in Update
    BY <1>1 DEF Update
<1>3. \A w \in Update : w = u <=> w.e = u.e /\ w.t = u.t /\ w.v = u.v
    BY <1>1 DEF Update
<1>4. \A w \in Update : w = old <=> w.e = u.e /\ w.t = u.t /\ w.v = state[u.e]
    BY <1>1 DEF Update
<1>5. \A w \in Update : w.v # None /\ output[w] \in Int
    BY <1>1, WriteAssumption DEF Update
<1> HIDE DEF old
<1>6. CASE arranged[u] > 0
  <2>1. /\ state' = [state EXCEPT ![u.e] = u.v]
        /\ output' = Emit(u, 1, IF state[u.e] = None THEN output ELSE Emit(old, -1, output))
      BY <1>6 DEF StepStateMachine, Overwrite, old
  <2>2. state'[u.e] = u.v
      BY <1>1, <2>1
  <2>3. CASE state[u.e] = None
    <3>1. output' = [output EXCEPT ![u] = output[u] + 1]
        BY <1>1, <2>1, <2>3 DEF Emit
    <3>2. output' \in [Update -> Int]
        BY <1>1, <1>5, <3>1
    <3>3. \A w \in Update : output'[w] = output[w] + IF w = u THEN 1 ELSE 0
        BY <1>1, <1>5, <3>1
    <3>4. ASSUME NEW w \in Update
          PROVE  output'[w] = output[w]
                   + IF w.e = u.e /\ w.t = u.t
                     THEN (IF w.v = u.v THEN 1 ELSE 0) - (IF w.v = state[u.e] THEN 1 ELSE 0)
                     ELSE 0
      <4>1. output'[w] = (output[w] + IF w = u THEN 1 ELSE 0) /\ output[w] \in Int /\ w.v # None
          BY <1>5, <3>3
      <4>2. CASE w.e = u.e /\ w.t = u.t
          BY <1>3, <2>3, <4>1, <4>2
      <4>3. CASE ~ (w.e = u.e /\ w.t = u.t)
          BY <1>3, <2>3, <4>1, <4>3
      <4>4. QED
          BY <4>2, <4>3
    <3>5. QED
        BY <1>6, <2>1, <2>2, <3>2, <3>4
  <2>4. CASE state[u.e] # None
    <3> DEFINE mid == [output EXCEPT ![old] = output[old] + -1]
    <3>1. mid \in [Update -> Int] /\ \A w \in Update : mid[w] = output[w] + IF w = old THEN -1 ELSE 0
        BY <1>1, <1>2, <1>5, <2>4
    <3>2. output' = [mid EXCEPT ![u] = mid[u] + 1]
        BY <1>1, <1>2, <2>1, <2>4, <3>1 DEF Emit
    <3> HIDE DEF mid
    <3>3. output' \in [Update -> Int] /\ \A w \in Update : output'[w] = mid[w] + IF w = u THEN 1 ELSE 0
        BY <1>1, <3>1, <3>2
    <3>4. ASSUME NEW w \in Update
          PROVE  output'[w] = output[w]
                   + IF w.e = u.e /\ w.t = u.t
                     THEN (IF w.v = u.v THEN 1 ELSE 0) - (IF w.v = state[u.e] THEN 1 ELSE 0)
                     ELSE 0
      <4>1. /\ output'[w] = mid[w] + IF w = u THEN 1 ELSE 0
            /\ mid[w] = output[w] + IF w = old THEN -1 ELSE 0
            /\ output[w] \in Int
          BY <1>5, <3>1, <3>3
      <4>2. CASE w.e = u.e /\ w.t = u.t
          BY <1>3, <1>4, <4>1, <4>2
      <4>3. CASE ~ (w.e = u.e /\ w.t = u.t)
          BY <1>3, <1>4, <4>1, <4>3
      <4>4. QED
          BY <4>2, <4>3
    <3>5. QED
        BY <1>6, <2>1, <2>2, <3>3, <3>4
  <2>5. QED
      BY <2>3, <2>4
<1>7. CASE ~ (arranged[u] > 0)
  <2>1. Retract(u)
      BY <1>7 DEF StepStateMachine
  <2>2. CASE state[u.e] = None
    <3>1. state' = state /\ output' = output
        BY <2>1, <2>2 DEF Retract
    <3>2. state' = [state EXCEPT ![u.e] = None] /\ state'[u.e] = None
        BY <1>1, <2>2, <3>1
    <3>3. ASSUME NEW w \in Update
          PROVE  output'[w] = output[w]
                   + IF w.e = u.e /\ w.t = u.t
                     THEN (IF w.v = None THEN 1 ELSE 0) - (IF w.v = state[u.e] THEN 1 ELSE 0)
                     ELSE 0
      <4>1. output'[w] = output[w] /\ output[w] \in Int /\ w.v # None
          BY <1>5, <3>1
      <4>2. CASE w.e = u.e /\ w.t = u.t
          BY <2>2, <4>1, <4>2
      <4>3. CASE ~ (w.e = u.e /\ w.t = u.t)
          BY <2>2, <4>1, <4>3
      <4>4. QED
          BY <4>2, <4>3
    <3>4. QED
        BY <1>1, <1>7, <3>1, <3>2, <3>3
  <2>3. CASE state[u.e] # None
    <3>1. state' = [state EXCEPT ![u.e] = None] /\ output' = Emit(old, -1, output)
        BY <2>1, <2>3 DEF Retract, old
    <3>2. output' = [output EXCEPT ![old] = output[old] + -1] /\ state'[u.e] = None
        BY <1>1, <1>2, <2>3, <3>1 DEF Emit
    <3>3. /\ output' \in [Update -> Int]
          /\ \A w \in Update : output'[w] = output[w] + IF w = old THEN -1 ELSE 0
        BY <1>1, <1>2, <1>5, <2>3, <3>2
    <3>4. ASSUME NEW w \in Update
          PROVE  output'[w] = output[w]
                   + IF w.e = u.e /\ w.t = u.t
                     THEN (IF w.v = None THEN 1 ELSE 0) - (IF w.v = state[u.e] THEN 1 ELSE 0)
                     ELSE 0
      <4>1. output'[w] = (output[w] + IF w = old THEN -1 ELSE 0) /\ output[w] \in Int /\ w.v # None
          BY <1>5, <3>3
      <4>2. CASE w.e = u.e /\ w.t = u.t
          BY <1>4, <4>1, <4>2
      <4>3. CASE ~ (w.e = u.e /\ w.t = u.t)
          BY <1>4, <4>1, <4>3
      <4>4. QED
          BY <4>2, <4>3
    <3>5. QED
        BY <1>7, <3>1, <3>2, <3>3, <3>4
  <2>4. QED
      BY <2>2, <2>3
<1>8. QED
    BY <1>6, <1>7

\* A step of the state machine changes the collection from its time on.
LEMMA StepCount ==
  ASSUME LastWriteInv, NEW u \in replay, StepStateMachine(u),
         NEW e \in Eids, NEW v \in Vals, NEW t \in WriteTimes
  PROVE  Count(e, v, t)' = Count(e, v, t)
           + IF e = u.e /\ u.t <= t
             THEN (IF v = state'[u.e] THEN 1 ELSE 0) - (IF v = state[u.e] THEN 1 ELSE 0)
             ELSE 0
<1> DEFINE d == DiffsOf(e, v)
           c == DiffsOf(e, v)'
           k == IF e = u.e
                THEN (IF v = state'[u.e] THEN 1 ELSE 0) - (IF v = state[u.e] THEN 1 ELSE 0)
                ELSE 0
<1>1. output \in [Update -> Int] /\ u.t \in WriteTimes
    BY Types
<1>2. /\ d \in [WriteTimes -> Int]
      /\ \A s \in WriteTimes : d[s] = output[[e |-> e, v |-> v, t |-> s]]
    BY <1>1, DiffsType
<1>3. output' \in [Update -> Int]
    BY StepEffect
<1>4. \A s \in WriteTimes : [e |-> e, v |-> v, t |-> s] \in Update
    BY DEF Update
<1>5. /\ c \in [WriteTimes -> Int]
      /\ \A s \in WriteTimes : c[s] = output'[[e |-> e, v |-> v, t |-> s]]
    BY <1>3, <1>4 DEF DiffsOf
<1>6. k \in Int
    OBVIOUS
<1>7. ASSUME NEW s \in WriteTimes PROVE c[s] = d[s] + IF s = u.t THEN k ELSE 0
  <2> DEFINE w == [e |-> e, v |-> v, t |-> s]
  <2>1. w \in Update /\ w.e = e /\ w.v = v /\ w.t = s /\ c[s] = output'[w] /\ d[s] = output[w]
      BY <1>2, <1>4, <1>5
  <2> HIDE DEF w, c, d
  <2>2. output'[w] = output[w]
          + IF w.e = u.e /\ w.t = u.t
            THEN (IF w.v = state'[u.e] THEN 1 ELSE 0) - (IF w.v = state[u.e] THEN 1 ELSE 0)
            ELSE 0
      BY <2>1, StepEffect
  <2>3. QED
      BY <2>1, <2>2
<1>8. Count(e, v, t) = RunningSum(d)[t] /\ Count(e, v, t)' = RunningSum(c)[t]
    BY DEF Count
<1> HIDE DEF c, d, k
<1>9. d \in [WriteTimes -> Int] /\ c \in [WriteTimes -> Int] /\ u.t \in WriteTimes
    BY <1>1, <1>2, <1>5
<1>10. \A s \in WriteTimes : c[s] = d[s] + IF s = u.t THEN k ELSE 0
    BY <1>7
<1> DEFINE r == u.t
<1>11. r \in WriteTimes /\ \A s \in WriteTimes : c[s] = d[s] + IF s = r THEN k ELSE 0
    BY <1>9, <1>10
<1> HIDE DEF r
<1>12. RunningSum(c)[t] = RunningSum(d)[t] + IF r <= t THEN k ELSE 0
    BY <1>6, <1>9, <1>11, RunningSumShift
<1>13. QED
    BY <1>8, <1>12 DEF k, r

\* It leaves earlier times and other entities alone.
LEMMA StepKeeps ==
  ASSUME LastWriteInv, NEW u \in replay, StepStateMachine(u),
         NEW e \in Eids, NEW t \in WriteTimes, e # u.e \/ t < u.t, NEW x
  PROVE  HasValue(e, t, x)' <=> HasValue(e, t, x)
<1>1. output \in [Update -> Int] /\ u.t \in Nat /\ t \in Nat
    BY Types, WriteAssumption DEF WriteTimes
<1>2. ASSUME NEW v \in Vals PROVE Count(e, v, t)' = Count(e, v, t)
  <2>1. Count(e, v, t) \in Int
      BY <1>1, CountStep
  <2>2. ~ (e = u.e /\ u.t <= t)
      BY <1>1
  <2>3. QED
      BY <2>1, <2>2, StepCount
<1>3. QED
    BY <1>2 DEF HasValue

\* From its time on the entity has the value the state machine holds.
LEMMA StepSets ==
  ASSUME LastWriteInv, NEW u \in replay, StepStateMachine(u),
         NEW t \in WriteTimes, u.t <= t
  PROVE  HasValue(u.e, t, state[u.e])'
<1>1. output \in [Update -> Int] /\ u.e \in Eids /\ u.t \in WriteTimes /\ u.t \in Nat
    BY Types
<1>2. MaxWriteTime \in WriteTimes /\ u.t <= MaxWriteTime
    BY <1>1, WriteAssumption DEF WriteTimes
<1>3. ASSUME NEW v \in Vals
      PROVE  Count(u.e, v, t)' = IF v = state'[u.e] THEN 1 ELSE 0
  <2>1. /\ DiffsOf(u.e, v) \in [WriteTimes -> Int]
        /\ \A s \in WriteTimes : DiffsOf(u.e, v)[s] = output[[e |-> u.e, v |-> v, t |-> s]]
      BY <1>1, DiffsType
  <2>2. ASSUME NEW s \in WriteTimes, u.t < s PROVE DiffsOf(u.e, v)[s] = 0
    <3> DEFINE w == [e |-> u.e, v |-> v, t |-> s]
    <3>1. w \in Update /\ w.e = u.e /\ w.t = s
        BY <1>1 DEF Update
    <3>2. DiffsOf(u.e, v)[s] = output[w]
        BY <2>1
    <3> HIDE DEF w
    <3>3. ASSUME NEW y \in Update, y.e = w.e, y.t = w.t, Processed(y) PROVE FALSE
      <4>1. y.t <= u.t
          BY <3>1, <3>3 DEF LastWriteInv
      <4>2. s \in Nat
          BY WriteAssumption DEF WriteTimes
      <4>3. QED
          BY <1>1, <2>2, <3>1, <3>3, <4>1, <4>2
    <3>4. output[w] = 0
        BY <3>1, <3>3 DEF LastWriteInv
    <3>5. QED
        BY <3>2, <3>4
  <2>3. Count(u.e, v, t) = Count(u.e, v, u.t)
      BY <1>1, <2>1, <2>2, RunningSumRests DEF Count
  <2>4. Count(u.e, v, MaxWriteTime) = Count(u.e, v, u.t)
      BY <1>1, <1>2, <2>1, <2>2, RunningSumRests DEF Count
  <2>5. Count(u.e, v, MaxWriteTime) = IF v = state[u.e] THEN 1 ELSE 0
      BY <1>1 DEF LastWriteInv, HasValue
  <2>6. Count(u.e, v, t)' = Count(u.e, v, t)
          + ((IF v = state'[u.e] THEN 1 ELSE 0) - (IF v = state[u.e] THEN 1 ELSE 0))
      BY <1>1, StepCount
  <2> DEFINE a == IF v = state'[u.e] THEN 1 ELSE 0
             b == IF v = state[u.e] THEN 1 ELSE 0
  <2>7. a \in Int /\ b \in Int
      OBVIOUS
  <2>8. Count(u.e, v, t)' = Count(u.e, v, t) + (a - b) /\ Count(u.e, v, MaxWriteTime) = b
      BY <2>5, <2>6
  <2> HIDE DEF a, b
  <2>9. Count(u.e, v, t)' = b + (a - b)
      BY <2>3, <2>4, <2>8
  <2>10. Count(u.e, v, t)' = a
      BY <2>7, <2>9
  <2>11. QED
      BY <2>10 DEF a
<1>4. QED
    BY <1>3 DEF HasValue
-----------------------------------------------------------------------------
\* Where nothing is emitted the collection stays the same.
LEMMA SameOutput ==
  ASSUME output' = output, NEW e, NEW t, NEW x
  PROVE  HasValue(e, t, x)' <=> HasValue(e, t, x)
  BY DEF HasValue, Count, DiffsOf

\* The operator starts with an empty collection.
LEMMA InitInv ==
  ASSUME LastWriteInit
  PROVE  LastWriteInv
<1>1. /\ arranged = [u \in Update |-> 0] /\ output = [u \in Update |-> 0]
      /\ state = [e \in Eids |-> None] /\ batched = 0 /\ done = 0 /\ replay = {}
    BY DEF LastWriteInit
<1>2. 0 \in WriteTimes /\ MaxWriteTime \in WriteTimes /\ \A t \in WriteTimes : 0 <= t
    BY WriteAssumption DEF WriteTimes
<1>3. output \in [Update -> Int]
    BY <1>1
<1>4. ASSUME NEW e \in Eids, NEW t \in WriteTimes PROVE HasValue(e, t, None)
  <2>1. ASSUME NEW v \in Vals PROVE Count(e, v, t) = 0
    <3>1. DiffsOf(e, v) \in [WriteTimes -> Int]
        BY <1>3, DiffsType
    <3>2. \A s \in WriteTimes : DiffsOf(e, v)[s] = 0
        BY <1>1 DEF DiffsOf, Update
    <3>3. RunningSum(DiffsOf(e, v))[t] = RunningSum(DiffsOf(e, v))[0]
        BY <1>2, <3>1, <3>2, RunningSumRests
    <3>4. RunningSum(DiffsOf(e, v))[0] = DiffsOf(e, v)[0] + 0
        BY <1>2, <3>1, RunningSumDef
    <3>5. QED
        BY <1>2, <3>2, <3>3, <3>4 DEF Count
  <2>2. QED
      BY <2>1, WriteAssumption DEF HasValue
<1>5. \A u \in Update : arranged[u] = 0 /\ output[u] = 0
    BY <1>1
<1>6. \A e \in Eids : HasValue(e, MaxWriteTime, state[e])
    BY <1>1, <1>2, <1>4
<1>7. \A u \in Update : ~ Processed(u)
    BY <1>5 DEF Processed
<1>8. \A e \in Eids, t \in WriteTimes : \E x \in Vals \cup {None} : HasValue(e, t, x)
    BY <1>4
<1>9. /\ arranged \in [Update -> Int] /\ state \in [Eids -> Vals \cup {None}]
      /\ batched \in 0 .. MaxWriteTime + 1 /\ done \in 0 .. batched
    BY <1>1, WriteAssumption
<1>10. QED
    BY <1>1, <1>3, <1>5, <1>6, <1>7, <1>8, <1>9 DEF LastWriteInv

\* A new update is not before what was batched.
LEMMA ArrangeInv ==
  ASSUME LastWriteInv, NEW u \in Update, NEW diff \in {1, -1}, Arrange(u, diff)
  PROVE  LastWriteInv'
<1>1. /\ arranged' = [arranged EXCEPT ![u] = @ + diff] /\ u.t >= batched
      /\ batched' = batched /\ replay' = replay /\ state' = state /\ output' = output
      /\ done' = done
    BY DEF Arrange
<1>2. /\ arranged \in [Update -> Int] /\ u.t \in Nat /\ batched \in Nat
      /\ \A w \in replay : w \in Update /\ arranged[w] # 0 /\ done <= w.t /\ w.t < batched
    BY Types
<1>3. arranged' \in [Update -> Int]
    BY <1>1, <1>2
<1>4. ASSUME NEW w \in Update, w.t < batched PROVE arranged'[w] = arranged[w]
  <2>1. w # u
      BY <1>1, <1>2, <1>4
  <2>2. QED
      BY <1>1, <1>2, <2>1
<1>5. \A w \in Update : Processed(w)' <=> Processed(w)
    BY <1>1, <1>4 DEF Processed
<1>6. ASSUME NEW w \in Update, Processed(w)
      PROVE  Written(w.e, w.t)' = Written(w.e, w.t) /\ (Retracted(w.e, w.t)' <=> Retracted(w.e, w.t))
  <2>1. ASSUME NEW v \in Vals
        PROVE  arranged'[[e |-> w.e, v |-> v, t |-> w.t]] = arranged[[e |-> w.e, v |-> v, t |-> w.t]]
    <3>1. [e |-> w.e, v |-> v, t |-> w.t] \in Update
        BY DEF Update
    <3>2. w.t < batched
        BY <1>6 DEF Processed
    <3>3. QED
        BY <1>4, <3>1, <3>2
  <2>2. QED
      BY <2>1 DEF Written, Retracted
<1>7. \A e, t, x : HasValue(e, t, x)' <=> HasValue(e, t, x)
    BY <1>1, SameOutput
<1>8. \A w \in replay' : w \in Update /\ arranged'[w] # 0 /\ done' <= w.t /\ w.t < batched'
    BY <1>1, <1>2, <1>4
<1>9. \A y \in replay', w \in Update : w.e = y.e /\ Processed(w)' => w.t <= y.t
    BY <1>1, <1>5 DEF LastWriteInv
<1>10. \A y \in Update :
         output'[y] # 0 => \E w \in Update : w.e = y.e /\ w.t = y.t /\ Processed(w)'
    BY <1>1, <1>5 DEF LastWriteInv
<1>11. \A e \in Eids : HasValue(e, MaxWriteTime, state[e])'
    BY <1>1, <1>7 DEF LastWriteInv, HasValue, Count, DiffsOf
<1>12. \A e \in Eids, t \in WriteTimes : \E x \in Vals \cup {None} : HasValue(e, t, x)'
    BY <1>7 DEF LastWriteInv
<1>13. ASSUME NEW w \in Update, Processed(w)'
       PROVE  \E x \in Vals \cup {None} :
                /\ HasValue(w.e, w.t, x)'
                /\ x \in Written(w.e, w.t)' \/ (x = None /\ Retracted(w.e, w.t)')
  <2>1. Processed(w)
      BY <1>5, <1>13
  <2>2. PICK x \in Vals \cup {None} :
          /\ HasValue(w.e, w.t, x)
          /\ x \in Written(w.e, w.t) \/ (x = None /\ Retracted(w.e, w.t))
      BY <2>1 DEF LastWriteInv
  <2>3. QED
      BY <1>6, <1>7, <2>1, <2>2
<1>14. /\ output' \in [Update -> Int] /\ state' \in [Eids -> Vals \cup {None}]
       /\ batched' \in 0 .. MaxWriteTime + 1 /\ done' \in 0 .. batched'
    BY <1>1 DEF LastWriteInv
<1>15. QED
    BY <1>3, <1>8, <1>9, <1>10, <1>11, <1>12, <1>13, <1>14 DEF LastWriteInv

\* What a batch adds to the replay comes after all that was batched before.
LEMMA SealInv ==
  ASSUME LastWriteInv, NEW next \in 1 .. MaxWriteTime + 1, SealBatch(next)
  PROVE  LastWriteInv'
<1>1. /\ batched < next /\ batched' = next
      /\ replay' = replay \cup {u \in Update : arranged[u] # 0 /\ batched <= u.t /\ u.t < next}
      /\ arranged' = arranged /\ state' = state /\ output' = output /\ done' = done
    BY DEF SealBatch
<1>2. /\ batched \in Nat /\ done \in Nat /\ done <= batched /\ next \in Nat
      /\ \A w \in Update : w.t \in Nat
      /\ \A w \in replay : w \in Update /\ arranged[w] # 0 /\ done <= w.t /\ w.t < batched
    BY Types, WriteAssumption
<1>3. \A w \in replay' : w \in Update /\ arranged'[w] # 0 /\ done' <= w.t /\ w.t < batched'
    BY <1>1, <1>2
<1>4. \A w \in Update : Processed(w)' <=> Processed(w)
    BY <1>1, <1>2 DEF Processed
<1>5. ASSUME NEW u \in replay', NEW w \in Update, w.e = u.e, Processed(w)' PROVE w.t <= u.t
  <2>1. Processed(w) /\ w.t < batched
      BY <1>4, <1>5 DEF Processed
  <2>2. CASE u \in replay
      BY <1>5, <2>1, <2>2 DEF LastWriteInv
  <2>3. CASE u \notin replay
    <3>1. u \in Update /\ batched <= u.t
        BY <1>1, <1>5, <2>3
    <3>2. QED
        BY <1>2, <2>1, <3>1
  <2>4. QED
      BY <2>2, <2>3
<1>6. \A e, t, x : HasValue(e, t, x)' <=> HasValue(e, t, x)
    BY <1>1, SameOutput
<1>7. \A u \in Update :
        output'[u] # 0 => \E w \in Update : w.e = u.e /\ w.t = u.t /\ Processed(w)'
    BY <1>1, <1>4 DEF LastWriteInv
<1>8. \A e \in Eids : HasValue(e, MaxWriteTime, state[e])'
    BY <1>1 DEF LastWriteInv, HasValue, Count, DiffsOf
<1>9. \A e \in Eids, t \in WriteTimes : \E x \in Vals \cup {None} : HasValue(e, t, x)'
    BY <1>6 DEF LastWriteInv
<1>10. \A e, t : Written(e, t)' = Written(e, t) /\ (Retracted(e, t)' <=> Retracted(e, t))
    BY <1>1 DEF Written, Retracted
<1>11. \A w \in Update :
         Processed(w)' => \E x \in Vals \cup {None} :
           /\ HasValue(w.e, w.t, x)'
           /\ x \in Written(w.e, w.t)' \/ (x = None /\ Retracted(w.e, w.t)')
    BY <1>4, <1>6, <1>10 DEF LastWriteInv
<1>12. /\ arranged' \in [Update -> Int] /\ output' \in [Update -> Int]
       /\ state' \in [Eids -> Vals \cup {None}]
    BY <1>1 DEF LastWriteInv
<1>13. batched' \in 0 .. MaxWriteTime + 1 /\ done' \in 0 .. batched'
    BY <1>1, <1>2, WriteAssumption
<1>14. QED
    BY <1>3, <1>5, <1>7, <1>8, <1>9, <1>11, <1>12, <1>13 DEF LastWriteInv

\* The frontier is reported when nothing is left to replay.
LEMMA ReportInv ==
  ASSUME LastWriteInv, ReportProgress
  PROVE  LastWriteInv'
<1>1. /\ replay = {} /\ done' = batched /\ replay' = replay /\ batched' = batched
      /\ arranged' = arranged /\ state' = state /\ output' = output
    BY DEF ReportProgress
<1>2. batched \in Nat /\ done' \in 0 .. batched'
    BY <1>1, Types
<1>3. \A w : Processed(w)' <=> Processed(w)
    BY <1>1 DEF Processed
<1>4. \A e, t, x : HasValue(e, t, x)' <=> HasValue(e, t, x)
    BY <1>1, SameOutput
<1>5. \A e, t : Written(e, t)' = Written(e, t) /\ (Retracted(e, t)' <=> Retracted(e, t))
    BY <1>1 DEF Written, Retracted
<1>6. \A e \in Eids : HasValue(e, MaxWriteTime, state[e])'
    BY <1>1 DEF LastWriteInv, HasValue, Count, DiffsOf
<1>7. \A e \in Eids, t \in WriteTimes : \E x \in Vals \cup {None} : HasValue(e, t, x)'
    BY <1>4 DEF LastWriteInv
<1>8. \A w \in Update :
        Processed(w)' => \E x \in Vals \cup {None} :
          /\ HasValue(w.e, w.t, x)'
          /\ x \in Written(w.e, w.t)' \/ (x = None /\ Retracted(w.e, w.t)')
    BY <1>3, <1>4, <1>5 DEF LastWriteInv
<1>9. \A u \in Update :
        output'[u] # 0 => \E w \in Update : w.e = u.e /\ w.t = u.t /\ Processed(w)'
    BY <1>1, <1>3 DEF LastWriteInv
<1>10. /\ arranged' \in [Update -> Int] /\ output' \in [Update -> Int]
       /\ state' \in [Eids -> Vals \cup {None}] /\ batched' \in 0 .. MaxWriteTime + 1
    BY <1>1 DEF LastWriteInv
<1>11. QED
    BY <1>1, <1>2, <1>6, <1>7, <1>8, <1>9, <1>10 DEF LastWriteInv

\* The state machine takes the updates of an entity in the order of time.
LEMMA StepInv ==
  ASSUME LastWriteInv, NEW u \in replay, StepStateMachine(u)
  PROVE  LastWriteInv'
<1>1. /\ replay' = replay \ {u} /\ arranged' = arranged /\ batched' = batched /\ done' = done
      /\ \A w \in replay : w.e = u.e /\ w # u => Precedes(u, w)
    BY DEF StepStateMachine
<1>2. /\ arranged \in [Update -> Int] /\ state \in [Eids -> Vals \cup {None}]
      /\ u \in Update /\ u.e \in Eids /\ u.v \in Vals /\ u.t \in WriteTimes
      /\ arranged[u] # 0 /\ u.t < batched
      /\ \A w \in Update : w.e \in Eids /\ w.v \in Vals /\ w.t \in WriteTimes /\ w.t \in Nat
      /\ \A w \in replay : w \in Update /\ arranged[w] # 0 /\ done <= w.t /\ w.t < batched
    BY Types
<1>3. PICK x \in Vals \cup {None} : x = IF arranged[u] > 0 THEN u.v ELSE None
    BY <1>2
<1>4. state' = [state EXCEPT ![u.e] = x] /\ output' \in [Update -> Int]
    BY <1>3, StepEffect
<1>5. state' \in [Eids -> Vals \cup {None}] /\ state'[u.e] = x
    BY <1>2, <1>4
<1>6. \A w \in Update : Processed(w)' <=> Processed(w) \/ w = u
    BY <1>1, <1>2 DEF Processed
<1>7. \A w \in replay' : w \in Update /\ arranged'[w] # 0 /\ done' <= w.t /\ w.t < batched'
    BY <1>1, <1>2
<1>8. ASSUME NEW y \in replay', NEW w \in Update, w.e = y.e, Processed(w)' PROVE w.t <= y.t
  <2>1. y \in replay /\ y # u /\ y \in Update
      BY <1>1, <1>2
  <2>2. CASE w = u
    <3>1. Precedes(u, y)
        BY <1>1, <1>8, <2>1, <2>2
    <3>2. QED
        BY <1>2, <2>1, <2>2, <3>1 DEF Precedes
  <2>3. CASE w # u
      BY <1>6, <1>8, <2>1, <2>3 DEF LastWriteInv
  <2>4. QED
      BY <2>2, <2>3
<1>9. ASSUME NEW y \in Update, output'[y] # 0
      PROVE  \E w \in Update : w.e = y.e /\ w.t = y.t /\ Processed(w)'
  <2>1. CASE y.e = u.e /\ y.t = u.t
      BY <1>2, <1>6, <2>1
  <2>2. CASE ~ (y.e = u.e /\ y.t = u.t)
    <3>1. output'[y] = output[y] + 0 /\ output[y] \in Int
        BY <2>2, StepEffect, Types
    <3>2. output[y] # 0
        BY <1>9, <3>1
    <3>3. QED
        BY <1>6, <3>2 DEF LastWriteInv
  <2>3. QED
      BY <2>1, <2>2
<1>10. \A t \in WriteTimes : u.t <= t => HasValue(u.e, t, state[u.e])'
    BY StepSets
<1>11. \A t \in WriteTimes : u.t <= t => HasValue(u.e, t, x)'
    BY <1>5, <1>10 DEF HasValue
<1>12. \A e \in Eids, t \in WriteTimes : \A y : e # u.e \/ t < u.t => (HasValue(e, t, y)' <=> HasValue(e, t, y))
    BY StepKeeps
<1>13. ASSUME NEW e \in Eids PROVE HasValue(e, MaxWriteTime, state[e])'
  <2>1. MaxWriteTime \in WriteTimes /\ u.t <= MaxWriteTime
      BY <1>2, WriteAssumption DEF WriteTimes
  <2>2. CASE e = u.e
      BY <1>5, <1>11, <2>1, <2>2 DEF HasValue
  <2>3. CASE e # u.e
    <3>1. HasValue(e, MaxWriteTime, state[e]) /\ state'[e] = state[e]
        BY <1>2, <1>4, <2>3 DEF LastWriteInv
    <3>2. \A v \in Vals : Count(e, v, MaxWriteTime)' = Count(e, v, MaxWriteTime)
      <4>1. \A v \in Vals : Count(e, v, MaxWriteTime) \in Int
          BY <2>1, CountStep, Types
      <4>2. QED
          BY <2>1, <2>3, <4>1, StepCount
    <3>3. QED
        BY <3>1, <3>2 DEF HasValue
  <2>4. QED
      BY <2>2, <2>3
<1>14. ASSUME NEW e \in Eids, NEW t \in WriteTimes
       PROVE  \E y \in Vals \cup {None} : HasValue(e, t, y)'
  <2>1. CASE e = u.e /\ u.t <= t
      BY <1>5, <1>11, <2>1
  <2>2. CASE ~ (e = u.e /\ u.t <= t)
    <3>1. e # u.e \/ t < u.t
        BY <1>2, <2>2, WriteAssumption DEF WriteTimes
    <3>2. PICK y \in Vals \cup {None} : HasValue(e, t, y)
        BY DEF LastWriteInv
    <3>3. QED
        BY <1>12, <3>1, <3>2
  <2>3. QED
      BY <2>1, <2>2
<1>15. \A e, t : Written(e, t)' = Written(e, t) /\ (Retracted(e, t)' <=> Retracted(e, t))
    BY <1>1 DEF Written, Retracted
<1>16. x \in Written(u.e, u.t) \/ (x = None /\ Retracted(u.e, u.t))
  <2>1. u = [e |-> u.e, v |-> u.v, t |-> u.t] /\ arranged[u] \in Int
      BY <1>2 DEF Update
  <2>2. CASE arranged[u] > 0
      BY <1>2, <1>3, <2>1, <2>2 DEF Written
  <2>3. CASE ~ (arranged[u] > 0)
    <3>1. arranged[u] < 0
        BY <1>2, <2>1, <2>3
    <3>2. QED
        BY <1>2, <1>3, <2>1, <2>3, <3>1 DEF Retracted
  <2>4. QED
      BY <2>2, <2>3
<1>17. ASSUME NEW w \in Update, Processed(w)'
       PROVE  \E y \in Vals \cup {None} :
                /\ HasValue(w.e, w.t, y)'
                /\ y \in Written(w.e, w.t)' \/ (y = None /\ Retracted(w.e, w.t)')
  <2>1. CASE w.e = u.e /\ w.t = u.t
    <3>1. u.t <= u.t
        BY <1>2
    <3>2. HasValue(w.e, w.t, x)'
        BY <1>2, <1>11, <2>1, <3>1
    <3>3. x \in Written(w.e, w.t)' \/ (x = None /\ Retracted(w.e, w.t)')
        BY <1>15, <1>16, <2>1
    <3>4. QED
        BY <1>5, <3>2, <3>3
  <2>2. CASE ~ (w.e = u.e /\ w.t = u.t)
    <3>1. Processed(w)
        BY <1>6, <1>17, <2>2
    <3>2. w.e # u.e \/ w.t < u.t
      <4>1. w.e = u.e => w.t <= u.t
          BY <3>1 DEF LastWriteInv
      <4>2. QED
          BY <1>2, <2>2, <4>1
    <3>3. PICK y \in Vals \cup {None} :
            /\ HasValue(w.e, w.t, y)
            /\ y \in Written(w.e, w.t) \/ (y = None /\ Retracted(w.e, w.t))
        BY <3>1 DEF LastWriteInv
    <3>4. QED
        BY <1>2, <1>12, <1>15, <3>2, <3>3
  <2>3. QED
      BY <2>1, <2>2
<1>18. arranged' \in [Update -> Int] /\ batched' \in 0 .. MaxWriteTime + 1 /\ done' \in 0 .. batched'
    BY <1>1 DEF LastWriteInv
<1>19. QED
    BY <1>4, <1>5, <1>7, <1>8, <1>9, <1>13, <1>14, <1>17, <1>18 DEF LastWriteInv

\* The updates of an entity are replayed in the order of time and none is
\* before what was processed; so the invariant holds always.
THEOREM LastWriteInvariant == LastWriteSpec => []LastWriteInv
<1>1. LastWriteInit => LastWriteInv
    BY InitInv
<1>2. LastWriteInv /\ [LastWriteNext]_lastWriteVars => LastWriteInv'
  <2> SUFFICES ASSUME LastWriteInv, [LastWriteNext]_lastWriteVars
               PROVE  LastWriteInv'
      OBVIOUS
  <2>1. ASSUME NEW u \in Update, NEW diff \in {1, -1}, Arrange(u, diff) PROVE LastWriteInv'
      BY <2>1, ArrangeInv
  <2>2. ASSUME NEW next \in 1 .. MaxWriteTime + 1, SealBatch(next) PROVE LastWriteInv'
      BY <2>2, SealInv
  <2>3. ASSUME NEW u \in replay, StepStateMachine(u) PROVE LastWriteInv'
      BY <2>3, StepInv
  <2>4. CASE ReportProgress
      BY <2>4, ReportInv
  <2>5. CASE UNCHANGED lastWriteVars
    <3>1. /\ arranged' = arranged /\ output' = output /\ state' = state /\ replay' = replay
          /\ batched' = batched /\ done' = done
        BY <2>5 DEF lastWriteVars
    <3>2. \A e, t, x : HasValue(e, t, x)' <=> HasValue(e, t, x)
        BY <3>1, SameOutput
    <3>3. \A e \in Eids : HasValue(e, MaxWriteTime, state[e])'
        BY <3>1 DEF LastWriteInv, HasValue, Count, DiffsOf
    <3>4. /\ \A w : Processed(w)' <=> Processed(w)
          /\ \A e, t : Written(e, t)' = Written(e, t) /\ (Retracted(e, t)' <=> Retracted(e, t))
        BY <3>1 DEF Processed, Written, Retracted
    <3>5. QED
        BY <3>1, <3>2, <3>3, <3>4 DEF LastWriteInv
  <2>6. QED
      BY <2>1, <2>2, <2>3, <2>4, <2>5 DEF LastWriteNext
<1>3. QED
    BY <1>1, <1>2, PTL DEF LastWriteSpec

\* last_write_wins leaves an entity one value at a time, and counts it once,
\* whatever was written and retracted and however it was batched.
THEOREM OneValuePerEntity == LastWriteSpec => []SingleValue
<1>1. LastWriteInv => SingleValue
  <2> SUFFICES ASSUME LastWriteInv, NEW e \in Eids, NEW t \in WriteTimes
               PROVE  /\ \A v \in Vals : Count(e, v, t) \in {0, 1}
                      /\ \A v, w \in Vals : Count(e, v, t) = 1 /\ Count(e, w, t) = 1 => v = w
      BY DEF SingleValue
  <2>1. PICK x \in Vals \cup {None} : HasValue(e, t, x)
      BY DEF LastWriteInv
  <2>2. QED
      BY <2>1 DEF HasValue
<1>2. QED
    BY <1>1, LastWriteInvariant, PTL
-----------------------------------------------------------------------------
\* The value read from the collection is the entity's value.
LEMMA ValueRead ==
  ASSUME NEW e, NEW t, NEW x \in Vals \cup {None}
  PROVE  /\ HasValue(e, t, x) => ValueAt(e, t) = x
         /\ HasValue(e, t, x)' => ValueAt(e, t)' = x
<1>1. ASSUME HasValue(e, t, x) PROVE ValueAt(e, t) = x
  <2> DEFINE present == {v \in Vals : Count(e, v, t) > 0}
  <2>1. \A v \in Vals : v \in present <=> v = x
      BY <1>1 DEF HasValue
  <2>2. present = {x} \ {None}
      BY <2>1, WriteAssumption
  <2>3. ValueAt(e, t) = IF present = {} THEN None ELSE CHOOSE v \in present : TRUE
      BY DEF ValueAt
  <2> HIDE DEF present
  <2>4. CASE x = None
      BY <2>2, <2>3, <2>4
  <2>5. CASE x # None
    <3>1. present = {x}
        BY <2>2, <2>5
    <3>2. QED
        BY <2>3, <3>1
  <2>6. QED
      BY <2>4, <2>5
<1>2. ASSUME HasValue(e, t, x)' PROVE ValueAt(e, t)' = x
  <2> DEFINE present == {v \in Vals : Count(e, v, t)' > 0}
  <2>1. \A v \in Vals : v \in present <=> v = x
      BY <1>2 DEF HasValue
  <2>2. present = {x} \ {None}
      BY <2>1, WriteAssumption
  <2>3. ValueAt(e, t)' = IF present = {} THEN None ELSE CHOOSE v \in present : TRUE
      BY DEF ValueAt
  <2> HIDE DEF present
  <2>4. CASE x = None
      BY <2>2, <2>3, <2>4
  <2>5. CASE x # None
    <3>1. present = {x}
        BY <2>2, <2>5
    <3>2. QED
        BY <2>3, <3>1
  <2>6. QED
      BY <2>4, <2>5
<1>3. QED
    BY <1>1, <1>2

\* What a reader is answered, before and after a step.
LEMMA AnswerIs ==
  ASSUME NEW e \in Eids, NEW t \in WriteTimes
  PROVE  /\ Answer[e][t] = IF t >= done THEN None ELSE ValueAt(e, t)
         /\ Answer'[e][t] = IF t >= done' THEN None ELSE ValueAt(e, t)'
  BY DEF Answer

\* Where nothing is emitted the same values are read.
LEMMA SameValues ==
  ASSUME output' = output
  PROVE  \A e, t : ValueAt(e, t)' = ValueAt(e, t)
<1>1. \A e, v : DiffsOf(e, v)' = DiffsOf(e, v)
    BY DEF DiffsOf
<1>2. \A e, v, t : Count(e, v, t)' = Count(e, v, t)
    BY <1>1 DEF Count
<1> SUFFICES ASSUME NEW e, NEW t PROVE ValueAt(e, t)' = ValueAt(e, t)
    OBVIOUS
<1> DEFINE present == {v \in Vals : Count(e, v, t) > 0}
           after == {v \in Vals : Count(e, v, t)' > 0}
<1>3. after = present
    BY <1>2
<1>4. /\ ValueAt(e, t) = IF present = {} THEN None ELSE CHOOSE v \in present : TRUE
      /\ ValueAt(e, t)' = IF after = {} THEN None ELSE CHOOSE v \in after : TRUE
    BY DEF ValueAt
<1> HIDE DEF present, after
<1>5. QED
    BY <1>3, <1>4

\* A step that leaves the values of completed times alone changes no answer.
LEMMA SameAnswer ==
  ASSUME done' = done,
         \A e \in Eids, t \in WriteTimes : ~ (t >= done) => ValueAt(e, t)' = ValueAt(e, t)
  PROVE  Answer' = Answer
  BY DEF Answer

\* An update that is sent changes no answer.
LEMMA ArrangeSends ==
  ASSUME LastWriteInv, NEW u \in Update, NEW diff \in {1, -1}, Arrange(u, diff)
  PROVE  Latest!Send(u, diff)
<1>1. /\ arranged' = [arranged EXCEPT ![u] = @ + diff] /\ u.t >= batched
      /\ output' = output /\ done' = done
    BY DEF Arrange
<1>2. batched \in Nat /\ done \in Nat /\ done <= batched /\ u.t \in Nat
    BY Types
<1>3. Answer' = Answer
    BY <1>1, SameValues, SameAnswer
<1>4. QED
    BY <1>1, <1>2, <1>3 DEF Latest!Send

\* The state machine only works on times that are not completed.
LEMMA StepStutters ==
  ASSUME LastWriteInv, NEW u \in replay, StepStateMachine(u)
  PROVE  UNCHANGED <<arranged, done, Answer>>
<1>1. arranged' = arranged /\ done' = done
    BY DEF StepStateMachine
<1>2. done \in Nat /\ u.t \in Nat /\ done <= u.t
    BY Types
<1>3. ASSUME NEW e \in Eids, NEW t \in WriteTimes, ~ (t >= done)
      PROVE  ValueAt(e, t)' = ValueAt(e, t)
  <2>1. t < u.t
      BY <1>2, <1>3, WriteAssumption DEF WriteTimes
  <2>2. PICK x \in Vals \cup {None} : HasValue(e, t, x)
      BY DEF LastWriteInv
  <2>3. HasValue(e, t, x)'
      BY <2>1, <2>2, StepKeeps
  <2>4. QED
      BY <2>2, <2>3, ValueRead
<1>4. Answer' = Answer
    BY <1>1, <1>3, SameAnswer
<1>5. QED
    BY <1>1, <1>4

\* Once a batch is replayed each of its times has an outcome LatestValue allows.
LEMMA BatchOutcomes ==
  ASSUME LastWriteInv, replay = {}, NEW e \in Eids, NEW t \in WriteTimes, t < batched,
         NEW x \in Vals \cup {None}, HasValue(e, t, x),
         NEW before \in Vals \cup {None}, t = 0 => before = None,
         t # 0 => HasValue(e, t - 1, before)
  PROVE  x \in Latest!Outcomes(e, t, before)
<1>1. /\ Latest!Written(e, t) = Written(e, t)
      /\ Latest!Retracted(e, t) <=> Retracted(e, t)
    BY DEF Latest!Written, Latest!Retracted, Written, Retracted
<1>2. /\ arranged \in [Update -> Int] /\ output \in [Update -> Int]
      /\ \A v \in Vals : [e |-> e, v |-> v, t |-> t] \in Update
    BY Types DEF Update
<1>3. CASE \E v \in Vals : arranged[[e |-> e, v |-> v, t |-> t]] # 0
  <2>1. PICK v \in Vals : arranged[[e |-> e, v |-> v, t |-> t]] # 0
      BY <1>3
  <2> DEFINE w == [e |-> e, v |-> v, t |-> t]
  <2>2. w \in Update /\ Processed(w) /\ w.e = e /\ w.t = t
      BY <1>2, <2>1 DEF Processed
  <2> HIDE DEF w
  <2>3. PICK y \in Vals \cup {None} :
          /\ HasValue(w.e, w.t, y)
          /\ y \in Written(w.e, w.t) \/ (y = None /\ Retracted(w.e, w.t))
      BY <2>2 DEF LastWriteInv
  <2>4. x = y
      BY <2>2, <2>3, ValueUnique
  <2>5. x \in Written(e, t) \/ (x = None /\ Retracted(e, t))
      BY <2>2, <2>3, <2>4
  <2>6. QED
      BY <1>1, <2>5 DEF Latest!Outcomes
<1>4. CASE ~ \E v \in Vals : arranged[[e |-> e, v |-> v, t |-> t]] # 0
  <2>1. Written(e, t) = {} /\ ~ Retracted(e, t)
      BY <1>2, <1>4 DEF Written, Retracted
  <2>2. ASSUME NEW w \in Update, w.e = e, w.t = t PROVE ~ Processed(w)
    <3>1. w.v \in Vals /\ w = [e |-> e, v |-> w.v, t |-> t]
        BY <2>2 DEF Update
    <3>2. QED
        BY <1>4, <3>1 DEF Processed
  <2>3. ASSUME NEW v \in Vals PROVE output[[e |-> e, v |-> v, t |-> t]] = 0
    <3> DEFINE u == [e |-> e, v |-> v, t |-> t]
    <3>1. u \in Update /\ u.e = e /\ u.t = t
        BY <1>2
    <3> HIDE DEF u
    <3>2. output[u] = 0
        BY <2>2, <3>1 DEF LastWriteInv
    <3>3. QED
        BY <3>2 DEF u
  <2>4. HasValue(e, t, before)
    <3>1. ASSUME NEW v \in Vals PROVE Count(e, v, t) = IF v = before THEN 1 ELSE 0
      <4>1. Count(e, v, t) = 0 + IF t = 0 THEN 0 ELSE Count(e, v, t - 1)
          BY <1>2, <2>3, CountStep
      <4>2. CASE t = 0
          BY <4>1, <4>2, WriteAssumption
      <4>3. CASE t # 0
          BY <4>1, <4>3 DEF HasValue
      <4>4. QED
          BY <4>2, <4>3
    <3>2. QED
        BY <3>1 DEF HasValue
  <2>5. x = before
      BY <2>4, ValueUnique
  <2>6. QED
      BY <1>1, <2>1, <2>5 DEF Latest!Outcomes
<1>5. QED
    BY <1>3, <1>4

\* Reporting progress publishes the answers of the times that were batched.
LEMMA ReportPublishes ==
  ASSUME LastWriteInv, ReportProgress
  PROVE  batched \in 1 .. MaxWriteTime + 1 /\ Latest!Publish(batched)
<1>1. /\ replay = {} /\ done < batched /\ done' = batched
      /\ arranged' = arranged /\ output' = output
    BY DEF ReportProgress
<1>2. batched \in Nat /\ batched <= MaxWriteTime + 1 /\ done \in Nat /\ done <= batched
    BY Types
<1>3. \A e \in Eids, t \in WriteTimes : ValueAt(e, t)' = ValueAt(e, t)
    BY <1>1, SameValues
<1>4. ASSUME NEW e \in Eids, NEW t \in WriteTimes
      PROVE  /\ Answer[e][t] = IF t >= done THEN None ELSE ValueAt(e, t)
             /\ Answer'[e][t] = IF t >= batched THEN None ELSE ValueAt(e, t)
    BY <1>1, <1>3, AnswerIs
<1>5. ASSUME NEW e \in Eids, NEW t \in WriteTimes PROVE ValueAt(e, t) \in Vals \cup {None}
  <2>1. PICK x \in Vals \cup {None} : HasValue(e, t, x)
      BY DEF LastWriteInv
  <2>2. QED
      BY <2>1, ValueRead
<1>6. Answer' \in [Eids -> [WriteTimes -> Vals \cup {None}]]
  <2>1. Answer' = [e \in Eids |-> [t \in WriteTimes |->
                     IF t >= batched THEN None ELSE ValueAt(e, t)]]
      BY <1>1, <1>3 DEF Answer
  <2>2. QED
      BY <1>5, <2>1
<1>7. ASSUME NEW e \in Eids, NEW t \in WriteTimes
      PROVE  IF t < done \/ t >= batched THEN Answer'[e][t] = Answer[e][t]
             ELSE Answer'[e][t] \in Latest!Outcomes(e, t, IF t = 0 THEN None ELSE Answer'[e][t - 1])
  <2>1. t \in Nat
      BY WriteAssumption DEF WriteTimes
  <2>2. CASE t < done \/ t >= batched
      BY <1>2, <1>4, <2>1, <2>2
  <2>3. CASE ~ (t < done \/ t >= batched)
    <3>1. PICK x \in Vals \cup {None} : HasValue(e, t, x)
        BY DEF LastWriteInv
    <3>2. t < batched /\ ~ (t >= batched)
        BY <1>2, <2>1, <2>3
    <3>3. Answer'[e][t] = x
        BY <1>4, <3>1, <3>2, ValueRead
    <3>4. CASE t = 0
      <4>1. x \in Latest!Outcomes(e, t, None)
          BY <1>1, <3>1, <3>2, <3>4, BatchOutcomes
      <4>2. QED
          BY <2>3, <3>3, <3>4, <4>1
    <3>5. CASE t # 0
      <4>1. t - 1 \in WriteTimes /\ ~ (t - 1 >= batched)
          BY <1>2, <2>1, <3>2, <3>5, WriteAssumption DEF WriteTimes
      <4>2. PICK y \in Vals \cup {None} : HasValue(e, t - 1, y)
          BY <4>1 DEF LastWriteInv
      <4>3. Answer'[e][t - 1] = y
          BY <1>4, <4>1, <4>2, ValueRead
      <4>4. x \in Latest!Outcomes(e, t, y)
          BY <1>1, <3>1, <3>2, <3>5, <4>2, BatchOutcomes
      <4>5. QED
          BY <2>3, <3>3, <3>5, <4>3, <4>4
    <3>6. QED
        BY <3>4, <3>5
  <2>4. QED
      BY <2>2, <2>3
<1>8. batched \in 1 .. MaxWriteTime + 1
    BY <1>1, <1>2, WriteAssumption
<1>9. QED
    BY <1>1, <1>2, <1>6, <1>7, <1>8 DEF Latest!Publish, Latest!Times, WriteTimes

\* last_write_wins implements LatestValue: as of every completed time an entity
\* has the value written to it last, or none after a retraction, and neither a
\* later batch nor the order in which keys are replayed revises an answer.
THEOREM LastWriteImplementsLatestValue == LastWriteSpec => ImplementsLatestValue
<1>1. LastWriteInit => Latest!Init
  <2> SUFFICES ASSUME LastWriteInit PROVE Latest!Init
      OBVIOUS
  <2>1. arranged = [u \in Update |-> 0] /\ done = 0
      BY DEF LastWriteInit
  <2>2. \A t \in WriteTimes : t >= done
      BY <2>1, WriteAssumption DEF WriteTimes
  <2>3. Answer = [e \in Eids |-> [t \in WriteTimes |-> None]]
      BY <2>2 DEF Answer
  <2>4. QED
      BY <2>1, <2>3 DEF Latest!Init, Latest!Update, Latest!Times, Update, WriteTimes
<1>2. LastWriteInv /\ [LastWriteNext]_lastWriteVars => [Latest!Next]_<<arranged, done, Answer>>
  <2> SUFFICES ASSUME LastWriteInv, [LastWriteNext]_lastWriteVars
               PROVE  Latest!Next \/ UNCHANGED <<arranged, done, Answer>>
      OBVIOUS
  <2>1. ASSUME NEW u \in Update, NEW diff \in {1, -1}, Arrange(u, diff) PROVE Latest!Next
    <3>1. Latest!Send(u, diff) /\ u \in Latest!Update
        BY <2>1, ArrangeSends DEF Latest!Update, Latest!Times, Update, WriteTimes
    <3>2. QED
        BY <3>1 DEF Latest!Next
  <2>2. ASSUME NEW next \in 1 .. MaxWriteTime + 1, SealBatch(next)
        PROVE  UNCHANGED <<arranged, done, Answer>>
    <3>1. arranged' = arranged /\ done' = done /\ output' = output
        BY <2>2 DEF SealBatch
    <3>2. QED
        BY <3>1, SameValues, SameAnswer
  <2>3. ASSUME NEW u \in replay, StepStateMachine(u)
        PROVE  UNCHANGED <<arranged, done, Answer>>
      BY <2>3, StepStutters
  <2>4. CASE ReportProgress
      BY <2>4, ReportPublishes DEF Latest!Next
  <2>5. CASE UNCHANGED lastWriteVars
    <3>1. arranged' = arranged /\ done' = done /\ output' = output
        BY <2>5 DEF lastWriteVars
    <3>2. QED
        BY <3>1, SameValues, SameAnswer
  <2>6. QED
      BY <2>1, <2>2, <2>3, <2>4, <2>5 DEF LastWriteNext
<1>3. QED
    BY <1>1, <1>2, LastWriteInvariant, PTL DEF LastWriteSpec, ImplementsLatestValue, Latest!Spec
=============================================================================
