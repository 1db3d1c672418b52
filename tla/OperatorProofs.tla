---------------------------- MODULE OperatorProofs ----------------------------
(***************************************************************************)
(* Proofs about two operators, each for any times and any number of        *)
(* updates or requests: the extenders of CollectionExtender and the        *)
(* assoc-in sink.                                                          *)
(***************************************************************************)
EXTENDS Extender, AssocIn, WellFoundedInduction, TLAPS
-----------------------------------------------------------------------------
(* The operators of CollectionExtender, for any number of requests and     *)
(* times.                                                                  *)

Request == [time : Times, cap : Times]

Pending == requests \cup stash

TypeInv ==
  /\ upstream \in Nat /\ sealed \in 0 .. Closed /\ known \in 0 .. sealed
  /\ requests \subseteq Request /\ stash \subseteq Request
  /\ DOMAIN index \subseteq Times /\ DOMAIN index \subseteq 0 .. sealed - 1
  /\ opSince \in Nat /\ domainSince \in Nat /\ holding \in BOOLEAN
  /\ answers \in [Times -> Seq(SUBSET Times)]

\* A request is in one place, and the only one for its time.
Placed ==
  /\ requests \cap stash = {}
  /\ \A r, q \in Pending : r.time = q.time => r = q

\* A request that is still around has no answer yet; an answer is given for
\* times at which the index is complete, and only once.
Answered ==
  /\ \A r \in Pending : answers[r.time] = <<>>
  /\ \A t \in Times : answers[t] # <<>> => t < known /\ Len(answers[t]) = 1

Inv == TypeInv /\ Placed /\ Answered

\* A first answer is the only one.
LEMMA AppendEmpty ==
  ASSUME NEW S, NEW x \in S
  PROVE  /\ Append(<<>>, x) \in Seq(S) /\ Len(Append(<<>>, x)) = 1 /\ Append(<<>>, x) # <<>>
         /\ DOMAIN Append(<<>>, x) = {1} /\ Append(<<>>, x)[1] = x
OBVIOUS

\* At the start there is neither a request nor an answer.
LEMMA InvInit == ASSUME MaxRequestTime \in Nat PROVE ExtenderInit => Inv
<1> SUFFICES ASSUME ExtenderInit PROVE Inv
  OBVIOUS
<1>1. TypeInv
  <2>1. answers \in [Times -> Seq(SUBSET Times)]
    BY DEF ExtenderInit
  <2>2. DOMAIN index = {}
    BY DEF ExtenderInit
  <2> QED
    BY <2>1, <2>2 DEF ExtenderInit, TypeInv, Closed
<1>2. Placed
  BY DEF ExtenderInit, Placed, Pending
<1>3. Answered
  BY DEF ExtenderInit, Answered, Pending
<1> QED
  BY <1>1, <1>2, <1>3 DEF Inv
-----------------------------------------------------------------------------
\* What one run of the operator does, request by request.
LEMMA ActivateStep ==
  ASSUME MaxRequestTime \in Nat, Inv, NEW arrived \in SUBSET requests, NEW front \in known .. sealed,
         Activate(arrived, front)
  PROVE  /\ Inv'
         /\ \A t \in Times : answers'[t] = answers[t] \/ (answers'[t] = <<Read(t)>> /\ t < front)
<1> DEFINE held == stash \cup arrived
           ready == {r \in held : holding /\ Complete(r, front)}
<1>1. PICK in1 \in {upstream} \cup {r.cap : r \in requests \ arrived} :
        /\ requests' = requests \ arrived /\ stash' = held \ ready
        /\ answers' = [t \in Times |-> IF \E r \in ready : r.time = t
                                       THEN Append(answers[t], Read(t)) ELSE answers[t]]
        /\ opSince' = IF holding THEN in1 ELSE opSince
        /\ known' = front /\ holding' \in BOOLEAN
        /\ UNCHANGED <<upstream, index, sealed, domainSince>>
  BY DEF Activate, Remaining
<1>2. /\ requests \subseteq Request /\ stash \subseteq Request /\ sealed \in 0 .. Closed /\ known \in 0 .. sealed
      /\ answers \in [Times -> Seq(SUBSET Times)] /\ DOMAIN index \subseteq Times /\ Closed \in Nat
  BY DEF Inv, TypeInv, Closed
<1>3. /\ held \subseteq Pending /\ ready \subseteq held
      /\ Pending' = Pending \ ready
  <2>1. requests \cap stash = {}
    BY DEF Inv, Placed
  <2>2. arrived \cap stash = {} /\ (requests \ arrived) \cap held = {}
    BY <2>1
  <2> QED
    BY <1>1, <2>2 DEF Pending
<1>4. \A r \in ready : r \in Request /\ r.time \in Times /\ r.time < front /\ answers[r.time] = <<>>
  <2>1. \A r \in ready : r \in Pending /\ front > r.time
    BY <1>3 DEF Complete
  <2>2. \A r \in ready : r \in Request
    BY <1>2, <1>3 DEF Pending
  <2>3. \A r \in Request : r.time \in Times
    BY DEF Request
  <2>4. \A r \in ready : answers[r.time] = <<>>
    BY <2>1 DEF Inv, Answered
  <2>5. \A t \in Times : t \in Int
    BY DEF Times
  <2> QED
    BY <2>1, <2>2, <2>3, <2>4, <2>5, <1>2
<1>5. \A t \in Times : Read(t) \in SUBSET Times
  BY <1>2 DEF Read
<1> HIDE DEF ready, held
<1>6. ASSUME NEW t \in Times
      PROVE  \/ /\ answers'[t] = answers[t]
                /\ \A r \in ready : r.time # t
             \/ answers[t] = <<>> /\ answers'[t] = Append(<<>>, Read(t)) /\ t < front
  <2>1. CASE \E r \in ready : r.time = t
    <3>1. PICK r \in ready : r.time = t
      BY <2>1
    <3> QED
      BY <1>1, <1>4, <3>1
  <2>2. CASE ~ \E r \in ready : r.time = t
    BY <1>1, <2>2
  <2> QED
    BY <2>1, <2>2
<1>7. TypeInv'
  <2>1. answers' \in [Times -> Seq(SUBSET Times)]
    <3>1. ASSUME NEW t \in Times PROVE answers'[t] \in Seq(SUBSET Times)
      <4>1. Append(<<>>, Read(t)) \in Seq(SUBSET Times)
        BY <1>5, AppendEmpty
      <4>2. answers[t] \in Seq(SUBSET Times)
        BY <1>2
      <4> QED
        BY <1>6, <4>1, <4>2
    <3> QED
      BY <1>1, <3>1
  <2>2. requests' \subseteq Request /\ stash' \subseteq Request
    BY <1>1, <1>2, <1>3 DEF Pending
  <2>3. in1 \in Nat
    <3>1. upstream \in Nat /\ \A r \in requests : r.cap \in Nat
      BY DEF Inv, TypeInv, Request, Times
    <3> QED
      BY <3>1
  <2>4. opSince' \in Nat /\ known' \in 0 .. sealed
    BY <1>1, <1>2, <2>3 DEF Inv, TypeInv
  <2> QED
    BY <1>1, <2>1, <2>2, <2>4 DEF Inv, TypeInv
<1>8. Placed'
  <2>1. requests' \cap stash' = {}
    <3>1. requests \cap stash = {}
      BY DEF Inv, Placed
    <3> QED
      BY <1>1, <3>1 DEF held
  <2> QED
    BY <1>3, <2>1 DEF Inv, Placed
<1>9. Answered'
  <2>1. ASSUME NEW r \in Pending' PROVE answers'[r.time] = <<>>
    <3>1. r \in Pending /\ r \notin ready /\ r.time \in Times /\ answers[r.time] = <<>>
      BY <1>2, <1>3, <2>1 DEF Pending, Request, Inv, Answered
    <3>2. \A q \in ready : q.time # r.time
      BY <1>3, <3>1 DEF Inv, Placed
    <3> QED
      BY <1>1, <3>1, <3>2
  <2>2. ASSUME NEW t \in Times, answers'[t] # <<>> PROVE t < known' /\ Len(answers'[t]) = 1
    <3>1. CASE answers'[t] = answers[t]
      <4>1. t < known /\ Len(answers[t]) = 1
        <5>1. Answered
          BY DEF Inv
        <5> QED
          BY <2>2, <3>1, <5>1, Zenon DEF Answered
      <4>2. t \in Int /\ known \in Int /\ front \in Int /\ known <= front
        <5>1. known \in Int /\ sealed \in Int
          BY <1>2
        <5>2. t \in Int
          BY DEF Times
        <5> QED
          BY <5>1, <5>2
      <4>3. t < front
        BY <4>1, <4>2
      <4>4. known' = front
        BY <1>1
      <4> QED
        BY <3>1, <4>1, <4>3, <4>4, Zenon
    <3>2. CASE answers'[t] # answers[t]
      <4>1. answers'[t] = Append(<<>>, Read(t)) /\ t < front
        BY <1>6, <3>2
      <4>2. Len(Append(<<>>, Read(t))) = 1
        BY <1>5, AppendEmpty
      <4> QED
        BY <1>1, <4>1, <4>2
    <3> QED
      BY <3>1, <3>2
  <2> QED
    BY <2>1, <2>2 DEF Answered
<1>10. \A t \in Times : answers'[t] = answers[t] \/ (answers'[t] = <<Read(t)>> /\ t < front)
  <2>1. \A x : Append(<<>>, x) = <<x>>
    OBVIOUS
  <2> QED
    BY <1>6, <2>1
<1> QED
  BY <1>7, <1>8, <1>9, <1>10 DEF Inv

\* Every step keeps requests and answers apart.
LEMMA InvStep == ASSUME MaxRequestTime \in Nat PROVE Inv /\ [ExtenderNext]_extenderVars => Inv'
<1> SUFFICES ASSUME Inv, [ExtenderNext]_extenderVars PROVE Inv'
  OBVIOUS
<1>1. TypeInv /\ Placed /\ Answered
  BY DEF Inv
<1>2. ASSUME NEW t \in Times, NEW c \in Times, Send([time |-> t, cap |-> c]) PROVE Inv'
  <2> DEFINE r == [time |-> t, cap |-> c]
  <2>1. /\ requests' = requests \cup {r} /\ r.time \notin Requested
        /\ UNCHANGED <<upstream, stash, index, sealed, known, domainSince, opSince, holding, answers>>
    BY <1>2 DEF Send
  <2>2. r \in Request /\ r.time = t
    BY DEF Request
  <2>3. answers[t] = <<>> /\ \A q \in Pending : q.time # t
    BY <2>1, <2>2 DEF Requested, Pending
  <2> HIDE DEF r
  <2>4. r \notin Pending /\ Pending' = Pending \cup {r}
    BY <2>1, <2>2, <2>3 DEF Pending
  <2>5. TypeInv'
    BY <1>1, <2>1, <2>2 DEF TypeInv
  <2>6. Placed'
    <3>1. requests' \cap stash' = {}
      BY <1>1, <2>1, <2>4 DEF Placed, Pending
    <3>2. \A p, q \in Pending' : p.time = q.time => p = q
      BY <1>1, <2>2, <2>3, <2>4 DEF Placed
    <3> QED
      BY <3>1, <3>2 DEF Placed
  <2>7. Answered'
    BY <1>1, <2>1, <2>2, <2>3, <2>4 DEF Answered
  <2> QED
    BY <2>5, <2>6, <2>7 DEF Inv
<1>3. CASE Promise
  BY <1>1, <1>3 DEF Promise, Inv, TypeInv, Placed, Answered, Pending, Closed
<1>4. ASSUME NEW change \in BOOLEAN, Seal(change) PROVE Inv'
  <2>1. /\ sealed < Closed /\ sealed' = sealed + 1 /\ DOMAIN index' \subseteq DOMAIN index \cup {sealed}
        /\ UNCHANGED <<upstream, requests, stash, known, domainSince, opSince, holding, answers>>
    BY <1>4 DEF Seal
  <2>2. TypeInv'
    BY <1>1, <2>1 DEF TypeInv, Closed, Times
  <2> QED
    BY <1>1, <2>1, <2>2 DEF Inv, Placed, Answered, Pending
<1>5. CASE AdvanceDomain
  BY <1>1, <1>5 DEF AdvanceDomain, Inv, TypeInv, Placed, Answered, Pending
<1>6. CASE MergeBatches
  <2>1. /\ DOMAIN index' = DOMAIN index
        /\ UNCHANGED <<upstream, requests, stash, sealed, known, domainSince, opSince, holding, answers>>
    BY <1>6 DEF MergeBatches
  <2> QED
    BY <1>1, <2>1 DEF Inv, TypeInv, Placed, Answered, Pending
<1>7. ASSUME NEW arrived \in SUBSET requests, NEW front \in known .. sealed, Activate(arrived, front)
      PROVE  Inv'
  BY <1>7, ActivateStep
<1>8. CASE UNCHANGED extenderVars
  BY <1>1, <1>8 DEF extenderVars, Inv, TypeInv, Placed, Answered, Pending
<1> QED
  BY <1>2, <1>3, <1>4, <1>5, <1>6, <1>7, <1>8 DEF ExtenderNext, SealNext

\* No prefix is extended twice, whatever arrives when and however the trace is
\* compacted (hector.rs sets the diff of an answered prefix to zero).
THEOREM ExtendedOnce == ASSUME MaxRequestTime \in Nat PROVE ExtenderSpec => []AnsweredOnce
<1>1. Inv => AnsweredOnce
  <2> SUFFICES ASSUME Inv, NEW t \in Times PROVE Len(answers[t]) <= 1
    BY DEF AnsweredOnce
  <2>1. answers[t] = <<>> \/ Len(answers[t]) = 1
    BY Zenon DEF Inv, Answered
  <2>2. CASE answers[t] = <<>>
    <3>1. Len(<<>>) = 0
      OBVIOUS
    <3>2. Len(answers[t]) = 0
      BY <2>2, <3>1
    <3> QED
      BY <3>2
  <2>3. CASE Len(answers[t]) = 1
    BY <2>3
  <2> QED
    BY <2>1, <2>2, <2>3, Zenon
<1> QED
  BY <1>1, InvInit, InvStep, PTL DEF ExtenderSpec
-----------------------------------------------------------------------------
(* What compaction may have changed.                                       *)

\* The operator gives up no time that its first input may still bring.
Behind == opSince <= upstream /\ \A r \in requests : opSince <= r.cap

\* An update is kept at its own time or moved, no further than it may be.
Moved == \A s \in DOMAIN index : index[s] = s \/ (index[s] \in Nat /\ s < index[s] /\ index[s] <= Since)

CompactInv == Inv /\ Behind /\ Moved

\* What may be compacted is a time.
LEMMA SinceType == ASSUME Inv PROVE Since \in Nat
BY DEF Inv, TypeInv, Since

\* The frontier of the first input is not past what may still arrive.
LEMMA BehindStep == ASSUME MaxRequestTime \in Nat PROVE Inv /\ Behind /\ [ExtenderNext]_extenderVars => Behind'
<1> SUFFICES ASSUME Inv, Behind, [ExtenderNext]_extenderVars PROVE Behind'
  OBVIOUS
<1>1. opSince \in Nat /\ upstream \in Nat /\ \A r \in requests : r.cap \in Nat
  BY DEF Inv, TypeInv, Request, Times
<1>2. ASSUME NEW t \in Times, NEW c \in Times, Send([time |-> t, cap |-> c]) PROVE Behind'
  <2>1. requests' = requests \cup {[time |-> t, cap |-> c]} /\ upstream <= c /\ UNCHANGED <<opSince, upstream>>
    BY <1>2 DEF Send
  <2>2. opSince <= c
    BY <1>1, <2>1 DEF Behind, Times
  <2> QED
    BY <2>1, <2>2 DEF Behind
<1>3. CASE Promise
  BY <1>1, <1>3 DEF Promise, Behind
<1>4. CASE UNCHANGED <<opSince, upstream, requests>>
  BY <1>4 DEF Behind
<1>5. ASSUME NEW arrived \in SUBSET requests, NEW front \in known .. sealed, Activate(arrived, front)
      PROVE  Behind'
  <2>1. PICK in1 : /\ in1 <= upstream /\ \A r \in requests \ arrived : in1 <= r.cap
                   /\ requests' = requests \ arrived /\ upstream' = upstream
                   /\ opSince' = IF holding THEN in1 ELSE opSince
    BY <1>5, Zenon DEF Activate
  <2> QED
    BY <2>1 DEF Behind
<1> QED
  BY <1>2, <1>3, <1>4, <1>5 DEF ExtenderNext, extenderVars, SealNext, Seal, AdvanceDomain, MergeBatches

\* What may be compacted only grows.
LEMMA SinceGrows ==
  ASSUME MaxRequestTime \in Nat
  PROVE  Inv /\ Behind /\ [ExtenderNext]_extenderVars => Since <= Since'
<1> SUFFICES ASSUME Inv, Behind, [ExtenderNext]_extenderVars PROVE Since <= Since'
  OBVIOUS
<1>1. /\ opSince \in Nat /\ domainSince \in Nat /\ holding \in BOOLEAN /\ upstream \in Nat
      /\ \A r \in requests : r.cap \in Nat
  BY DEF Inv, TypeInv, Request, Times
<1>2. CASE UNCHANGED <<opSince, domainSince, holding>>
  BY <1>1, <1>2 DEF Since
<1>3. CASE AdvanceDomain
  BY <1>1, <1>3 DEF Since, AdvanceDomain
<1>4. ASSUME NEW arrived \in SUBSET requests, NEW front \in known .. sealed, Activate(arrived, front)
      PROVE  Since <= Since'
  <2>1. PICK in1 \in {upstream} \cup {r.cap : r \in requests \ arrived} :
          /\ opSince' = IF holding THEN in1 ELSE opSince
          /\ holding' \in BOOLEAN /\ (holding' => holding) /\ domainSince' = domainSince
    BY <1>1, <1>4 DEF Activate
  <2>2. in1 \in Nat /\ opSince <= in1
    BY <1>1, <2>1 DEF Behind
  <2> QED
    BY <1>1, <2>1, <2>2 DEF Since
<1> QED
  BY <1>2, <1>3, <1>4 DEF ExtenderNext, extenderVars, SealNext, Seal, MergeBatches, Send, Promise

\* Merging moves updates no further than the holders of the trace allow.
LEMMA MovedStep ==
  ASSUME MaxRequestTime \in Nat
  PROVE  Inv /\ Behind /\ Moved /\ [ExtenderNext]_extenderVars => Moved'
<1> SUFFICES ASSUME Inv, Behind, Moved, [ExtenderNext]_extenderVars, NEW s \in DOMAIN index'
             PROVE  index'[s] = s \/ (index'[s] \in Nat /\ s < index'[s] /\ index'[s] <= Since')
  BY DEF Moved
<1>1. Since \in Nat /\ Since' \in Nat /\ Since <= Since'
  <2>1. Inv'
    BY InvStep
  <2>2. Since' \in Nat
    BY <2>1 DEF Inv, TypeInv, Since
  <2> QED
    BY <2>2, SinceType, SinceGrows
<1>2. \A u \in DOMAIN index : u \in Nat
  BY DEF Inv, TypeInv, Times
<1>3. CASE s \in DOMAIN index /\ index'[s] = index[s]
  BY <1>1, <1>3 DEF Moved
<1>4. ASSUME NEW change \in BOOLEAN, Seal(change)
      PROVE  index'[s] = s \/ (s \in DOMAIN index /\ index'[s] = index[s])
  BY <1>4 DEF Seal
<1>5. CASE MergeBatches
  <2>1. s \in DOMAIN index /\ index'[s] = IF index[s] < Since THEN Since ELSE index[s]
    BY <1>5 DEF MergeBatches
  <2>2. CASE index[s] < Since
    BY <1>1, <1>2, <2>1, <2>2 DEF Moved
  <2>3. CASE ~ (index[s] < Since)
    BY <1>3, <2>1, <2>3
  <2> QED
    BY <2>2, <2>3
<1>6. CASE UNCHANGED index
  BY <1>3, <1>6
<1> QED
  BY <1>3, <1>4, <1>5, <1>6 DEF ExtenderNext, extenderVars, SealNext, Send, Promise, Activate, AdvanceDomain

\* Reading the compacted trace at a time that was not given up.
LEMMA ReadAsOf ==
  ASSUME Inv, Moved, NEW t \in Times, Visible(Since, t)
  PROVE  Read(t) = {s \in DOMAIN index : Visible(s, t)}
<1>1. ASSUME NEW s \in DOMAIN index PROVE Visible(index[s], t) <=> Visible(s, t)
  <2>1. s \in Nat /\ t \in Int /\ Since \in Nat
    BY SinceType DEF Inv, TypeInv, Times
  <2>2. index[s] = s \/ (index[s] \in Nat /\ s < index[s] /\ index[s] <= Since)
    BY DEF Moved
  <2> QED
    BY <2>1, <2>2 DEF Visible
<1> QED
  BY <1>1 DEF Read

\* No step gives, or turns an answer into, one that is not as of its time.
LEMMA AsOfStep ==
  ASSUME MaxRequestTime \in Nat
  PROVE  CompactInv /\ AnswersAsOf /\ [ExtenderNext]_extenderVars => AnswersAsOf'
<1> SUFFICES ASSUME Inv, Behind, Moved, AnswersAsOf, [ExtenderNext]_extenderVars, NEW t \in Times,
                    Visible(Since', t), NEW i \in DOMAIN answers'[t]
             PROVE  answers'[t][i] = {s \in DOMAIN index' : Visible(s, t)}
  BY DEF AnswersAsOf, CompactInv, Visible
<1>1. Visible(Since, t)
  <2>1. Since \in Nat /\ Since' \in Nat /\ Since <= Since' /\ t \in Int
    <3>1. Inv'
      BY InvStep
    <3>2. Since' \in Nat
      BY <3>1 DEF Inv, TypeInv, Since
    <3> QED
      BY <3>2, SinceType, SinceGrows DEF Times
  <2> QED
    BY <2>1 DEF Visible
<1>2. CASE UNCHANGED answers /\ DOMAIN index' = DOMAIN index
  BY <1>1, <1>2 DEF AnswersAsOf
<1>3. ASSUME NEW change \in BOOLEAN, Seal(change)
      PROVE  answers'[t][i] = {s \in DOMAIN index' : Visible(s, t)}
  <2>1. UNCHANGED answers /\ (DOMAIN index' = DOMAIN index \/ DOMAIN index' = DOMAIN index \cup {sealed})
    BY <1>3 DEF Seal
  <2>2. answers[t] # <<>> /\ answers[t][i] = {s \in DOMAIN index : Visible(s, t)}
    BY <1>1, <2>1 DEF AnswersAsOf
  <2>3. t < sealed /\ t \in Int /\ sealed \in Int
    <3>1. t < known /\ known \in Nat /\ sealed \in Nat /\ known <= sealed /\ t \in Nat
      BY <2>2 DEF Inv, Answered, TypeInv, Times
    <3> QED
      BY <3>1
  <2>4. ~ Visible(sealed, t)
    BY <2>3 DEF Visible
  <2> QED
    BY <2>1, <2>2, <2>4
<1>4. ASSUME NEW arrived \in SUBSET requests, NEW front \in known .. sealed, Activate(arrived, front)
      PROVE  answers'[t][i] = {s \in DOMAIN index' : Visible(s, t)}
  <2>1. answers'[t] = answers[t] \/ answers'[t] = <<Read(t)>>
    BY <1>4, ActivateStep
  <2>2. index' = index
    BY <1>4 DEF Activate
  <2>3. Read(t) = {s \in DOMAIN index : Visible(s, t)}
    BY <1>1, ReadAsOf
  <2>4. CASE answers'[t] = answers[t]
    BY <1>1, <2>2, <2>4 DEF AnswersAsOf
  <2>5. CASE answers'[t] = <<Read(t)>>
    <3>1. answers'[t][i] = Read(t)
      BY <2>5
    <3> QED
      BY <3>1, <2>2, <2>3
  <2> QED
    BY <2>1, <2>4, <2>5
<1>5. CASE MergeBatches
  BY <1>2, <1>5 DEF MergeBatches
<1> QED
  BY <1>2, <1>3, <1>4, <1>5 DEF ExtenderNext, extenderVars, SealNext, Send, Promise, AdvanceDomain

\* A prefix is extended by what the index held at the time of the prefix,
\* however long it was stashed and whatever was merged meanwhile, as long as
\* its time was not given up for compaction (count, propose and validate of
\* hector.rs: prefixes wait until the index is complete at their times).
THEOREM ExtendedAsOf == ASSUME MaxRequestTime \in Nat PROVE ExtenderSpec => []AnswersAsOf
<1>1. ExtenderInit => CompactInv /\ AnswersAsOf
  <2>1. ExtenderInit => Behind /\ Moved /\ AnswersAsOf
    BY DEF ExtenderInit, Behind, Moved, AnswersAsOf
  <2> QED
    BY <2>1, InvInit DEF CompactInv
<1>2. CompactInv /\ AnswersAsOf /\ [ExtenderNext]_extenderVars => (CompactInv /\ AnswersAsOf)'
  BY InvStep, BehindStep, MovedStep, AsOfStep DEF CompactInv
<1> QED
  BY <1>1, <1>2, PTL DEF ExtenderSpec

\* Each prefix is extended at most once, and by what the index held at its
\* time (a diff that was given is set to zero in hector.rs).
THEOREM ExtendedOnceAsOf == ASSUME MaxRequestTime \in Nat PROVE ExtenderSpec => []AnsweredOnceAsOf
<1>1. AnsweredOnce /\ AnswersAsOf => AnsweredOnceAsOf
  BY DEF AnsweredOnceAsOf
<1> QED
  BY <1>1, ExtendedOnce, ExtendedAsOf, PTL
-----------------------------------------------------------------------------
(* The assoc-in sink, for any paths, leaves, granularity and times: the    *)
(* map shows the rows, and what changes in it is forwarded.                *)

\* Paths and the objects above them.
Nodes == Paths \cup UNION {Levels(p) : p \in Paths}

\* A change of a leaf that the sink reads.
Change == [path : Paths, v : Leafs, t : 0 .. MaxPathTime, diff : {-1, 1}]

\* A map has leaves at paths and objects above them.
IsMap(m) ==
  /\ m = [n \in DOMAIN m |-> m[n]] /\ DOMAIN m \subseteq Nodes
  /\ \A n \in DOMAIN m : (n \in Paths => m[n] \in Leafs) /\ (n \notin Paths => m[n] = Obj)

\* h[p][t] are the values at p before the changes of time t.
Histories ==
  {h \in [Paths -> [0 .. MaxPathTime + 1 -> SUBSET Leafs]] :
     \A p \in Paths \ Many : \A t \in 0 .. MaxPathTime + 1 : \A v, w \in h[p][t] : v = w}

\* The values that come and go at a path at time t.
Added(h, p, t) == h[p][t + 1] \ h[p][t]
Gone(h, p, t) == h[p][t] \ h[p][t + 1]

\* The changes of a history from c and before e.
Between(h, c, e) ==
  {d \in Change : /\ c <= d.t /\ d.t < e
                  /\ d.v \in IF d.diff = 1 THEN Added(h, d.path, d.t) ELSE Gone(h, d.path, d.t)}

\* A history explains the state: the rows are its end, the changes in flight
\* are its last ones, each batch has those up to the next batch, and the map is
\* that of the earliest batch.
Explained(h) ==
  /\ \A p \in Paths : \A t \in now + 1 .. MaxPathTime + 1 : h[p][t] = rows[p]
  /\ diffs = Between(h, cap, now + 1)
  /\ \A c \in DOMAIN paths : \E e \in DOMAIN paths \cup {cap} :
       c < e /\ (\A b \in DOMAIN paths : b <= c \/ e <= b) /\ paths[c] = Between(h, c, e)
  /\ \A l \in DOMAIN paths \cup {cap} :
       (\A b \in DOMAIN paths : l <= b) => \A p \in Paths : Leaf(states, p) \in Shown(p, h[p][l])

\* The types of the sink's state.
AssocType ==
  /\ rows \in [Paths -> SUBSET Leafs] /\ now \in 0 .. MaxPathTime /\ cap \in 0 .. now
  /\ paths = [c \in DOMAIN paths |-> paths[c]] /\ DOMAIN paths \subseteq 0 .. cap - 1
  /\ IsMap(states)

\* The invariant: what is on its way is the part of one history of the rows
\* that the map lacks.
AssocInv == AssocType /\ \E h \in Histories : Explained(h)

-----------------------------------------------------------------------------
\* A non-empty set of numbers has a least element.
LEMMA LeastNumber ==
  ASSUME NEW S, S \subseteq Nat, S # {}
  PROVE  \E m \in S : \A n \in S : m <= n
<1> DEFINE R == OpToRel(<, Nat)
<1>1. IsWellFoundedOn(R, Nat)
    BY NatLessThanWellFounded, Zenon
<1> HIDE DEF R
<1>2. \E m \in S : \A n \in S : ~ (<<n, m>> \in R)
    BY <1>1, WFMin, Zenon
<1>3. PICK m \in S : \A n \in S : ~ (<<n, m>> \in R)
    BY <1>2
<1>4. ASSUME NEW n \in S PROVE m <= n
  <2>1. <<n, m>> \notin R /\ m \in Nat /\ n \in Nat
      BY <1>3
  <2>2. n < m => <<n, m>> \in R
      BY <2>1 DEF OpToRel, R
  <2>3. QED
      BY <2>1, <2>2
<1>5. QED
    BY <1>3, <1>4

\* The changes of a row are changes.
LEMMA ChangedType ==
  ASSUME NEW p \in Paths, NEW vs, NEW diff \in {-1, 1}, vs \subseteq Leafs, now \in 0 .. MaxPathTime
  PROVE  Changed(p, vs, diff) \subseteq Change /\ \A x \in Changed(p, vs, diff) : x.path = p /\ x.t = now
    BY DEF Changed, Change

\* What holds at the start and passes from each number to the next holds at
\* the number after the last.
LEMMA CountUp ==
  ASSUME NEW n \in Nat, NEW G, 0 \in G, \A s \in 0 .. n : s \in G => s + 1 \in G
  PROVE  n + 1 \in G
<1> DEFINE Bad == {t \in 0 .. n + 1 : t \notin G}
<1>1. ASSUME NEW m \in Bad, \A k \in Bad : m <= k PROVE FALSE
  <2>1. m \in 1 .. n + 1 /\ m \notin G
      BY <1>1
  <2>2. m - 1 \in 0 .. n /\ (m - 1) + 1 = m /\ ~ (m <= m - 1)
      BY <2>1
  <2>3. m - 1 \in G
      BY <1>1, <2>2
  <2>4. QED
      BY <2>1, <2>2, <2>3
<1>2. Bad \subseteq Nat
    OBVIOUS
<1>3. n + 1 \in 0 .. n + 1
    OBVIOUS
<1> HIDE DEF Bad
<1>4. Bad = {}
  <2>1. SUFFICES ASSUME Bad # {} PROVE FALSE
      OBVIOUS
  <2>2. PICK m \in Bad : \A k \in Bad : m <= k
      BY <1>2, <2>1, LeastNumber, Zenon
  <2>3. QED
      BY <1>1, <2>2
<1>5. n + 1 \notin G => n + 1 \in Bad
    BY <1>3 DEF Bad
<1>6. QED
    BY <1>4, <1>5

\* A level of a path is a proper prefix of it.
LEMMA LevelShape ==
  ASSUME NEW q \in Paths, NEW n \in Levels(q)
  PROVE  n \in Seq(Keys) /\ Len(n) < Len(q) /\ \A j \in 1 .. Len(n) : n[j] = q[j]
<1>1. PICK i \in 1 .. Len(q) - 1 : n = SubSeq(q, 1, i)
    BY DEF Levels
<1>2. q \in Seq(Keys) /\ Len(q) \in Nat /\ i \in Nat /\ i < Len(q)
    BY AssocAssumption
<1>3. n \in Seq(Keys) /\ Len(n) = i /\ \A j \in 1 .. i : n[j] = q[j]
    BY <1>1, <1>2
<1>4. QED
    BY <1>2, <1>3

\* Prefixes, element by element.
LEMMA PrefixElements ==
  ASSUME NEW s \in Seq(Keys), NEW t \in Seq(Keys)
  PROVE  IsAbove(s, t) <=> Len(s) <= Len(t) /\ \A j \in 1 .. Len(s) : s[j] = t[j]
<1>1. CASE Len(s) <= Len(t)
  <2> DEFINE b == SubSeq(t, 1, Len(s))
  <2>1. b \in Seq(Keys) /\ Len(b) = Len(s) /\ \A j \in 1 .. Len(s) : b[j] = t[j]
      BY <1>1
  <2>2. IsAbove(s, t) <=> b = s
      BY <1>1 DEF IsAbove
  <2> HIDE DEF b
  <2>3. (\A j \in 1 .. Len(s) : b[j] = s[j]) => b = s
      BY <2>1
  <2>4. QED
      BY <1>1, <2>1, <2>2, <2>3
<1>2. QED
    BY <1>1 DEF IsAbove

\* No path is a level of another or lies above one.
LEMMA PathsApart ==
  ASSUME NEW p \in Paths, NEW q \in Paths
  PROVE  /\ IsAbove(p, p) /\ (IsAbove(p, q) => p = q) /\ Len(p) # 1
         /\ \A n \in Levels(q) : n \notin Paths /\ ~ IsAbove(p, n)
<1>1. p \in Seq(Keys) /\ q \in Seq(Keys) /\ Len(p) >= 2 /\ (IsAbove(p, q) => p = q)
    BY AssocAssumption
<1>2. IsAbove(p, p)
    BY <1>1, PrefixElements
<1>3. ASSUME NEW n \in Levels(q) PROVE n \notin Paths /\ ~ IsAbove(p, n)
  <2>1. n \in Seq(Keys) /\ Len(n) < Len(q) /\ \A j \in 1 .. Len(n) : n[j] = q[j]
      BY LevelShape
  <2>2. Len(n) \in Nat /\ Len(p) \in Nat /\ Len(q) \in Nat
      BY <1>1, <2>1
  <2>3. IsAbove(n, q)
      BY <1>1, <2>1, <2>2, PrefixElements
  <2>4. n \notin Paths
      BY <2>1, <2>2, <2>3, AssocAssumption
  <2>5. ASSUME IsAbove(p, n) PROVE FALSE
    <3>1. Len(p) <= Len(n) /\ \A j \in 1 .. Len(p) : p[j] = n[j]
        BY <1>1, <2>1, <2>5, PrefixElements
    <3>2. Len(p) <= Len(q) /\ \A j \in 1 .. Len(p) : p[j] = q[j]
        BY <2>1, <2>2, <3>1
    <3>3. IsAbove(p, q)
        BY <1>1, <3>2, PrefixElements
    <3>4. QED
        BY <1>1, <2>1, <2>2, <3>1, <3>3
  <2>6. QED
      BY <2>4, <2>5
<1>4. Len(p) # 1
  <2>1. Len(p) \in Nat
      BY <1>1
  <2>2. Len(p) >= 2
      BY <1>1
  <2>3. \A n \in Nat : n >= 2 => n # 1
      OBVIOUS
  <2>4. QED
      BY <2>1, <2>2, <2>3, Zenon
<1>5. QED
    BY <1>1, <1>2, <1>3, <1>4

\* Levels are among the nodes of a map.
LEMMA LevelNodes ==
  ASSUME NEW p \in Paths
  PROVE  Levels(p) \subseteq Nodes /\ p \in Nodes
BY DEF Nodes

-----------------------------------------------------------------------------
\* Creating levels changes no leaf.
LEMMA LevelsCreated ==
  ASSUME NEW acc, IsMap(acc), NEW ds, ds \subseteq Change
  PROVE  LET map == WithLevels(acc, ds)
         IN /\ IsMap(map) /\ \A p \in Paths : Leaf(map, p) = Leaf(acc, p)
            /\ \A d \in ds : Reached(map, d.path)
<1> DEFINE new == UNION {Levels(d.path) : d \in ds}
           map == WithLevels(acc, ds)
<1>1. \A d \in ds : d.path \in Paths
    BY DEF Change
<1>2. new \subseteq Nodes /\ \A n \in new : n \notin Paths
    BY <1>1, LevelNodes, PathsApart
<1>3. DOMAIN map = DOMAIN acc \cup new
    BY DEF WithLevels
<1>4. \A n \in DOMAIN map : map[n] = IF n \in DOMAIN acc THEN acc[n] ELSE Obj
    BY DEF WithLevels
<1>5. map = [n \in DOMAIN map |-> map[n]]
    BY DEF WithLevels
<1>6. \A d \in ds : Levels(d.path) \subseteq new
    OBVIOUS
<1> HIDE DEF new, map
<1>7. IsMap(map)
    BY <1>2, <1>3, <1>4, <1>5 DEF IsMap
<1>8. \A p \in Paths : Leaf(map, p) = Leaf(acc, p)
    BY <1>2, <1>3, <1>4 DEF Leaf
<1>9. ASSUME NEW d \in ds PROVE Reached(map, d.path)
    BY <1>2, <1>3, <1>4, <1>6, <1>7 DEF Reached, IsMap
<1>10. QED
    BY <1>7, <1>8, <1>9 DEF map

\* What merging changes with one sort key makes of the leaves.
LEMMA MergedOnce ==
  ASSUME NEW acc, IsMap(acc), NEW ds, ds \subseteq Change,
         \A d, e \in ds : d.diff = e.diff,
         \A d, e \in ds : d.path = e.path /\ d.diff = 1 => d = e
  PROVE  /\ IsMap(MergePaths(acc, ds))
         /\ \A p \in Paths : (\A d \in ds : d.path # p) => Leaf(MergePaths(acc, ds), p) = Leaf(acc, p)
         /\ \A d \in ds : Leaf(MergePaths(acc, ds), d.path) = IF d.diff = 1 THEN d.v ELSE NoLeaf
<1> DEFINE map == WithLevels(acc, ds)
           reached == {d \in ds : Reached(map, d.path)}
           inserted == {d \in reached : d.diff > 0 \/ Len(d.path) = 1}
           less == Dissoc(map, reached \ inserted)
           more == Assoc(less, inserted)
<1>1. MergePaths(acc, ds) = more
    BY DEF MergePaths
<1>2. IsMap(map) /\ (\A p \in Paths : Leaf(map, p) = Leaf(acc, p)) /\ \A d \in ds : Reached(map, d.path)
    BY LevelsCreated
<1> HIDE DEF map
<1>3. \A d \in ds : d.path \in Paths /\ d.v \in Leafs /\ (d.diff = 1 \/ d.diff = -1)
    BY DEF Change
<1>4. \A d \in ds : Len(d.path) # 1
    BY <1>3, PathsApart
<1>5. inserted = {d \in ds : d.diff = 1} /\ reached \ inserted = {d \in ds : d.diff = -1}
    BY <1>2, <1>3, <1>4
<1> HIDE DEF reached, inserted
<1>6. DOMAIN less = {m \in DOMAIN map : \A d \in reached \ inserted : ~ IsAbove(d.path, m)}
    BY DEF Dissoc
<1>7. \A n \in DOMAIN less : less[n] = map[n]
    BY DEF Dissoc
<1>8. less = [n \in DOMAIN less |-> less[n]]
    BY DEF Dissoc
<1> HIDE DEF less
<1>9. IsMap(less)
    BY <1>2, <1>6, <1>7, <1>8 DEF IsMap
<1>10. ASSUME NEW p \in Paths PROVE p \in DOMAIN less <=> p \in DOMAIN map /\ ~ \E d \in ds : d.diff = -1 /\ d.path = p
  <2>1. \A d \in reached \ inserted : IsAbove(d.path, p) <=> d.path = p
      BY <1>3, <1>5, PathsApart
  <2>2. QED
      BY <1>5, <1>6, <2>1
<1>11. DOMAIN more = DOMAIN less \cup {d.path : d \in inserted}
    BY DEF Assoc
<1>12. \A n \in DOMAIN more : more[n] = IF \E d \in inserted : d.path = n
                                         THEN (CHOOSE d \in inserted : d.path = n).v ELSE less[n]
    BY DEF Assoc
<1>13. more = [n \in DOMAIN more |-> more[n]]
    BY DEF Assoc
<1> HIDE DEF more
<1>14. ASSUME NEW d \in inserted PROVE d.path \in DOMAIN more /\ more[d.path] = d.v
  <2>1. d.path \in DOMAIN more
      BY <1>11
  <2>2. (CHOOSE x \in inserted : x.path = d.path) = d
      BY <1>5
  <2>3. QED
      BY <1>12, <2>1, <2>2
<1>15. ASSUME NEW n, \A d \in inserted : d.path # n
       PROVE  (n \in DOMAIN more <=> n \in DOMAIN less) /\ (n \in DOMAIN less => more[n] = less[n])
    BY <1>11, <1>12, <1>15
<1>16. IsMap(more)
  <2>1. DOMAIN more \subseteq Nodes
      BY <1>3, <1>5, <1>9, <1>11, LevelNodes DEF IsMap
  <2>2. ASSUME NEW n \in DOMAIN more
        PROVE  (n \in Paths => more[n] \in Leafs) /\ (n \notin Paths => more[n] = Obj)
    <3>1. CASE \E d \in inserted : d.path = n
        BY <1>3, <1>5, <1>14, <3>1
    <3>2. CASE \A d \in inserted : d.path # n
        BY <1>9, <1>15, <3>2 DEF IsMap
    <3>3. QED
        BY <3>1, <3>2
  <2>3. QED
      BY <1>13, <2>1, <2>2 DEF IsMap
<1>17. ASSUME NEW p \in Paths, \A d \in ds : d.path # p PROVE Leaf(more, p) = Leaf(acc, p)
  <2>1. \A d \in inserted : d.path # p
      BY <1>5, <1>17
  <2>2. p \in DOMAIN more <=> p \in DOMAIN map
      BY <1>10, <1>15, <1>17, <2>1
  <2>3. p \in DOMAIN map => more[p] = map[p]
      BY <1>7, <1>10, <1>15, <1>17, <2>1
  <2>4. Leaf(more, p) = Leaf(map, p)
      BY <2>2, <2>3 DEF Leaf
  <2>5. QED
      BY <1>2, <2>4
<1>18. ASSUME NEW d \in ds PROVE Leaf(more, d.path) = IF d.diff = 1 THEN d.v ELSE NoLeaf
  <2>1. CASE d.diff = 1
      BY <1>5, <1>14, <2>1 DEF Leaf
  <2>2. CASE d.diff = -1
    <3>1. \A x \in inserted : x.path # d.path
        BY <1>5, <2>2
    <3>2. d.path \notin DOMAIN less
        BY <1>3, <1>10, <2>2
    <3>3. QED
        BY <1>15, <2>2, <3>1, <3>2 DEF Leaf
  <2>3. QED
      BY <1>3, <2>1, <2>2
<1>19. QED
    BY <1>1, <1>16, <1>17, <1>18

-----------------------------------------------------------------------------
\* The changes with one sort key, and the map after those with smaller ones.
Keyed(ds, k) == {d \in ds : SortKey(d) = k}

MergeSteps(f, acc, ds, n) ==
  f[0] = acc /\ \A k \in 1 .. n : f[k] = MergePaths(f[k - 1], Keyed(ds, k - 1))

\* There are as many steps as there are keys.
LEMMA StepsExist ==
  ASSUME NEW acc, NEW ds, NEW n \in Nat
  PROVE  \E f : DOMAIN f = 0 .. n /\ f = [k \in 0 .. n |-> f[k]] /\ MergeSteps(f, acc, ds, n)
<1> DEFINE Steps(m) == \E f : DOMAIN f = 0 .. m /\ f = [k \in 0 .. m |-> f[k]] /\ MergeSteps(f, acc, ds, m)
           Bad == {m \in 0 .. n : ~ Steps(m)}
<1>1. ASSUME NEW m \in Bad, \A k \in Bad : m <= k PROVE FALSE
  <2>1. m \in 0 .. n /\ m \in Nat /\ ~ Steps(m)
      OBVIOUS
  <2>2. CASE m = 0
    <3> DEFINE f == [k \in 0 .. m |-> acc]
    <3>1. DOMAIN f = 0 .. m /\ f = [k \in 0 .. m |-> f[k]] /\ MergeSteps(f, acc, ds, m)
        BY <2>2 DEF MergeSteps
    <3>2. QED
        BY <2>1, <3>1
  <2>3. CASE m # 0
    <3>1. m - 1 \in 0 .. n
        BY <2>1, <2>3
    <3> HIDE DEF Bad
    <3>2. m - 1 \notin Bad
        BY <1>1, <2>1
    <3> USE DEF Bad
    <3>3. PICK f : DOMAIN f = 0 .. (m - 1) /\ MergeSteps(f, acc, ds, m - 1)
        BY <3>1, <3>2
    <3> DEFINE g == [k \in 0 .. m |-> IF k = m THEN MergePaths(f[m - 1], Keyed(ds, m - 1)) ELSE f[k]]
    <3>4. DOMAIN g = 0 .. m /\ g = [k \in 0 .. m |-> g[k]]
        OBVIOUS
    <3>5. g[0] = acc
        BY <2>1, <2>3, <3>3 DEF MergeSteps
    <3>6. ASSUME NEW k \in 1 .. m PROVE g[k] = MergePaths(g[k - 1], Keyed(ds, k - 1))
      <4>1. k - 1 \in 0 .. m /\ k \in 0 .. m /\ k - 1 # m /\ g[k - 1] = f[k - 1]
          BY <2>1
      <4>2. CASE k = m
          BY <4>1, <4>2
      <4>3. CASE k # m
        <5>1. k \in 1 .. m - 1 /\ g[k] = f[k]
            BY <2>1, <4>1, <4>3
        <5>2. f[k] = MergePaths(f[k - 1], Keyed(ds, k - 1))
            BY <3>3, <5>1 DEF MergeSteps
        <5>3. QED
            BY <4>1, <5>1, <5>2
      <4>4. QED
          BY <4>2, <4>3
    <3>7. MergeSteps(g, acc, ds, m)
        BY <3>5, <3>6 DEF MergeSteps
    <3>8. QED
        BY <2>1, <3>4, <3>7
  <2>4. QED
      BY <2>2, <2>3
<1>2. Bad \subseteq Nat
    OBVIOUS
<1> HIDE DEF Bad
<1>3. Bad = {}
    BY <1>1, <1>2, LeastNumber
<1> USE DEF Bad
<1>4. Steps(n)
    BY <1>3
<1>5. QED
    BY <1>4

\* Merged takes these steps.
LEMMA MergedInSteps ==
  ASSUME NEW acc, NEW ds
  PROVE  \E f : /\ MergeSteps(f, acc, ds, 2 * MaxPathTime + 2)
                /\ Merged(acc, ds) = f[2 * MaxPathTime + 2]
<1> DEFINE N == 2 * MaxPathTime + 2
           F(g) == [k \in 0 .. N |-> IF k = 0 THEN acc
                                     ELSE MergePaths(g[k - 1], {d \in ds : SortKey(d) = k - 1})]
           merged == CHOOSE g : g = F(g)
<1>1. N \in Nat
    BY AssocAssumption
<1>2. Merged(acc, ds) = merged[N]
    BY DEF Merged
<1>3. \E g : g = F(g)
  <2> HIDE DEF N
  <2>1. PICK g : DOMAIN g = 0 .. N /\ g = [k \in 0 .. N |-> g[k]] /\ MergeSteps(g, acc, ds, N)
      BY <1>1, StepsExist
  <2>2. ASSUME NEW k \in 0 .. N
        PROVE  g[k] = IF k = 0 THEN acc ELSE MergePaths(g[k - 1], {d \in ds : SortKey(d) = k - 1})
    <3>1. CASE k = 0
        BY <2>1, <3>1 DEF MergeSteps
    <3>2. CASE k # 0
      <4>1. k \in 1 .. N
          BY <3>2
      <4>2. QED
          BY <2>1, <3>2, <4>1 DEF MergeSteps, Keyed
    <3>3. QED
        BY <3>1, <3>2
  <2>3. g = F(g)
      BY <2>1, <2>2
  <2>4. QED
      BY <2>3
<1>4. merged = F(merged)
    BY <1>3
<1> HIDE DEF merged
<1>5. \A k \in 0 .. N : merged[k] = IF k = 0 THEN acc ELSE MergePaths(merged[k - 1], Keyed(ds, k - 1))
    BY <1>4 DEF Keyed
<1> HIDE DEF N, F
<1>6. MergeSteps(merged, acc, ds, N)
    BY <1>1, <1>5 DEF MergeSteps
<1>7. QED
    BY <1>2, <1>6 DEF N

-----------------------------------------------------------------------------
\* The changes of one time are merged.
MergeTime(acc, ds, s) == MergePaths(MergePaths(acc, Keyed(ds, 2 * s)), Keyed(ds, 2 * s + 1))

\* The changes of a history that matter: every value that goes, and for every
\* path and time one of the values that come.
IsSettled(h, c, e, ss) ==
  /\ ss \subseteq Between(h, c, e)
  /\ \A d, x \in ss : d.path = x.path /\ d.t = x.t /\ d.diff = 1 /\ x.diff = 1 => d = x
  /\ \A p \in Paths : \A s \in 0 .. MaxPathTime :
       c <= s /\ s < e =>
         /\ Gone(h, p, s) # {} => \E d \in ss : d.path = p /\ d.t = s /\ d.diff = -1
         /\ Added(h, p, s) # {} => \E d \in ss : d.path = p /\ d.t = s /\ d.diff = 1

\* Whatever the order of arrival, what is merged is settled.
LEMMA SettledIsSettled ==
  ASSUME NEW h \in Histories, NEW c \in Nat, NEW e \in Nat, NEW last \in LastAdded(Between(h, c, e))
  PROVE  IsSettled(h, c, e, Settled(Between(h, c, e), last))
<1> DEFINE ds == Between(h, c, e)
           ss == Settled(ds, last)
<1>1. ds \subseteq Change /\ \A d \in ds : d.diff = 1 \/ d.diff = -1
    BY DEF Between, Change
<1>2. Additions(ds) = {d \in ds : d.diff = 1}
    BY <1>1 DEF Additions
<1> HIDE DEF ds
<1>3. /\ last \subseteq Additions(ds)
      /\ \A d \in Additions(ds) : \E l \in last :
           /\ l.path = d.path /\ l.t = d.t
           /\ \A k \in last : k.path = d.path /\ k.t = d.t => k = l
    BY DEF LastAdded, ds
<1>4. /\ ss \subseteq ds /\ (\A d \in ss : d.diff = 1 <=> d \in last)
      /\ \A d \in ds : d.diff = -1 => d \in ss
    BY <1>1, <1>2, <1>3 DEF Settled
<1>5. last \subseteq ss
    BY DEF Settled
<1> HIDE DEF ss
<1>6. ASSUME NEW d \in ss, NEW x \in ss, d.path = x.path, d.t = x.t, d.diff = 1, x.diff = 1
      PROVE  d = x
    BY <1>2, <1>3, <1>4, <1>6
<1>7. ASSUME NEW p \in Paths, NEW s \in 0 .. MaxPathTime, c <= s, s < e, Gone(h, p, s) # {}
      PROVE  \E d \in ss : d.path = p /\ d.t = s /\ d.diff = -1
  <2>1. PICK v : v \in Gone(h, p, s)
      BY <1>7
  <2>2. v \in Leafs
      BY <2>1, AssocAssumption DEF Gone, Histories
  <2> DEFINE d == [path |-> p, v |-> v, t |-> s, diff |-> -1]
  <2>3. d \in Change /\ d.path = p /\ d.v = v /\ d.t = s /\ d.diff = -1 /\ -1 # 1
      BY <2>2 DEF Change
  <2> HIDE DEF d
  <2>4. d \in ds
      BY <1>7, <2>1, <2>3 DEF Between, ds
  <2>5. QED
      BY <1>4, <2>3, <2>4
<1>8. ASSUME NEW p \in Paths, NEW s \in 0 .. MaxPathTime, c <= s, s < e, Added(h, p, s) # {}
      PROVE  \E d \in ss : d.path = p /\ d.t = s /\ d.diff = 1
  <2>1. PICK v : v \in Added(h, p, s)
      BY <1>8
  <2>2. v \in Leafs
      BY <2>1, AssocAssumption DEF Added, Histories
  <2> DEFINE d == [path |-> p, v |-> v, t |-> s, diff |-> 1]
  <2>3. d \in Change /\ d.path = p /\ d.v = v /\ d.t = s /\ d.diff = 1
      BY <2>2 DEF Change
  <2> HIDE DEF d
  <2>4. d \in Additions(ds)
      BY <1>2, <1>8, <2>1, <2>3 DEF Between, ds
  <2>5. QED
      BY <1>3, <1>4, <1>5, <2>3, <2>4
<1>9. IsSettled(h, c, e, ss)
    BY <1>4, <1>6, <1>7, <1>8 DEF IsSettled, ds
<1>10. QED
    BY <1>9 DEF ss, ds

\* After the changes of time s every path shows values of the time after it,
\* and those without a change show what they showed.
MovesOn(h, c, e, s, ss, acc, map) ==
  /\ IsMap(map)
  /\ \A p \in Paths : c <= s /\ s < e /\ Leaf(acc, p) \in Shown(p, h[p][s])
                        => Leaf(map, p) \in Shown(p, h[p][s + 1])
  /\ \A p \in Paths : ~ (c <= s /\ s < e) \/ (\A d \in ss : d.path # p)
                        => Leaf(map, p) = Leaf(acc, p)

\* Merging the changes of one time moves every path on.
LEMMA MergedTime ==
  ASSUME NEW h \in Histories, NEW c \in Nat, NEW e \in Nat, NEW ss, IsSettled(h, c, e, ss),
         NEW acc, IsMap(acc), NEW s \in 0 .. MaxPathTime
  PROVE  MovesOn(h, c, e, s, ss, acc, MergeTime(acc, ss, s))
<1> DEFINE out == Keyed(ss, 2 * s)
           in == Keyed(ss, 2 * s + 1)
           map == MergeTime(acc, ss, s)
           half == MergePaths(acc, out)
<1>1. /\ ss \subseteq Change
      /\ \A d \in ss : /\ d.t \in Int /\ (d.diff = 1 \/ d.diff = -1) /\ d.path \in Paths
                       /\ c <= d.t /\ d.t < e
                       /\ d.v \in IF d.diff = 1 THEN Added(h, d.path, d.t) ELSE Gone(h, d.path, d.t)
    BY AssocAssumption DEF IsSettled, Between, Change
<1>2. out = {d \in ss : d.t = s /\ d.diff = -1} /\ in = {d \in ss : d.t = s /\ d.diff = 1}
  <2>1. s \in Int
      BY AssocAssumption
  <2>2. ASSUME NEW d \in ss
        PROVE  /\ SortKey(d) = 2 * s <=> d.t = s /\ d.diff = -1
               /\ SortKey(d) = 2 * s + 1 <=> d.t = s /\ d.diff = 1
      BY <1>1, <2>1 DEF SortKey
  <2>3. QED
      BY <2>2 DEF Keyed
<1> HIDE DEF out, in
<1>3. ASSUME NEW p \in Paths, c <= s, s < e
      PROVE  /\ Gone(h, p, s) # {} => \E d \in out : d.path = p
             /\ Added(h, p, s) # {} => \E d \in in : d.path = p
    BY <1>2, <1>3 DEF IsSettled
<1>4. out \subseteq Change /\ in \subseteq Change
    BY <1>1, <1>2
<1>5. (\A d \in out : d.diff = -1) /\ (\A d \in in : d.diff = 1) /\ -1 # 1
    BY <1>2
<1>6. \A d, x \in in : d.path = x.path => d = x
    BY <1>2 DEF IsSettled
<1>7. \A d \in in : c <= s /\ s < e /\ d.path \in Paths /\ d.v \in Added(h, d.path, s)
    BY <1>1, <1>2
<1>8. \A d \in out : c <= s /\ s < e /\ d.path \in Paths /\ d.v \in Gone(h, d.path, s)
  <2>1. ASSUME NEW d \in out PROVE d \in ss /\ d.t = s /\ d.diff = -1 /\ d.diff # 1
      BY <1>2
  <2>2. QED
      BY <1>1, <2>1
<1>9. /\ IsMap(half)
      /\ \A p \in Paths : (\A d \in out : d.path # p) => Leaf(half, p) = Leaf(acc, p)
      /\ \A d \in out : Leaf(half, d.path) = IF d.diff = 1 THEN d.v ELSE NoLeaf
    BY <1>4, <1>5, MergedOnce
<1> HIDE DEF half
<1>10. /\ IsMap(map)
       /\ \A p \in Paths : (\A d \in in : d.path # p) => Leaf(map, p) = Leaf(half, p)
       /\ \A d \in in : Leaf(map, d.path) = IF d.diff = 1 THEN d.v ELSE NoLeaf
  <2>1. map = MergePaths(half, in)
      BY DEF MergeTime, half, out, in
  <2>2. QED
      BY <1>4, <1>5, <1>6, <1>9, <2>1, MergedOnce
<1> HIDE DEF map
<1>11. ASSUME NEW p \in Paths, c <= s, s < e, Leaf(acc, p) \in Shown(p, h[p][s])
       PROVE  Leaf(map, p) \in Shown(p, h[p][s + 1])
  <2>1. CASE \E d \in in : d.path = p
    <3>1. PICK d \in in : d.path = p
        BY <2>1
    <3>2. Leaf(map, p) = d.v /\ d.v \in h[p][s + 1]
        BY <1>5, <1>7, <1>10, <3>1 DEF Added
    <3>3. QED
        BY <3>2 DEF Shown
  <2>2. CASE (\A d \in in : d.path # p) /\ \E d \in out : d.path = p
    <3>1. PICK d \in out : d.path = p
        BY <2>2
    <3>2. Leaf(map, p) = NoLeaf /\ d.v \in h[p][s] /\ d.v \notin h[p][s + 1]
        BY <1>5, <1>8, <1>9, <1>10, <2>2, <3>1 DEF Gone
    <3>3. h[p][s + 1] \subseteq h[p][s]
        BY <1>3, <1>11, <2>2 DEF Added
    <3>4. CASE p \in Many
        BY <3>2, <3>4 DEF Shown
    <3>5. CASE p \notin Many
      <4>1. \A v, w \in h[p][s] : v = w
        <5>1. s \in 0 .. MaxPathTime + 1
            BY AssocAssumption
        <5>2. QED
            BY <3>5, <5>1 DEF Histories
      <4>2. h[p][s + 1] = {}
          BY <3>2, <3>3, <4>1
      <4>3. QED
          BY <3>2, <3>5, <4>2 DEF Shown
    <3>6. QED
        BY <3>4, <3>5
  <2>3. CASE (\A d \in in : d.path # p) /\ \A d \in out : d.path # p
    <3>1. Leaf(map, p) = Leaf(acc, p)
        BY <1>9, <1>10, <2>3
    <3>2. Gone(h, p, s) = {} /\ Added(h, p, s) = {}
        BY <1>3, <1>11, <2>3
    <3>3. h[p][s + 1] = h[p][s]
        BY <3>2, Zenon DEF Gone, Added
    <3>4. QED
        BY <1>11, <3>1, <3>3
  <2>4. QED
      BY <2>1, <2>2, <2>3
<1>12. ASSUME NEW p \in Paths, ~ (c <= s /\ s < e) \/ (\A d \in ss : d.path # p)
       PROVE  Leaf(map, p) = Leaf(acc, p)
  <2>1. (\A d \in out : d.path # p) /\ (\A d \in in : d.path # p)
      BY <1>2, <1>7, <1>8, <1>12
  <2>2. QED
      BY <1>9, <1>10, <2>1
<1>13. MovesOn(h, c, e, s, ss, acc, map)
    BY <1>10, <1>11, <1>12 DEF MovesOn
<1>14. QED
    BY <1>13 DEF map

\* A map that shows the values of time e, where only paths with a change differ.
MovesTo(h, e, ss, acc, map) ==
  /\ IsMap(map)
  /\ \A p \in Paths : Leaf(map, p) \in Shown(p, h[p][e])
  /\ \A p \in Paths : (\A d \in ss : d.path # p) => Leaf(map, p) = Leaf(acc, p)

\* The time within c .. e that is closest to t.
Closest(c, e, t) == IF t <= c THEN c ELSE IF t < e THEN t ELSE e

LEMMA ClosestTime ==
  ASSUME NEW c \in Nat, NEW e \in Nat, c < e, NEW s \in Nat
  PROVE  /\ Closest(c, e, 0) = c
         /\ e <= s => Closest(c, e, s) = e
         /\ c <= s /\ s < e => Closest(c, e, s) = s /\ Closest(c, e, s + 1) = s + 1
         /\ ~ (c <= s /\ s < e) => Closest(c, e, s + 1) = Closest(c, e, s)
    BY DEF Closest

\* The changes of time s lead from the values of one time to those of the next.
LEMMA MovesOneTime ==
  ASSUME NEW h, NEW c \in Nat, NEW e \in Nat, c < e, NEW s \in Nat, NEW ss, NEW acc, NEW old, NEW map,
         MovesTo(h, Closest(c, e, s), ss, acc, old), MovesOn(h, c, e, s, ss, old, map)
  PROVE  MovesTo(h, Closest(c, e, s + 1), ss, acc, map)
<1>1. ASSUME NEW p \in Paths PROVE Leaf(map, p) \in Shown(p, h[p][Closest(c, e, s + 1)])
  <2>1. Leaf(old, p) \in Shown(p, h[p][Closest(c, e, s)])
      BY DEF MovesTo
  <2>2. CASE c <= s /\ s < e
    <3>1. Closest(c, e, s) = s /\ Closest(c, e, s + 1) = s + 1
        BY <2>2, ClosestTime
    <3>2. QED
        BY <2>1, <2>2, <3>1 DEF MovesOn
  <2>3. CASE ~ (c <= s /\ s < e)
    <3>1. Closest(c, e, s + 1) = Closest(c, e, s)
        BY <2>3, ClosestTime
    <3>2. Leaf(map, p) = Leaf(old, p)
        BY <2>3 DEF MovesOn
    <3>3. QED
        BY <2>1, <3>1, <3>2
  <2>4. QED
      BY <2>2, <2>3
<1>2. ASSUME NEW p \in Paths, \A d \in ss : d.path # p PROVE Leaf(map, p) = Leaf(acc, p)
    BY <1>2 DEF MovesTo, MovesOn
<1>3. IsMap(map)
    BY DEF MovesOn
<1>4. QED
    BY <1>1, <1>2, <1>3 DEF MovesTo

\* Two steps of merging are the changes of one time.
LEMMA StepsOfTime ==
  ASSUME NEW f, NEW acc, NEW ss, NEW n \in Nat, MergeSteps(f, acc, ss, 2 * n + 2), NEW s \in 0 .. n
  PROVE  f[2 * (s + 1)] = MergeTime(f[2 * s], ss, s)
<1>1. 2 * s + 1 \in 1 .. 2 * n + 2 /\ 2 * s + 2 \in 1 .. 2 * n + 2
    OBVIOUS
<1>2. (2 * s + 1) - 1 = 2 * s /\ (2 * s + 2) - 1 = 2 * s + 1 /\ 2 * (s + 1) = 2 * s + 2
    OBVIOUS
<1>3. f[2 * s + 1] = MergePaths(f[2 * s], Keyed(ss, 2 * s))
    BY <1>1, <1>2 DEF MergeSteps
<1>4. f[2 * s + 2] = MergePaths(f[2 * s + 1], Keyed(ss, 2 * s + 1))
    BY <1>1, <1>2 DEF MergeSteps
<1>5. QED
    BY <1>2, <1>3, <1>4 DEF MergeTime

\* The map shows the rows of a history at time c.
ShowsAt(m, h, c) == \A p \in Paths : Leaf(m, p) \in Shown(p, h[p][c])

\* Merging what changed from one time to another leads to the values of the
\* later time, and changes no other leaf.
LEMMA MergedBetween ==
  ASSUME NEW h \in Histories, NEW c \in Nat, NEW e \in Nat, c < e, e <= MaxPathTime + 1,
         NEW ss, IsSettled(h, c, e, ss),
         NEW acc, IsMap(acc), ShowsAt(acc, h, c)
  PROVE  MovesTo(h, e, ss, acc, Merged(acc, ss))
<1> USE DEF ShowsAt
<1>1. MaxPathTime \in Nat
    BY AssocAssumption
<1>2. PICK f : MergeSteps(f, acc, ss, 2 * MaxPathTime + 2) /\ Merged(acc, ss) = f[2 * MaxPathTime + 2]
    BY MergedInSteps
<1> DEFINE good == {t \in Nat : MovesTo(h, Closest(c, e, t), ss, acc, f[2 * t])}
<1>3. 0 \in good
  <2>1. Closest(c, e, 0) = c
      BY ClosestTime
  <2>2. f[0] = acc
      BY <1>2 DEF MergeSteps
  <2>3. MovesTo(h, Closest(c, e, 0), ss, acc, f[0])
      BY <2>1, <2>2 DEF MovesTo
  <2>4. 2 * 0 = 0
      OBVIOUS
  <2>5. QED
      BY <2>3, <2>4
<1>4. ASSUME NEW s \in 0 .. MaxPathTime, s \in good PROVE s + 1 \in good
  <2>1. s \in Nat /\ s + 1 \in Nat
      BY <1>1
  <2>2. MovesTo(h, Closest(c, e, s), ss, acc, f[2 * s])
      BY <1>4
  <2> HIDE DEF good
  <2>3. IsMap(f[2 * s])
      BY <2>2 DEF MovesTo
  <2>4. MovesOn(h, c, e, s, ss, f[2 * s], MergeTime(f[2 * s], ss, s))
      BY <2>3, MergedTime
  <2>5. MovesTo(h, Closest(c, e, s + 1), ss, acc, MergeTime(f[2 * s], ss, s))
      BY <2>1, <2>2, <2>4, MovesOneTime
  <2>6. f[2 * (s + 1)] = MergeTime(f[2 * s], ss, s)
      BY <1>1, <1>2, StepsOfTime
  <2>7. MovesTo(h, Closest(c, e, s + 1), ss, acc, f[2 * (s + 1)])
      BY <2>5, <2>6, Zenon
  <2>8. QED
      BY <2>1, <2>7 DEF good
<1> HIDE DEF good
<1>5. MaxPathTime + 1 \in good
    BY <1>1, <1>3, <1>4, CountUp
<1>6. Closest(c, e, MaxPathTime + 1) = e /\ 2 * (MaxPathTime + 1) = 2 * MaxPathTime + 2
    BY <1>1, ClosestTime
<1>7. QED
    BY <1>2, <1>5, <1>6 DEF good

\* Different sets differ in an element.
LEMMA SetsDiffer ==
  ASSUME NEW A, NEW B, A # B
  PROVE  \E v : ~ (v \in A <=> v \in B)
    OBVIOUS

\* A path of which there is no change keeps its values.
LEMMA NoChangeBetween ==
  ASSUME NEW h \in Histories, NEW c \in Nat, NEW e \in Nat, c <= e, e <= MaxPathTime + 1,
         NEW p \in Paths, \A d \in Between(h, c, e) : d.path # p
  PROVE  h[p][c] = h[p][e]
<1> DEFINE Bad == {t \in c .. e : h[p][t] # h[p][c]}
<1>1. MaxPathTime \in Nat
    BY AssocAssumption
<1>2. ASSUME NEW m \in Bad, \A k \in Bad : m <= k PROVE FALSE
  <2>1. m \in c .. e /\ m # c /\ h[p][m] # h[p][c]
      OBVIOUS
  <2>2. PICK s \in 0 .. MaxPathTime : s = m - 1 /\ m = s + 1 /\ c <= s /\ s < e
      BY <1>1, <2>1
  <2>3. s \in c .. e /\ ~ (m <= s)
      BY <2>2
  <2>4. h[p][s] = h[p][c]
      BY <1>2, <2>3
  <2>5. h[p][s] \subseteq Leafs /\ h[p][s + 1] \subseteq Leafs
      BY <1>1, <2>2 DEF Histories
  <2>6. Gone(h, p, s) # {} \/ Added(h, p, s) # {}
    <3>1. h[p][s + 1] # h[p][s]
        BY <2>1, <2>2, <2>4
    <3>2. PICK v : ~ (v \in h[p][s + 1] <=> v \in h[p][s])
        BY <3>1, SetsDiffer
    <3>3. CASE v \in h[p][s + 1] /\ v \notin h[p][s]
        BY <3>3 DEF Added
    <3>4. CASE v \notin h[p][s + 1] /\ v \in h[p][s]
        BY <3>4 DEF Gone
    <3>5. QED
        BY <3>2, <3>3, <3>4
  <2>7. ASSUME NEW v \in Gone(h, p, s) PROVE FALSE
    <3> DEFINE d == [path |-> p, v |-> v, t |-> s, diff |-> -1]
    <3>1. v \in Leafs
        BY <2>5 DEF Gone
    <3>2. d \in Change
        BY <3>1, <2>2, SMTT(30) DEF Change
    <3>3. d.path = p /\ d.v = v /\ d.t = s /\ d.diff = -1 /\ -1 # 1
        OBVIOUS
    <3> HIDE DEF d
    <3>4. d \in Between(h, c, e)
        BY <2>2, <3>2, <3>3 DEF Between
    <3>5. QED
        BY <3>3, <3>4
  <2>8. ASSUME NEW v \in Added(h, p, s) PROVE FALSE
    <3> DEFINE d == [path |-> p, v |-> v, t |-> s, diff |-> 1]
    <3>1. v \in Leafs
        BY <2>5 DEF Added
    <3>2. d \in Change
        BY <3>1 DEF Change
    <3>3. d.path = p /\ d.v = v /\ d.t = s /\ d.diff = 1
        OBVIOUS
    <3> HIDE DEF d
    <3>4. d \in Between(h, c, e)
        BY <2>2, <3>2, <3>3 DEF Between
    <3>5. QED
        BY <3>3, <3>4
  <2>9. QED
      BY <2>6, <2>7, <2>8
<1>3. Bad \subseteq Nat
    OBVIOUS
<1> HIDE DEF Bad
<1>4. Bad = {}
    BY <1>2, <1>3, LeastNumber
<1> USE DEF Bad
<1>5. QED
    BY <1>4

-----------------------------------------------------------------------------
\* What changed up to a time depends on the values up to that time only.
LEMMA BetweenSame ==
  ASSUME NEW h \in Histories, NEW g \in Histories, NEW c \in Int, NEW e \in Int,
         \A p \in Paths : \A t \in 0 .. MaxPathTime + 1 : t <= e => g[p][t] = h[p][t]
  PROVE  Between(g, c, e) = Between(h, c, e)
<1>1. MaxPathTime \in Nat
    BY AssocAssumption
<1>2. ASSUME NEW d \in Change, d.t < e
      PROVE  /\ g[d.path][d.t] = h[d.path][d.t] /\ g[d.path][d.t + 1] = h[d.path][d.t + 1]
  <2>1. d.path \in Paths /\ d.t \in 0 .. MaxPathTime
      BY DEF Change
  <2>2. d.t \in 0 .. MaxPathTime + 1 /\ d.t + 1 \in 0 .. MaxPathTime + 1 /\ d.t <= e /\ d.t + 1 <= e
      BY <1>1, <1>2, <2>1
  <2>3. QED
      BY <2>1, <2>2
<1>3. ASSUME NEW d \in Change PROVE d \in Between(g, c, e) <=> d \in Between(h, c, e)
  <2>1. d.t < e => Added(g, d.path, d.t) = Added(h, d.path, d.t) /\ Gone(g, d.path, d.t) = Gone(h, d.path, d.t)
      BY <1>2 DEF Added, Gone
  <2>2. QED
      BY <2>1 DEF Between
<1>4. QED
    BY <1>3 DEF Between

\* Nothing has changed at first.
LEMMA AssocInvInit ==
  AssocInit => AssocInv
<1> SUFFICES ASSUME AssocInit PROVE AssocInv
    OBVIOUS
<1>1. MaxPathTime \in Nat
    BY AssocAssumption
<1>2. IsMap(Empty) /\ DOMAIN Empty = {}
    BY DEF Empty, IsMap
<1>3. AssocType
    BY <1>1, <1>2 DEF AssocInit, AssocType
<1> DEFINE h == [p \in Paths |-> [t \in 0 .. MaxPathTime + 1 |-> {}]]
<1>4. h \in Histories
    BY DEF Histories
<1>5. \A p \in Paths : \A t \in 0 .. MaxPathTime + 1 : h[p][t] = {}
    OBVIOUS
<1> HIDE DEF h
<1>6. Between(h, 0, 1) = {}
  <2>1. ASSUME NEW d \in Change PROVE Added(h, d.path, d.t) = {} /\ Gone(h, d.path, d.t) = {}
    <3>1. d.path \in Paths /\ d.t \in 0 .. MaxPathTime + 1 /\ d.t + 1 \in 0 .. MaxPathTime + 1
        BY <1>1 DEF Change
    <3>2. QED
        BY <1>5, <3>1 DEF Added, Gone
  <2>2. QED
      BY <2>1 DEF Between
<1>7. Explained(h)
  <2>1. \A p \in Paths : \A t \in now + 1 .. MaxPathTime + 1 : h[p][t] = rows[p]
    <3>1. now = 0 /\ \A p \in Paths : rows[p] = {}
        BY DEF AssocInit
    <3>2. \A t \in now + 1 .. MaxPathTime + 1 : t \in 0 .. MaxPathTime + 1
        BY <1>1, <3>1
    <3>3. QED
        BY <1>5, <3>1, <3>2
  <2>2. diffs = Between(h, cap, now + 1)
      BY <1>6 DEF AssocInit
  <2>3. \A p \in Paths : Leaf(states, p) \in Shown(p, h[p][0])
      BY <1>1, <1>2, <1>5 DEF AssocInit, Leaf, Shown
  <2>4. QED
      BY <1>2, <2>1, <2>2, <2>3 DEF AssocInit, Explained
<1>8. QED
    BY <1>3, <1>4, <1>7 DEF AssocInv

\* A changed row makes for a new value from now on.
LEMMA ChangeRowStep ==
  ASSUME AssocInv, NEW p \in Paths, NEW vs \in SUBSET Leafs, ChangeRow(p, vs)
  PROVE  AssocInv'
<1>1. PICK h \in Histories : Explained(h)
    BY DEF AssocInv
<1>2. /\ MaxPathTime \in Nat /\ now \in 0 .. MaxPathTime /\ cap \in 0 .. now /\ DOMAIN paths \subseteq 0 .. cap - 1
      /\ rows \in [Paths -> SUBSET Leafs]
    BY AssocAssumption DEF AssocInv, AssocType
<1>3. AssocType'
    BY DEF AssocInv, AssocType, ChangeRow
<1>4. PICK g : g = [q \in Paths |-> [t \in 0 .. MaxPathTime + 1 |-> IF q = p /\ t > now THEN vs ELSE h[q][t]]]
    OBVIOUS
<1>5. \A q \in Paths : \A t \in 0 .. MaxPathTime + 1 : g[q][t] = IF q = p /\ t > now THEN vs ELSE h[q][t]
    BY <1>4
<1>6. g \in Histories
  <2>1. g \in [Paths -> [0 .. MaxPathTime + 1 -> SUBSET Leafs]]
    <3>1. h \in [Paths -> [0 .. MaxPathTime + 1 -> SUBSET Leafs]]
        BY DEF Histories
    <3>2. QED
        BY <1>4, <3>1
  <2>2. ASSUME NEW q \in Paths \ Many, NEW t \in 0 .. MaxPathTime + 1, NEW v \in g[q][t], NEW w \in g[q][t]
        PROVE  v = w
    <3>1. q = p => \A x, y \in vs : x = y
        BY DEF ChangeRow
    <3>2. \A x, y \in h[q][t] : x = y
        BY DEF Histories
    <3>3. QED
        BY <1>5, <3>1, <3>2
  <2>3. QED
      BY <2>1, <2>2 DEF Histories
<1>7. \A t \in now + 1 .. MaxPathTime + 1 : h[p][t] = rows[p]
    BY <1>1 DEF Explained
<1>8. h[p][now] = rows[p] /\ h[p][now + 1] = rows[p]
  <2>1. now \in 0 .. MaxPathTime + 1 /\ now + 1 \in 0 .. MaxPathTime + 1 /\ now + 1 \in now + 1 .. MaxPathTime + 1
      BY <1>2
  <2>2. h[p][now + 1] = rows[p]
      BY <1>7, <2>1
  <2>3. now \in Nat /\ now + 1 \in Nat /\ now <= now + 1 /\ now + 1 <= MaxPathTime + 1
      BY <1>2
  <2>4. ASSUME NEW d \in Between(h, now, now + 1) PROVE d.path # p
    <3>1. d \in Change /\ d.t = now /\ cap <= d.t
        BY <1>2 DEF Between, Change
    <3>2. d \in Between(h, cap, now + 1)
        BY <2>4, <3>1 DEF Between
    <3>3. QED
        BY <1>1, <3>1, <3>2 DEF Explained, ChangeRow
  <2>5. h[p][now] = h[p][now + 1]
      BY <2>3, <2>4, NoChangeBetween
  <2>6. QED
      BY <2>2, <2>5
<1>9. ASSUME NEW q \in Paths, NEW t \in now + 1 .. MaxPathTime + 1 PROVE g[q][t] = rows'[q]
  <2>1. t \in 0 .. MaxPathTime + 1 /\ t > now
      BY <1>2
  <2>2. h[q][t] = rows[q]
      BY <1>1 DEF Explained
  <2>3. rows' = [rows EXCEPT ![p] = vs]
      BY DEF ChangeRow
  <2>4. QED
      BY <1>2, <1>5, <2>1, <2>2, <2>3
<1>10. \A c \in Int, e \in Int : e <= now => Between(g, c, e) = Between(h, c, e)
  <2>1. ASSUME NEW c \in Int, NEW e \in Int, e <= now PROVE Between(g, c, e) = Between(h, c, e)
    <3>1. \A q \in Paths : \A t \in 0 .. MaxPathTime + 1 : t <= e => g[q][t] = h[q][t]
        BY <1>2, <1>5, <2>1
    <3>2. QED
        BY <1>6, <3>1, BetweenSame
  <2>2. QED
      BY <2>1
<1>11. ASSUME NEW d PROVE d \in diffs' <=> d \in Between(g, cap, now + 1)
  <2> DEFINE new == Changed(p, rows[p] \ vs, -1) \cup Changed(p, vs \ rows[p], 1)
  <2>1. diffs' = diffs \cup new
      BY DEF ChangeRow
  <2>2. diffs = Between(h, cap, now + 1)
      BY <1>1 DEF Explained
  <2>3. new \subseteq Change /\ \A x \in new : x.path = p /\ x.t = now
    <3>1. now \in 0 .. MaxPathTime /\ rows[p] \subseteq Leafs /\ vs \subseteq Leafs
        BY <1>2
    <3>2. rows[p] \ vs \subseteq Leafs /\ vs \ rows[p] \subseteq Leafs
        BY <3>1
    <3>3. /\ Changed(p, rows[p] \ vs, -1) \subseteq Change
          /\ \A x \in Changed(p, rows[p] \ vs, -1) : x.path = p /\ x.t = now
        BY <3>1, <3>2, ChangedType
    <3>4. /\ Changed(p, vs \ rows[p], 1) \subseteq Change
          /\ \A x \in Changed(p, vs \ rows[p], 1) : x.path = p /\ x.t = now
        BY <3>1, <3>2, ChangedType
    <3>5. QED
        BY <3>3, <3>4
  <2>4. ASSUME d \in Change, d.path = p, d.t = now
        PROVE  /\ d \in new <=> d.v \in IF d.diff = 1 THEN vs \ rows[p] ELSE rows[p] \ vs
               /\ d \notin diffs
    <3>1. /\ d.diff = 1 \/ d.diff = -1
          /\ d = [path |-> d.path, v |-> d.v, t |-> d.t, diff |-> d.diff]
        BY <2>4 DEF Change
    <3>2. d \in Changed(p, rows[p] \ vs, -1) <=> d.diff = -1 /\ d.v \in rows[p] \ vs
        BY <2>4, <3>1 DEF Changed
    <3>3. d \in Changed(p, vs \ rows[p], 1) <=> d.diff = 1 /\ d.v \in vs \ rows[p]
        BY <2>4, <3>1 DEF Changed
    <3>4. d \notin diffs
        BY <2>4 DEF ChangeRow
    <3>5. QED
        BY <3>1, <3>2, <3>3, <3>4
  <2>5. ASSUME d \in Change, d.path = p, d.t = now
        PROVE  d \in Between(g, cap, now + 1) <=> d.v \in IF d.diff = 1 THEN vs \ rows[p] ELSE rows[p] \ vs
    <3>1. g[p][now] = rows[p] /\ g[p][now + 1] = vs
      <4>1. now \in 0 .. MaxPathTime + 1 /\ now + 1 \in 0 .. MaxPathTime + 1 /\ now + 1 > now /\ ~ (now > now)
          BY <1>2
      <4>2. QED
          BY <1>5, <1>8, <4>1
    <3>2. cap <= now /\ now < now + 1
        BY <1>2
    <3>3. QED
        BY <2>5, <3>1, <3>2 DEF Between, Added, Gone
  <2>6. ASSUME d \in Change, d.path # p \/ d.t # now
        PROVE  /\ d \notin new
               /\ d \in Between(g, cap, now + 1) <=> d \in Between(h, cap, now + 1)
    <3>1. d \notin new
        BY <2>3, <2>6
    <3>2. ASSUME d.t < now + 1
          PROVE  g[d.path][d.t] = h[d.path][d.t] /\ g[d.path][d.t + 1] = h[d.path][d.t + 1]
      <4>1. d.path \in Paths /\ d.t \in 0 .. MaxPathTime
          BY <2>6 DEF Change
      <4>2. d.t \in 0 .. MaxPathTime + 1 /\ d.t + 1 \in 0 .. MaxPathTime + 1 /\ ~ (d.t > now)
          BY <1>2, <3>2, <4>1
      <4>3. d.path # p \/ ~ (d.t + 1 > now)
          BY <1>2, <2>6, <3>2, <4>1
      <4>4. QED
          BY <1>5, <4>1, <4>2, <4>3
    <3>3. d.t < now + 1 => /\ Added(g, d.path, d.t) = Added(h, d.path, d.t)
                           /\ Gone(g, d.path, d.t) = Gone(h, d.path, d.t)
        BY <3>2 DEF Added, Gone
    <3>4. QED
        BY <2>6, <3>1, <3>3 DEF Between
  <2> HIDE DEF new
  <2>7. d \notin Change => d \notin diffs' /\ d \notin Between(g, cap, now + 1)
      BY <2>1, <2>2, <2>3 DEF Between
  <2>8. QED
      BY <2>1, <2>2, <2>4, <2>5, <2>6, <2>7
<1>12. diffs' = Between(g, cap, now + 1)
    BY <1>11
<1>13. UNCHANGED <<now, paths, cap, states>>
    BY DEF ChangeRow
<1>14. ASSUME NEW c \in DOMAIN paths
       PROVE  \E e \in DOMAIN paths \cup {cap} :
                c < e /\ (\A b \in DOMAIN paths : b <= c \/ e <= b) /\ paths[c] = Between(g, c, e)
  <2>1. PICK e \in DOMAIN paths \cup {cap} :
          c < e /\ (\A b \in DOMAIN paths : b <= c \/ e <= b) /\ paths[c] = Between(h, c, e)
      BY <1>1 DEF Explained
  <2>2. c \in Int /\ e \in Int /\ e <= now
      BY <1>2
  <2>3. QED
      BY <1>10, <2>1, <2>2
<1>15. ASSUME NEW l \in DOMAIN paths \cup {cap}, \A b \in DOMAIN paths : l <= b, NEW q \in Paths
       PROVE  Leaf(states, q) \in Shown(q, g[q][l])
  <2>1. Leaf(states, q) \in Shown(q, h[q][l])
      BY <1>1, <1>15 DEF Explained
  <2>2. l \in 0 .. MaxPathTime + 1 /\ ~ (l > now)
      BY <1>2
  <2>3. QED
      BY <1>5, <2>1, <2>2
<1>16. Explained(g)'
    BY <1>9, <1>12, <1>13, <1>14, <1>15 DEF Explained
<1>17. QED
    BY <1>3, <1>6, <1>16 DEF AssocInv

\* As time passes nothing changes.
LEMMA TimePassesStep ==
  ASSUME AssocInv, TimePasses
  PROVE  AssocInv'
<1>1. PICK h \in Histories : Explained(h)
    BY DEF AssocInv
<1>2. /\ MaxPathTime \in Nat /\ now \in 0 .. MaxPathTime /\ cap \in 0 .. now /\ now < MaxPathTime /\ now' = now + 1
    BY AssocAssumption DEF AssocInv, AssocType, TimePasses
<1>3. UNCHANGED <<rows, diffs, paths, cap, states>>
    BY DEF TimePasses
<1>4. AssocType'
    BY <1>2, <1>3 DEF AssocInv, AssocType
<1>5. \A p \in Paths : \A t \in now + 1 .. MaxPathTime + 1 : h[p][t] = rows[p]
    BY <1>1 DEF Explained
<1>6. \A p \in Paths : \A t \in now' + 1 .. MaxPathTime + 1 : h[p][t] = rows[p]
    BY <1>2, <1>5
<1>7. Between(h, cap, now + 1) = Between(h, cap, now' + 1)
  <2>1. ASSUME NEW d \in Change, d.t = now + 1 PROVE Added(h, d.path, d.t) = {} /\ Gone(h, d.path, d.t) = {}
    <3>1. d.path \in Paths /\ d.t \in now + 1 .. MaxPathTime + 1 /\ d.t + 1 \in now + 1 .. MaxPathTime + 1
        BY <1>2, <2>1 DEF Change
    <3>2. QED
        BY <1>5, <3>1 DEF Added, Gone
  <2>2. ASSUME NEW d \in Change PROVE d.t < now' + 1 <=> d.t < now + 1 \/ d.t = now + 1
      BY <1>2 DEF Change
  <2>3. QED
      BY <2>1, <2>2 DEF Between
<1>8. Explained(h)'
    BY <1>1, <1>3, <1>6, <1>7 DEF Explained
<1>9. QED
    BY <1>4, <1>8 DEF AssocInv

\* The changes since the last batch become a batch of their own.
LEMMA ArriveStep ==
  ASSUME AssocInv, Arrive
  PROVE  AssocInv'
<1>1. PICK h \in Histories : Explained(h)
    BY DEF AssocInv
<1>2. /\ MaxPathTime \in Nat /\ now \in 0 .. MaxPathTime /\ cap \in 0 .. now /\ now < MaxPathTime
      /\ now' = now + 1 /\ cap' = now + 1 /\ DOMAIN paths \subseteq 0 .. cap - 1
    BY AssocAssumption DEF AssocInv, AssocType, Arrive
<1>3. UNCHANGED <<rows, states>> /\ diffs' = {}
    BY DEF Arrive
<1>4. /\ DOMAIN paths' = DOMAIN paths \cup {cap} /\ paths'[cap] = diffs
      /\ paths' = [c \in DOMAIN paths' |-> paths'[c]]
    BY DEF Arrive
<1>5. \A c \in DOMAIN paths : paths'[c] = paths[c]
    BY <1>2 DEF Arrive
<1>6. AssocType'
    BY <1>2, <1>3, <1>4 DEF AssocInv, AssocType
<1>7. \A p \in Paths : \A t \in now' + 1 .. MaxPathTime + 1 : h[p][t] = rows'[p]
  <2>1. \A p \in Paths : \A t \in now + 1 .. MaxPathTime + 1 : h[p][t] = rows[p]
      BY <1>1 DEF Explained
  <2>2. now' + 1 .. MaxPathTime + 1 \subseteq now + 1 .. MaxPathTime + 1
      BY <1>2
  <2>3. QED
      BY <1>3, <2>1, <2>2
<1>8. Between(h, cap', now' + 1) = {}
  <2>1. \A p \in Paths : \A t \in now + 1 .. MaxPathTime + 1 : h[p][t] = rows[p]
      BY <1>1 DEF Explained
  <2>2. ASSUME NEW d \in Change, now + 1 <= d.t PROVE Added(h, d.path, d.t) = {} /\ Gone(h, d.path, d.t) = {}
    <3>1. d.path \in Paths /\ d.t \in now + 1 .. MaxPathTime + 1 /\ d.t + 1 \in now + 1 .. MaxPathTime + 1
        BY <1>2, <2>2 DEF Change
    <3>2. QED
        BY <2>1, <3>1 DEF Added, Gone
  <2>3. QED
      BY <1>2, <2>2 DEF Between
<1>9. ASSUME NEW c \in DOMAIN paths'
      PROVE  \E e \in DOMAIN paths' \cup {cap'} :
               c < e /\ (\A b \in DOMAIN paths' : b <= c \/ e <= b) /\ paths'[c] = Between(h, c, e)
  <2>1. CASE c = cap
    <3>1. paths'[c] = Between(h, c, cap')
        BY <1>1, <1>2, <1>4, <2>1 DEF Explained
    <3>2. c < cap' /\ \A b \in DOMAIN paths' : b <= c
        BY <1>2, <1>4, <2>1
    <3>3. QED
        BY <3>1, <3>2
  <2>2. CASE c \in DOMAIN paths
    <3>1. PICK e \in DOMAIN paths \cup {cap} :
            c < e /\ (\A b \in DOMAIN paths : b <= c \/ e <= b) /\ paths[c] = Between(h, c, e)
        BY <1>1, <2>2 DEF Explained
    <3>2. e <= cap
        BY <1>2
    <3>3. QED
        BY <1>4, <1>5, <2>2, <3>1, <3>2
  <2>3. QED
      BY <1>4, <2>1, <2>2
<1>10. ASSUME NEW l \in DOMAIN paths' \cup {cap'}, \A b \in DOMAIN paths' : l <= b, NEW p \in Paths
       PROVE  Leaf(states, p) \in Shown(p, h[p][l])
  <2>1. l <= cap /\ ~ (cap' <= cap)
      BY <1>2, <1>4, <1>10
  <2>2. l \in DOMAIN paths \cup {cap} /\ \A b \in DOMAIN paths : l <= b
      BY <1>4, <1>10, <2>1
  <2>3. QED
      BY <1>1, <2>2 DEF Explained
<1>11. Explained(h)'
    BY <1>3, <1>7, <1>8, <1>9, <1>10 DEF Explained
<1>12. QED
    BY <1>6, <1>11 DEF AssocInv

\* What is forwarded covers every leaf that changes.
LeavesReported ==
  \A p \in Paths : Leaf(states', p) # Leaf(states, p) => Snapshot(states', ChangeKey(p)) \in sent'

\* The earliest batch is merged, and the map moves on to the next one.
LEMMA NotifyStep ==
  ASSUME AssocInv, NEW c \in DOMAIN paths, Notify(c)
  PROVE  AssocInv' /\ LeavesReported
<1>1. PICK h \in Histories : Explained(h)
    BY DEF AssocInv
<1>2. /\ MaxPathTime \in Nat /\ now \in 0 .. MaxPathTime /\ cap \in 0 .. now
      /\ DOMAIN paths \subseteq 0 .. cap - 1 /\ IsMap(states)
    BY AssocAssumption DEF AssocInv, AssocType
<1>3. UNCHANGED <<rows, now, diffs, cap>> /\ \A b \in DOMAIN paths : c <= b
    BY DEF Notify
<1>4. PICK e \in DOMAIN paths \cup {cap} :
        c < e /\ (\A b \in DOMAIN paths : b <= c \/ e <= b) /\ paths[c] = Between(h, c, e)
    BY <1>1 DEF Explained
<1>5. c \in Nat /\ e \in Nat /\ e <= MaxPathTime + 1 /\ c <= e
    BY <1>2, <1>4
<1>6. \A p \in Paths : Leaf(states, p) \in Shown(p, h[p][c])
    BY <1>1, <1>3 DEF Explained
<1>7. PICK last \in LastAdded(Between(h, c, e)) : states' = Merged(states, Settled(Between(h, c, e), last))
    BY <1>4 DEF Notify
<1>8. PICK ss : IsSettled(h, c, e, ss) /\ states' = Merged(states, ss)
    BY <1>5, <1>7, SettledIsSettled
<1>9. MovesTo(h, e, ss, states, states')
  <2>1. IsMap(states) /\ c < e /\ IsSettled(h, c, e, ss)
      BY <1>2, <1>4, <1>8
  <2>2. MovesTo(h, e, ss, states, Merged(states, ss))
    <3>1. ShowsAt(states, h, c)
        BY <1>6 DEF ShowsAt
    <3>2. QED
        BY <1>5, <2>1, <3>1, MergedBetween
  <2>3. QED
      BY <1>8, <2>2
<1>10. /\ DOMAIN paths' = DOMAIN paths \ {c} /\ paths' = [b \in DOMAIN paths' |-> paths'[b]]
       /\ \A b \in DOMAIN paths' : paths'[b] = paths[b]
    BY DEF Notify
<1>11. AssocType'
    BY <1>3, <1>9, <1>10 DEF AssocInv, AssocType, MovesTo
<1>12. ASSUME NEW b \in DOMAIN paths'
       PROVE  \E f \in DOMAIN paths' \cup {cap'} :
                b < f /\ (\A a \in DOMAIN paths' : a <= b \/ f <= a) /\ paths'[b] = Between(h, b, f)
  <2>1. PICK f \in DOMAIN paths \cup {cap} :
          b < f /\ (\A a \in DOMAIN paths : a <= b \/ f <= a) /\ paths[b] = Between(h, b, f)
      BY <1>1, <1>10 DEF Explained
  <2>2. f # c
      BY <1>2, <1>3, <1>5, <1>10, <2>1
  <2>3. QED
      BY <1>3, <1>10, <2>1, <2>2
<1>13. ASSUME NEW l \in DOMAIN paths' \cup {cap'}, \A b \in DOMAIN paths' : l <= b, NEW p \in Paths
       PROVE  Leaf(states', p) \in Shown(p, h[p][l])
  <2>1. e \in DOMAIN paths' \cup {cap} /\ \A b \in DOMAIN paths' : e <= b
      BY <1>2, <1>3, <1>4, <1>5, <1>10
  <2>2. l \in Nat /\ (l = cap \/ l \in DOMAIN paths') /\ \A b \in DOMAIN paths : b <= cap
      BY <1>2, <1>3, <1>10
  <2>3. l <= e
      BY <1>2, <1>13, <2>1, <2>2, <1>3, <1>10
  <2>4. e <= l
      BY <1>2, <1>5, <1>10, <2>1, <2>2, <1>4
  <2>5. l = e
      BY <1>5, <2>2, <2>3, <2>4
  <2>6. QED
      BY <1>9, <2>5 DEF MovesTo
<1>14. Explained(h)'
    BY <1>1, <1>3, <1>12, <1>13 DEF Explained
<1>15. LeavesReported
  <2>1. ASSUME NEW p \in Paths, Leaf(states', p) # Leaf(states, p)
        PROVE  Snapshot(states', ChangeKey(p)) \in sent'
    <3>1. PICK d \in ss : d.path = p
        BY <1>9, <2>1 DEF MovesTo
    <3>2. d \in paths[c]
      <4>1. ss \subseteq Between(h, c, e)
          BY <1>8 DEF IsSettled
      <4>2. QED
          BY <1>4, <4>1
    <3>3. ChangeKey(p) \in Changes(paths[c])
        BY <3>1, <3>2 DEF Changes
    <3>4. QED
        BY <3>3 DEF Notify
  <2>2. QED
      BY <2>1 DEF LeavesReported
<1>16. QED
    BY <1>11, <1>14, <1>15 DEF AssocInv

\* Once nothing is pending, the leaves of the map are the rows.
LEMMA QuietMap ==
  AssocInv => MapMatchesRows
<1> SUFFICES ASSUME AssocInv, Quiet PROVE MapMatchesRows
    BY DEF MapMatchesRows
<1>1. PICK h \in Histories : Explained(h)
    BY DEF AssocInv
<1>2. /\ MaxPathTime \in Nat /\ now \in 0 .. MaxPathTime /\ cap \in 0 .. now /\ IsMap(states)
      /\ rows \in [Paths -> SUBSET Leafs]
    BY AssocAssumption DEF AssocInv, AssocType
<1>3. DOMAIN paths = {} /\ Between(h, cap, now + 1) = {}
    BY <1>1 DEF Quiet, Empty, Explained
<1>4. ASSUME NEW p \in Paths PROVE Leaf(states, p) \in Shown(p, rows[p])
  <2>1. Leaf(states, p) \in Shown(p, h[p][cap])
      BY <1>1, <1>3 DEF Explained
  <2>2. cap \in Nat /\ now + 1 \in Nat /\ cap <= now + 1 /\ now + 1 <= MaxPathTime + 1
      BY <1>2
  <2>3. h[p][cap] = h[p][now + 1]
    <3>1. \A d \in Between(h, cap, now + 1) : d.path # p
        BY <1>3
    <3> DEFINE e == now + 1
    <3>2. e \in Nat /\ cap <= e /\ e <= MaxPathTime + 1 /\ \A d \in Between(h, cap, e) : d.path # p
        BY <2>2, <3>1
    <3> HIDE DEF e
    <3>3. h[p][cap] = h[p][e]
        BY <2>2, <3>2, NoChangeBetween
    <3>4. QED
        BY <3>3 DEF e
  <2>4. h[p][now + 1] = rows[p]
    <3>1. \A t \in now + 1 .. MaxPathTime + 1 : h[p][t] = rows[p]
        BY <1>1 DEF Explained
    <3>2. now + 1 \in now + 1 .. MaxPathTime + 1
        BY <1>2
    <3>3. QED
        BY <3>1, <3>2
  <2>5. QED
      BY <2>1, <2>3, <2>4
<1>5. \A n \in DOMAIN states : n \in Paths \/ states[n] = Obj
    BY <1>2 DEF IsMap
<1>6. QED
    BY <1>4, <1>5 DEF MapMatchesRows

\* Every step keeps the invariant and reports the leaves it changes.
LEMMA AssocStep ==
  ASSUME AssocInv, [AssocNext]_assocVars
  PROVE  AssocInv' /\ LeavesReported
<1>1. states' = states => LeavesReported
    BY DEF LeavesReported
<1>2. CASE UNCHANGED assocVars
  <2>1. AssocType'
      BY <1>2 DEF assocVars, AssocInv, AssocType
  <2>2. PICK h \in Histories : Explained(h)
      BY DEF AssocInv
  <2>3. Explained(h)'
      BY <1>2, <2>2 DEF assocVars, Explained
  <2>4. AssocInv'
      BY <2>1, <2>3 DEF AssocInv
  <2>5. QED
      BY <1>1, <1>2, <2>4 DEF assocVars
<1>3. CASE \E p \in Paths, vs \in SUBSET Leafs : ChangeRow(p, vs)
    BY <1>1, <1>3, ChangeRowStep DEF ChangeRow
<1>4. CASE TimePasses
    BY <1>1, <1>4, TimePassesStep DEF TimePasses
<1>5. CASE Arrive
    BY <1>1, <1>5, ArriveStep DEF Arrive
<1>6. CASE \E c \in DOMAIN paths : Notify(c)
    BY <1>6, NotifyStep
<1>7. QED
    BY <1>2, <1>3, <1>4, <1>5, <1>6 DEF AssocNext

\* Whatever the query, the granularity and the way its changes are batched,
\* once every change is merged the nested map of the AssocIn sink shows the
\* rows of the query: the value of a path that has one, and for a path that
\* may have several one of them or none.
THEOREM MapShowsTheRows == AssocSpec => []MapMatchesRows
<1>1. AssocInit => AssocInv
    BY AssocInvInit
<1>2. AssocInv /\ [AssocNext]_assocVars => AssocInv'
    BY AssocStep
<1>3. QED
    BY <1>1, <1>2, QuietMap, PTL DEF AssocSpec

\* No leaf of the map changes unless the part of the map that its change key
\* names is among what is forwarded in the same step.
THEOREM ChangesAreReported == AssocSpec => ChangesReported
<1>1. AssocInit => AssocInv
    BY AssocInvInit
<1>2. AssocInv /\ [AssocNext]_assocVars => AssocInv'
    BY AssocStep
<1>3. AssocInv /\ [AssocNext]_assocVars =>
        [\A p \in Paths : Leaf(states', p) # Leaf(states, p)
                            => Snapshot(states', ChangeKey(p)) \in sent']_assocVars
    BY AssocStep DEF LeavesReported
<1>4. QED
    BY <1>1, <1>2, <1>3, PTL DEF AssocSpec, ChangesReported

====
