----------------------------- MODULE DomainProofs -----------------------------
(***************************************************************************)
(* Proofs about Domain, for every timestamp type that satisfies the        *)
(* assumptions of TimeLattice, every set of attributes and every bound.    *)
(***************************************************************************)
EXTENDS Domain, TLAPS

\* A new session has the type of a session.
LEMMA NewSessionType == NewSession \in Session
  BY TimeAssumption DEF NewSession, Session

\* The head of a non-empty sequence over S is in S.
LEMMA HeadInSet ==
  ASSUME NEW S, NEW q \in Seq(S), q # <<>>
  PROVE  Head(q) \in S /\ Tail(q) \in Seq(S)
  OBVIOUS

\* The inductive invariant contains the type invariant.
LEMMA InvTypeOK == DomainInv => TypeOK
  BY DEF DomainInv

\* The next datom of a transaction is a datom.
LEMMA NextDatom == DomainInv /\ tx # <<>> => Head(tx) \in Datom /\ Tail(tx) \in Seq(Datom)
<1>1. DomainInv => tx \in Seq(Datom)
    BY DEF DomainInv, TypeOK
<1>2. QED
    BY <1>1, HeadInSet

\* Draining a session of the right type sends messages of the right type.
LEMMA DrainedType == \A s \in Session : Drained(s) \in SUBSET Message
  BY DEF Drained, Session, Message, Update

\* Pushing an update into a session keeps its type.
LEMMA PushedType ==
  \A s \in Session, u \in Update :
    /\ Pushed(s, u) \in Session
    /\ Pushed(s, u).time = s.time /\ Pushed(s, u).cap = s.cap
    /\ Pushed(s, u).buffer \subseteq s.buffer \cup {u}
  BY DEF Pushed, Session, Update

\* Flushing a session empties it, and leaves it at its time whenever its
\* capability was not ahead of it.
LEMMA FlushedType ==
  \A s \in Session :
    /\ Flushed(s) \in Session
    /\ Flushed(s).buffer = {} /\ Flushed(s).time = s.time
    /\ LessEqual(s.cap, s.time) => Flushed(s).cap = s.time
  BY Zenon DEF Flushed, Session, LessThan

\* Advancing a session and flushing it moves it to the new time.
LEMMA ForwardedType ==
  \A s \in Session, t \in T :
    /\ Forwarded(s, t) \in Session
    /\ Forwarded(s, t).buffer = {} /\ Forwarded(s, t).time = t
    /\ LessEqual(s.cap, t) => Forwarded(s, t).cap = t
<1> SUFFICES ASSUME NEW s \in Session, NEW t \in T
             PROVE /\ Forwarded(s, t) \in Session
                   /\ Forwarded(s, t).buffer = {} /\ Forwarded(s, t).time = t
                   /\ LessEqual(s.cap, t) => Forwarded(s, t).cap = t
    OBVIOUS
<1>1. AdvancedTo(s, t) \in Session /\ AdvancedTo(s, t).time = t
      /\ AdvancedTo(s, t).cap = s.cap /\ AdvancedTo(s, t).buffer = s.buffer
    BY DEF AdvancedTo, Session
<1>2. QED
    BY <1>1, FlushedType DEF Forwarded

\* The slack may be missing, everything else of a frontier stays behind t.
LEMMA RewoundFrontier ==
  \A F \in SUBSET T, t \in T, s \in T :
    FrontierLessEqual(F, t) => FrontierLessEqual({Rewind(f, s) : f \in F}, t)
<1> SUFFICES ASSUME NEW F \in SUBSET T, NEW t \in T, NEW s \in T,
                    FrontierLessEqual(F, t)
             PROVE FrontierLessEqual({Rewind(f, s) : f \in F}, t)
    OBVIOUS
<1>1. PICK f \in F : LessEqual(f, t)
    BY DEF FrontierLessEqual
<1>2. Rewind(f, s) \in T /\ LessEqual(Rewind(f, s), f)
    BY <1>1, TimeOperatorAssumption
<1>3. LessEqual(Rewind(f, s), t)
    BY <1>1, <1>2, TimeAssumption
<1>4. QED
    BY <1>1, <1>3 DEF FrontierLessEqual

\* advance_traces to a frontier that is behind t leaves the traces of every
\* attribute that were behind t behind t.
LEMMA AdvanceTracesBehind ==
  ASSUME TypeOK, NEW F \in SUBSET T, AdvanceTraces(F)
  PROVE  /\ last_advance' \in SUBSET T /\ trace' \in [Attrs -> SUBSET T]
         /\ \A a \in Attrs, t \in T :
              FrontierLessEqual(trace[a], t) /\ FrontierLessEqual(F, t)
                => FrontierLessEqual(trace'[a], t)
<1>1. CASE UNCHANGED <<last_advance, trace>>
    BY <1>1 DEF TypeOK
<1>2. CASE /\ last_advance' = F
           /\ trace' = [a \in Attrs |->
                IF a \in attributes /\ slack[a] # None
                THEN {Rewind(t, slack[a]) : t \in F}
                ELSE trace[a]]
  <2>1. \A a \in Attrs : slack[a] # None => slack[a] \in T
      BY DEF TypeOK
  <2>2. \A a \in Attrs : slack[a] # None => {Rewind(t, slack[a]) : t \in F} \in SUBSET T
      BY <2>1, TimeOperatorAssumption
  <2>3. last_advance' \in SUBSET T /\ trace' \in [Attrs -> SUBSET T]
      BY <1>2, <2>2 DEF TypeOK
  <2>4. ASSUME NEW a \in Attrs, NEW t \in T,
               FrontierLessEqual(trace[a], t), FrontierLessEqual(F, t)
        PROVE  FrontierLessEqual(trace'[a], t)
      BY <1>2, <2>1, <2>4, RewoundFrontier
  <2>5. QED
      BY <2>3, <2>4
<1>3. QED
    BY <1>1, <1>2 DEF AdvanceTraces

\* The messages an advance of all inputs ships.
LEMMA ForwardInputsShips ==
  ASSUME DomainInv, NEW next \in T, ForwardInputs(next)
  PROVE  shipped' \in SUBSET Message /\ ShippedUnderValidCapability'
<1>1. ASSUME NEW a \in inputs
      PROVE  /\ ShippedByFlush(AdvancedTo(session[a], next)) \in SUBSET Message
             /\ \A m \in ShippedByFlush(AdvancedTo(session[a], next)) :
                  LessEqual(m.cap, m.time)
  <2>1. session[a] \in Session /\ \A u \in session[a].buffer : LessEqual(session[a].cap, u.time)
      BY DEF DomainInv, TypeOK
  <2>2. AdvancedTo(session[a], next) \in Session
        /\ AdvancedTo(session[a], next).cap = session[a].cap
        /\ AdvancedTo(session[a], next).buffer = session[a].buffer
      BY <2>1 DEF AdvancedTo, Session
  <2>3. QED
      BY <2>1, <2>2, DrainedType DEF ShippedByFlush, Drained
<1>2. shipped \in SUBSET Message /\ ShippedUnderValidCapability
    BY DEF DomainInv, TypeOK
<1>3. ASSUME NEW m \in shipped'
      PROVE  m \in Message /\ LessEqual(m.cap, m.time)
    BY <1>1, <1>2 DEF ForwardInputs, ShippedUnderValidCapability
<1>4. QED
    BY <1>3 DEF ShippedUnderValidCapability

\* After an advance of all inputs they are flushed and at the new epoch.
LEMMA ForwardInputsMoves ==
  ASSUME DomainInv, NEW next \in T, ForwardInputs(next), InputsMayAdvanceTo(next)
  PROVE  /\ session' \in [Attrs -> Session]
         /\ \A a \in inputs : /\ session'[a].time = next /\ session'[a].cap = next
                              /\ session'[a].buffer = {}
<1>1. \A a \in Attrs : session[a] \in Session
    BY DEF DomainInv, TypeOK
<1>2. \A a \in inputs : a \in Attrs /\ LessEqual(session[a].cap, next)
    BY DEF DomainInv, TypeOK, InputsMayAdvanceTo, MayAdvanceTo
<1>3. QED
    BY <1>1, <1>2, ForwardedType DEF ForwardInputs
-----------------------------------------------------------------------------
\* The initial domain satisfies the inductive invariant.
LEMMA InitDomainInv == Init => DomainInv
<1> SUFFICES ASSUME Init PROVE DomainInv
    OBVIOUS
<1>1. TypeOK
    BY TimeAssumption, NewSessionType DEF Init, TypeOK, Panics
<1>2. QED
    BY <1>1 DEF Init, DomainInv, ShippedUnderValidCapability

\* A panic changes nothing but the reason.
LEMMA PanicDomainInv ==
  ASSUME DomainInv, NEW reason \in Panics, PanicWith(reason)
  PROVE  DomainInv'
<1>1. TypeOK'
    BY DEF DomainInv, TypeOK, PanicWith, configVars, sourceVars, dataVars
<1>2. QED
    BY <1>1 DEF DomainInv, PanicWith, configVars, sourceVars, dataVars,
         FrontierReached, FrontierLessEqual, ShippedUnderValidCapability

\* Adding an attribute takes the epoch back, and touches no other attribute.
LEMMA AddAttributeFacts ==
  ASSUME DomainInv, NEW a \in Attrs \ attributes, NEW s \in Slacks \cup {None},
         AddAttribute(a, s)
  PROVE  /\ now_at' \in T
         /\ \A t \in T : LessEqual(now_at, t) => LessEqual(now_at', t)
         /\ LessEqual(now_at', Minimum)
         /\ slack' \in [Attrs -> T \cup {None}]
         /\ trace' \in [Attrs -> SUBSET T]
         /\ trace'[a] = {Minimum}
         /\ \A b \in attributes : trace'[b] = trace[b]
         /\ a \notin inputs /\ a \notin sourced
         /\ inputs \subseteq attributes /\ sourced \subseteq attributes
<1>1. /\ now_at \in T /\ slack \in [Attrs -> T \cup {None}] /\ trace \in [Attrs -> SUBSET T]
      /\ inputs \subseteq attributes /\ sourced \subseteq attributes
    BY DEF DomainInv, TypeOK
<1>2. /\ now_at' = Meet(now_at, Minimum) /\ now_at' \in T
      /\ LessEqual(now_at', now_at) /\ LessEqual(now_at', Minimum)
    BY <1>1, TimeAssumption, TimeOperatorAssumption DEF AddAttribute, ComposedEpoch
<1>3. \A t \in T : LessEqual(now_at, t) => LessEqual(now_at', t)
    BY <1>1, <1>2, TimeAssumption
<1>4. QED
    BY <1>1, <1>2, <1>3, DomainAssumption, TimeAssumption DEF AddAttribute

\* What the invariant says of the source, the probe and the shipped messages
\* survives the composition with a domain that has no source.
LEMMA UnsourcedKeepsSource ==
  ASSUME DomainInv, NEW a \in Attrs \ attributes, NEW s \in Slacks \cup {None},
         AddAttribute(a, s), TakeOverIdleProbe
  PROVE  /\ \A b \in sourced' : FrontierReached(trace'[b], source')
         /\ probed_source_count' = 0 => sourced' = {}
         /\ probed_source_count' # 0 => FrontierReached(domain_probe', source')
         /\ ShippedUnderValidCapability'
<1>1. /\ sourced' = sourced /\ source' = source /\ shipped' = shipped
      /\ probed_source_count' = probed_source_count
      /\ probed_source_count # 0 => domain_probe' = domain_probe
    BY DEF TakeOverIdleProbe, AddAttribute
<1>2. \A b \in sourced : trace'[b] = trace[b]
    BY AddAttributeFacts
<1>3. \A b \in sourced' : FrontierReached(trace'[b], source')
    BY <1>1, <1>2 DEF DomainInv
<1>4. ShippedUnderValidCapability'
    BY <1>1 DEF DomainInv, ShippedUnderValidCapability
<1>5. QED
    BY <1>1, <1>3, <1>4 DEF DomainInv

\* CreateAttribute preserves the invariant.
LEMMA CreateAttributeDomainInv ==
  ASSUME DomainInv, NEW a \in Attrs, NEW s \in Slacks \cup {None}, CreateAttribute(a, s)
  PROVE  DomainInv'
<1>1. /\ a \in Attrs \ attributes /\ AddAttribute(a, s) /\ TakeOverIdleProbe
      /\ inputs' = inputs \cup {a} /\ session' = [session EXCEPT ![a] = NewSession]
      /\ attributes' = attributes \cup {a} /\ streams' = {}
    BY DEF CreateAttribute, AddAttribute, Idle, TakeOverIdleProbe
<1>2. TypeOK'
    BY Zenon, <1>1, AddAttributeFacts, NewSessionType
       DEF DomainInv, TypeOK, AddAttribute, TakeOverIdleProbe
<1>3. \A b \in inputs' :
        /\ session'[b].time = session'[b].cap
        /\ LessEqual(now_at', session'[b].cap)
        /\ \A u \in session'[b].buffer : LessEqual(session'[b].cap, u.time)
        /\ FrontierLessEqual(trace'[b], session'[b].cap)
  <2>1. CASE inputs' = inputs \cup {a}
    <3>1. ASSUME NEW b \in inputs
          PROVE  session'[b] = session[b] /\ trace'[b] = trace[b]
                 /\ session[b].cap \in T
        BY <1>1, AddAttributeFacts DEF DomainInv, TypeOK, Session
    <3>2. /\ session'[a] = NewSession /\ trace'[a] = {Minimum}
        BY <1>1, AddAttributeFacts DEF DomainInv, TypeOK
    <3>3. ASSUME NEW b \in inputs
          PROVE  /\ session'[b].time = session'[b].cap
                 /\ LessEqual(now_at', session'[b].cap)
                 /\ \A u \in session'[b].buffer : LessEqual(session'[b].cap, u.time)
                 /\ FrontierLessEqual(trace'[b], session'[b].cap)
        BY <1>1, <3>1, AddAttributeFacts DEF DomainInv
    <3>4. /\ session'[a].time = session'[a].cap
          /\ LessEqual(now_at', session'[a].cap)
          /\ \A u \in session'[a].buffer : LessEqual(session'[a].cap, u.time)
          /\ FrontierLessEqual(trace'[a], session'[a].cap)
        BY <1>1, <3>2, AddAttributeFacts, TimeAssumption
           DEF NewSession, FrontierLessEqual
    <3>5. QED
        BY <2>1, <3>3, <3>4
  <2>2. QED
      BY <1>1, <2>1
<1>4. QED
    BY <1>1, <1>2, <1>3, UnsourcedKeepsSource DEF DomainInv

\* AddTimelessStream preserves the invariant.
LEMMA AddTimelessStreamDomainInv ==
  ASSUME DomainInv, NEW a \in Attrs, NEW s \in Slacks \cup {None}, AddTimelessStream(a, s)
  PROVE  DomainInv'
<1>1. /\ a \in Attrs \ attributes /\ AddAttribute(a, s) /\ TakeOverIdleProbe
      /\ UNCHANGED <<inputs, session>> /\ attributes' = attributes \cup {a}
      /\ streams' = {}
    BY DEF AddTimelessStream, AddAttribute, Idle, TakeOverIdleProbe
<1>2. TypeOK'
    BY Zenon, <1>1, AddAttributeFacts DEF DomainInv, TypeOK, AddAttribute, TakeOverIdleProbe
<1>3. ASSUME NEW b \in inputs'
      PROVE  /\ session'[b].time = session'[b].cap
             /\ LessEqual(now_at', session'[b].cap)
             /\ \A u \in session'[b].buffer : LessEqual(session'[b].cap, u.time)
             /\ FrontierLessEqual(trace'[b], session'[b].cap)
  <2>1. b \in inputs /\ session'[b] = session[b] /\ trace'[b] = trace[b]
        /\ session[b].cap \in T
      BY <1>1, AddAttributeFacts DEF DomainInv, TypeOK, Session
  <2>2. QED
      BY <1>1, <2>1, AddAttributeFacts DEF DomainInv
<1>4. QED
    BY <1>1, <1>2, <1>3, UnsourcedKeepsSource DEF DomainInv

\* Composing the stream of a source preserves the invariant.
LEMMA ComposeStreamDomainInv ==
  ASSUME DomainInv, NEW a \in Attrs \ attributes, NEW s \in Slacks \cup {None},
         ComposeStream(a, s)
  PROVE  DomainInv'
<1>1. /\ AddAttribute(a, s) /\ sourced = {}
      /\ UNCHANGED <<inputs, session>> /\ attributes' = attributes \cup {a}
      /\ sourced' = {a} /\ source' = {Minimum} /\ domain_probe' = {Minimum}
      /\ probed_source_count' = 1 /\ shipped' = shipped
      /\ streams' \in SUBSET streams /\ streams \cap attributes \subseteq sourced
      /\ streams \in SUBSET Attrs
    BY DEF ComposeStream, AddAttribute, DomainInv, TypeOK
<1>2. TypeOK'
  <2>1. /\ now_at' \in T /\ slack' \in [Attrs -> T \cup {None}]
        /\ trace' \in [Attrs -> SUBSET T]
      BY <1>1, AddAttributeFacts
  <2>2. UNCHANGED <<last_advance, panic, tx, updates>> /\ Minimum \in T
      BY <1>1, TimeAssumption DEF AddAttribute
  <2>3. QED
      BY <1>1, <2>1, <2>2, InvTypeOK DEF TypeOK
<1>3. ASSUME NEW b \in inputs'
      PROVE  /\ session'[b].time = session'[b].cap
             /\ LessEqual(now_at', session'[b].cap)
             /\ \A u \in session'[b].buffer : LessEqual(session'[b].cap, u.time)
             /\ FrontierLessEqual(trace'[b], session'[b].cap)
  <2>1. b \in inputs /\ session'[b] = session[b] /\ trace'[b] = trace[b]
        /\ session[b].cap \in T
      BY <1>1, AddAttributeFacts DEF DomainInv, TypeOK, Session
  <2>2. QED
      BY <1>1, <2>1, AddAttributeFacts DEF DomainInv
<1>4. trace'[a] = {Minimum}
    BY <1>1, AddAttributeFacts
<1>5. FrontierReached({Minimum}, {Minimum})
    BY TimeAssumption DEF FrontierReached, FrontierLessEqual
<1>6. ShippedUnderValidCapability'
    BY <1>1 DEF DomainInv, ShippedUnderValidCapability
<1>7. \A b \in sourced' : FrontierReached(trace'[b], source')
    BY <1>1, <1>4, <1>5
<1>8. FrontierReached(domain_probe', source')
    BY <1>1, <1>5
<1>9. QED
    BY <1>1, <1>2, <1>3, <1>6, <1>7, <1>8 DEF DomainInv

\* A step that leaves the sessions, the traces and the source alone preserves
\* the invariant: RegisterSource, Transact and the end of a failed request.
LEMMA InertDomainInv ==
  ASSUME DomainInv, TypeOK', streams' \cap attributes' \subseteq sourced',
         UNCHANGED <<attributes, now_at, inputs, session, sourceVars, trace, shipped>>
  PROVE  DomainInv'
  BY DEF DomainInv, sourceVars, ShippedUnderValidCapability

\* Accepting a datom at a time its session's capability allows preserves the
\* invariant, whether or not it fills the buffer.
LEMMA AcceptAtDomainInv ==
  ASSUME DomainInv, tx # <<>>, NEW t \in T, NEW d \in Datom, d.attr \in inputs,
         LessEqual(session[d.attr].cap, t), AcceptAt(d, t)
  PROVE  DomainInv'
<1> DEFINE a == d.attr
           u == [id |-> Len(updates) + 1, time |-> t]
<1>1. a \in Attrs /\ session[a] \in Session /\ u \in Update
  <2>1. /\ a \in Attrs /\ session \in [Attrs -> Session]
        /\ updates \in Seq([attr : Attrs, time : T])
      BY InvTypeOK DEF TypeOK, Datom
  <2>2. Len(updates) \in Nat
      BY <2>1
  <2>3. QED
      BY <2>1, <2>2 DEF Update
<1>2. /\ session' = [session EXCEPT ![a] = Pushed(session[a], u)]
      /\ shipped' = shipped \cup ShippedByPush(session[a])
    BY DEF AcceptAt
<1>3. /\ UNCHANGED <<attributes, slack, inputs, now_at, last_advance, sourceVars,
                     trace, streams, panic>>
      /\ tx' = Tail(tx) /\ updates' = Append(updates, [attr |-> a, time |-> t])
    BY DEF AcceptAt, configVars
<1>4. ShippedByPush(session[a]) \subseteq Drained(session[a])
    BY DEF ShippedByPush
<1>5. ASSUME NEW m \in Drained(session[a])
      PROVE  m \in Message /\ LessEqual(m.cap, m.time)
  <2>1. \A v \in session[a].buffer : LessEqual(session[a].cap, v.time)
      BY DEF DomainInv
  <2>2. m \in Message
      BY <1>1, DrainedType
  <2>3. QED
      BY <2>1, <2>2 DEF Drained
<1>6. TypeOK'
  <2>1. session' \in [Attrs -> Session]
    <3>1. session \in [Attrs -> Session] /\ Pushed(session[a], u) \in Session
        BY <1>1, PushedType, InvTypeOK DEF TypeOK
    <3>2. QED
        BY <1>1, <1>2, <3>1
  <2>2. shipped' \in SUBSET Message
      BY <1>2, <1>4, <1>5, InvTypeOK DEF TypeOK
  <2>3. tx' \in Seq(Datom)
      BY <1>3, NextDatom
  <2>4. updates' \in Seq([attr : Attrs, time : T])
    <3>1. /\ updates \in Seq([attr : Attrs, time : T])
          /\ [attr |-> a, time |-> t] \in [attr : Attrs, time : T]
        BY <1>1, InvTypeOK DEF TypeOK
    <3>2. QED
        BY <1>3, <3>1
  <2>5. QED
      BY <1>3, <2>1, <2>2, <2>3, <2>4, InvTypeOK DEF TypeOK, sourceVars
<1>7. ASSUME NEW b \in inputs
      PROVE  /\ session'[b].time = session'[b].cap
             /\ LessEqual(now_at, session'[b].cap)
             /\ \A v \in session'[b].buffer : LessEqual(session'[b].cap, v.time)
             /\ FrontierLessEqual(trace[b], session'[b].cap)
  <2>1. CASE b = a
    <3>1. /\ session'[a] = Pushed(session[a], u)
          /\ session'[a].time = session[a].time /\ session'[a].cap = session[a].cap
          /\ session'[a].buffer \subseteq session[a].buffer \cup {u}
      <4>1. session'[a] = Pushed(session[a], u)
          BY <1>1, <1>2, InvTypeOK DEF TypeOK
      <4> HIDE DEF a, u
      <4>2. QED
          BY <1>1, <4>1, PushedType
    <3>2. u.time = t
        OBVIOUS
    <3>3. QED
        BY <2>1, <3>1, <3>2 DEF DomainInv
  <2>2. CASE b # a
    <3>1. session'[b] = session[b]
        BY <1>2, <2>2 DEF DomainInv, TypeOK
    <3>2. QED
        BY <3>1 DEF DomainInv
  <2>3. QED
      BY <2>1, <2>2
<1>8. ShippedUnderValidCapability'
    BY Zenon, <1>2, <1>4, <1>5 DEF DomainInv, ShippedUnderValidCapability
<1>9. QED
    BY <1>3, <1>6, <1>7, <1>8 DEF DomainInv, sourceVars

\* CloseInput preserves the invariant.
LEMMA CloseInputDomainInv ==
  ASSUME DomainInv, NEW a \in Attrs, CloseInput(a)
  PROVE  DomainInv'
<1>1. a \in inputs /\ session[a] \in Session
    BY Zenon DEF CloseInput, DomainInv, TypeOK
<1>2. /\ inputs' = inputs \ {a} /\ session' = [session EXCEPT ![a] = Flushed(session[a])]
      /\ shipped' = shipped \cup Drained(session[a])
      /\ UNCHANGED <<attributes, slack, now_at, last_advance, sourceVars, trace,
                     streams, tx, panic, updates>>
    BY DEF CloseInput, ShippedByFlush
<1>3. ASSUME NEW m \in Drained(session[a])
      PROVE  m \in Message /\ LessEqual(m.cap, m.time)
    BY <1>1, DrainedType, SMTT(30) DEF Drained, DomainInv
<1>4. session' \in [Attrs -> Session]
    BY <1>1, <1>2, FlushedType DEF DomainInv, TypeOK
<1>5. TypeOK'
    BY <1>2, <1>3, <1>4 DEF DomainInv, TypeOK, sourceVars
<1>6. \A b \in inputs' : b \in inputs /\ session'[b] = session[b]
    BY <1>2 DEF DomainInv, TypeOK
<1>7. ShippedUnderValidCapability'
    BY <1>2, <1>3 DEF DomainInv, ShippedUnderValidCapability
<1>8. QED
    BY Zenon, <1>2, <1>5, <1>6, <1>7 DEF DomainInv, sourceVars
-----------------------------------------------------------------------------
\* Forwarding all inputs to an epoch that is not behind theirs, with their
\* traces behind that epoch, leaves the inputs as the invariant has them.
LEMMA ForwardInputsInv ==
  ASSUME DomainInv, NEW next \in T, ForwardInputs(next), InputsMayAdvanceTo(next),
         \A a \in inputs : FrontierLessEqual(trace'[a], next)
  PROVE  \A a \in inputs :
           /\ session'[a].time = session'[a].cap
           /\ LessEqual(now_at', session'[a].cap)
           /\ \A u \in session'[a].buffer : LessEqual(session'[a].cap, u.time)
           /\ FrontierLessEqual(trace'[a], session'[a].cap)
<1>1. now_at' = next /\ LessEqual(next, next)
    BY TimeAssumption DEF ForwardInputs
<1>2. QED
    BY <1>1, ForwardInputsMoves

\* A frontier that is behind a session's capability is behind whatever that
\* session may be advanced to.
LEMMA TraceBehindNext ==
  ASSUME DomainInv, NEW next \in T, InputsMayAdvanceTo(next), NEW a \in inputs
  PROVE  FrontierLessEqual(trace[a], next)
<1>1. a \in Attrs /\ session[a].cap \in T /\ trace[a] \in SUBSET T
    BY DEF DomainInv, TypeOK, Session
<1>2. LessEqual(session[a].cap, next)
    BY DEF DomainInv, InputsMayAdvanceTo, MayAdvanceTo
<1>3. PICK f \in trace[a] : LessEqual(f, session[a].cap)
    BY DEF DomainInv, FrontierLessEqual
<1>4. LessEqual(f, next)
    BY <1>1, <1>2, <1>3, TimeAssumption
<1>5. QED
    BY <1>3, <1>4 DEF FrontierLessEqual

\* AdvanceDomain preserves the invariant.
LEMMA AdvanceDomainInv ==
  ASSUME DomainInv, NEW next \in T, AdvanceDomain(next)
  PROVE  DomainInv'
<1>1. CASE ~InputsMayAdvanceTo(next)
    BY <1>1, PanicDomainInv DEF AdvanceDomain, Panics
<1>2. CASE InputsMayAdvanceTo(next)
  <2>1. ForwardInputs(next)
        /\ UNCHANGED <<attributes, slack, inputs, last_advance, sourceVars, trace,
                       streams, tx, panic, updates>>
      BY <1>2 DEF AdvanceDomain, configVars
  <2>2. now_at' = next
      BY <2>1 DEF ForwardInputs
  <2>3. TypeOK'
      BY Zenon, <1>2, <2>1, <2>2, ForwardInputsShips, ForwardInputsMoves
         DEF DomainInv, TypeOK, sourceVars
  <2>4. \A a \in inputs : FrontierLessEqual(trace'[a], next)
      BY <1>2, <2>1, TraceBehindNext
  <2>5. QED
      BY Zenon, <1>2, <2>1, <2>3, <2>4, ForwardInputsInv, ForwardInputsShips
         DEF DomainInv, sourceVars
<1>3. QED
    BY <1>1, <1>2

\* advance() preserves the invariant when it moves only the traces, to a
\* frontier that is behind the epoch and behind the source.
LEMMA AdvanceTracesInv ==
  ASSUME DomainInv, NEW F \in SUBSET T, AdvanceTraces(F), FrontierLessEqual(F, now_at),
         sourced # {} => FrontierReached(F, source),
         UNCHANGED <<configVars, now_at, session, sourceVars, dataVars, panic>>
  PROVE  DomainInv'
<1>1. UNCHANGED <<attributes, slack, inputs, now_at, session, probed_source_count,
                  domain_probe, source, sourced, streams, tx, updates, shipped, panic>>
    BY DEF configVars, sourceVars, dataVars
<1>2. TypeOK
    BY DEF DomainInv
<1>3. TypeOK'
    BY <1>1, <1>2, AdvanceTracesBehind DEF TypeOK
<1>4. ASSUME NEW a \in inputs
      PROVE  FrontierLessEqual(trace'[a], session[a].cap)
  <2>1. a \in Attrs /\ session[a].cap \in T /\ now_at \in T
      BY <1>2 DEF TypeOK, Session
  <2>2. PICK f \in F : LessEqual(f, now_at)
      BY DEF FrontierLessEqual
  <2>3. LessEqual(f, session[a].cap)
      BY <2>1, <2>2, TimeAssumption DEF DomainInv
  <2>4. FrontierLessEqual(F, session[a].cap)
      BY <2>2, <2>3 DEF FrontierLessEqual
  <2>5. QED
      BY <1>2, <2>1, <2>4, AdvanceTracesBehind DEF DomainInv
<1>5. ASSUME NEW a \in sourced
      PROVE  FrontierReached(trace'[a], source)
  <2>1. a \in Attrs /\ source \in SUBSET T
      BY <1>2 DEF TypeOK
  <2>2. FrontierReached(trace[a], source) /\ FrontierReached(F, source)
      BY DEF DomainInv
  <2>3. QED
      BY <1>2, <2>1, <2>2, AdvanceTracesBehind DEF FrontierReached
<1>6. ShippedUnderValidCapability'
    BY <1>1 DEF DomainInv, ShippedUnderValidCapability
<1>7. QED
    BY Zenon, <1>1, <1>3, <1>4, <1>5, <1>6 DEF DomainInv

\* advance() of a domain without live sources preserves the invariant: if
\* the probe is empty then the source it watches has ceased.
LEMMA AdvanceToEpochInv == DomainInv /\ AdvanceToEpoch => DomainInv'
<1> SUFFICES ASSUME DomainInv, AdvanceToEpoch PROVE DomainInv'
    OBVIOUS
<1>1. now_at \in T /\ {now_at} \in SUBSET T
    BY DEF DomainInv, TypeOK
<1>2. FrontierLessEqual({now_at}, now_at)
    BY <1>1, TimeAssumption DEF FrontierLessEqual
<1>3. ASSUME sourced # {}
      PROVE  FrontierReached({now_at}, source)
  <2>1. domain_probe = {} /\ FrontierReached(domain_probe, source)
      BY <1>3 DEF DomainInv, AdvanceToEpoch
  <2>2. source = {}
      BY <2>1 DEF FrontierReached, FrontierLessEqual
  <2>3. QED
      BY <2>2 DEF FrontierReached
<1>4. QED
    BY <1>1, <1>2, <1>3, AdvanceTracesInv DEF AdvanceToEpoch

\* advance() of a domain whose inputs keep up preserves the invariant.
LEMMA AdvanceToSourcesInv == DomainInv /\ AdvanceToSources => DomainInv'
<1> SUFFICES ASSUME DomainInv, AdvanceToSources PROVE DomainInv'
    OBVIOUS
<1>1. domain_probe \in SUBSET T
    BY InvTypeOK DEF TypeOK
<1>2. FrontierReached(domain_probe, source)
    BY DEF DomainInv, AdvanceToSources
<1>3. QED
    BY <1>1, <1>2, AdvanceTracesInv DEF AdvanceToSources

\* advance() of a domain whose inputs have fallen behind preserves the
\* invariant: the epoch it picks is an element of the frontier.
LEMMA CatchUpInv == DomainInv /\ CatchUpWithSources => DomainInv'
<1> SUFFICES ASSUME DomainInv, CatchUpWithSources PROVE DomainInv'
    OBVIOUS
<1> DEFINE next == OrdMax(domain_probe)
<1>1. /\ domain_probe \in SUBSET T /\ domain_probe # {}
      /\ FrontierReached(domain_probe, source) /\ TypeOK
  <2>1. TypeOK /\ domain_probe \in SUBSET T
      BY InvTypeOK DEF TypeOK
  <2>2. domain_probe # {} /\ probed_source_count # 0
      BY DEF CatchUpWithSources
  <2>3. FrontierReached(domain_probe, source)
      BY <2>2 DEF DomainInv
  <2>4. QED
      BY <2>1, <2>2, <2>3
<1>2. next \in domain_probe /\ next \in T
    BY <1>1, TimeOperatorAssumption
<1>3. CASE PanicWith("advance") \/ PanicWith("advance_to")
    BY Zenon, <1>3, PanicDomainInv DEF Panics
<1>4. CASE /\ InputsMayAdvanceTo(next) /\ ForwardInputs(next) /\ AdvanceTraces(domain_probe)
           /\ UNCHANGED <<configVars, sourceVars, streams, tx, panic, updates>>
  <2> HIDE DEF next
  <2>1. /\ UNCHANGED <<attributes, slack, inputs, probed_source_count, domain_probe,
                       source, sourced, streams, tx, panic, updates>>
        /\ now_at' = next
      BY <1>4 DEF configVars, sourceVars, ForwardInputs
  <2>2. TypeOK'
      BY Zenon, <1>1, <1>2, <1>4, <2>1, ForwardInputsShips, ForwardInputsMoves,
         AdvanceTracesBehind DEF TypeOK
  <2>3. ASSUME NEW a \in inputs
        PROVE  FrontierLessEqual(trace'[a], next)
    <3>1. a \in Attrs /\ FrontierLessEqual(trace[a], next)
        BY <1>1, <1>2, <1>4, TraceBehindNext DEF TypeOK
    <3>2. FrontierLessEqual(domain_probe, next)
        BY <1>2, TimeAssumption DEF FrontierLessEqual
    <3>3. QED
        BY Zenon, <1>1, <1>2, <1>4, <3>1, <3>2, AdvanceTracesBehind
  <2>4. ASSUME NEW a \in sourced
        PROVE  FrontierReached(trace'[a], source)
    <3>1. a \in Attrs /\ source \in SUBSET T /\ FrontierReached(trace[a], source)
        BY Zenon, <1>1 DEF TypeOK, DomainInv
    <3>2. QED
        BY <1>1, <1>4, <3>1, AdvanceTracesBehind DEF FrontierReached
  <2>5. QED
      BY Zenon, <1>2, <1>4, <2>1, <2>2, <2>3, <2>4, ForwardInputsInv, ForwardInputsShips
         DEF DomainInv
<1>5. QED
    BY <1>3, <1>4 DEF CatchUpWithSources

\* The source's own progress preserves the invariant: what was behind its
\* capabilities is behind those it downgrades them to.
LEMMA SourceDowngradeInv ==
  ASSUME DomainInv, NEW G \in SUBSET T, SourceDowngrade(G)
  PROVE  DomainInv'
<1>1. /\ UNCHANGED <<attributes, slack, inputs, now_at, last_advance, session,
                     probed_source_count, domain_probe, trace, streams, tx,
                     updates, shipped, sourced, panic>>
      /\ source' = G /\ FrontierReached(source, G) /\ source \in SUBSET T
    BY Zenon DEF SourceDowngrade, configVars, dataVars, DomainInv, TypeOK
<1>2. ASSUME NEW F \in SUBSET T, FrontierReached(F, source)
      PROVE  FrontierReached(F, G)
  <2>1. SUFFICES ASSUME NEW g \in G
                 PROVE \E f \in F : LessEqual(f, g)
      BY DEF FrontierReached, FrontierLessEqual
  <2>2. PICK s \in source : LessEqual(s, g)
      BY <1>1 DEF FrontierReached, FrontierLessEqual
  <2>3. PICK f \in F : LessEqual(f, s)
      BY <1>2 DEF FrontierReached, FrontierLessEqual
  <2>4. QED
      BY <1>1, <2>2, <2>3, TimeAssumption
<1>3. TypeOK'
    BY Zenon, <1>1 DEF DomainInv, TypeOK
<1>4. \A a \in sourced : FrontierReached(trace[a], G)
    BY Zenon, <1>2 DEF DomainInv, TypeOK
<1>5. probed_source_count # 0 => FrontierReached(domain_probe, G)
    BY <1>2 DEF DomainInv, TypeOK
<1>6. QED
    BY <1>1, <1>3, <1>4, <1>5 DEF DomainInv, ShippedUnderValidCapability

\* The probe catches up with the source.
LEMMA WorkerStepInv == DomainInv /\ WorkerStep => DomainInv'
<1> SUFFICES ASSUME DomainInv, WorkerStep PROVE DomainInv'
    OBVIOUS
<1>1. /\ UNCHANGED <<attributes, slack, inputs, now_at, last_advance, session,
                     probed_source_count, trace, streams, tx, updates, shipped,
                     source, sourced, panic>>
      /\ domain_probe' = source /\ source \in SUBSET T
    BY DEF WorkerStep, configVars, dataVars, DomainInv, TypeOK
<1>2. FrontierReached(source, source)
    BY <1>1, TimeAssumption DEF FrontierReached, FrontierLessEqual
<1>3. TypeOK'
    BY <1>1 DEF DomainInv, TypeOK
<1>4. QED
    BY <1>1, <1>2, <1>3 DEF DomainInv, ShippedUnderValidCapability

\* Registering the next stream of a source preserves the invariant.
LEMMA RegisterStreamInv == DomainInv /\ RegisterStream => DomainInv'
<1> SUFFICES ASSUME DomainInv, RegisterStream PROVE DomainInv'
    OBVIOUS
<1>1. PICK a \in streams \ sourced :
        (\E s \in Slacks \cup {None} : ComposeStream(a, s)) \/ ComposeAnotherSource
    BY DEF RegisterStream
<1>2. a \in Attrs \ attributes
    BY <1>1 DEF DomainInv, TypeOK
<1>3. CASE ComposeAnotherSource
    BY Zenon, <1>3, PanicDomainInv DEF ComposeAnotherSource, Panics
<1>4. QED
    BY <1>1, <1>2, <1>3, ComposeStreamDomainInv

\* Every composition preserves the invariant.
LEMMA ComposeInv == DomainInv /\ Compose => DomainInv'
<1> SUFFICES ASSUME DomainInv, Compose PROVE DomainInv'
    OBVIOUS
<1>1. ASSUME NEW aids \in SUBSET Attrs, RegisterSource(aids)
      PROVE  DomainInv'
  <2>1. /\ UNCHANGED <<attributes, slack, inputs, now_at, last_advance, session,
                       probed_source_count, domain_probe, source, sourced, trace,
                       tx, updates, shipped, panic>>
        /\ streams' = aids /\ aids \cap attributes = {}
      BY <1>1 DEF RegisterSource, configVars, sourceVars
  <2>2. TypeOK'
      BY <2>1, InvTypeOK DEF TypeOK
  <2>3. QED
      BY <2>1, <2>2, InertDomainInv DEF sourceVars
<1>2. ASSUME NEW a \in Attrs, AttributeClash(a)
      PROVE  DomainInv'
    BY <1>2, PanicDomainInv DEF AttributeClash, Panics
<1>3. QED
    BY <1>1, <1>2, CreateAttributeDomainInv, AddTimelessStreamDomainInv,
       RegisterStreamInv DEF Compose

\* Starting a transaction preserves the invariant.
LEMMA TransactInv ==
  ASSUME DomainInv, NEW batch \in Batches, Transact(batch)
  PROVE  DomainInv'
<1>1. batch \in Seq(Datom)
    BY DomainAssumption DEF Batches
<1>2. /\ UNCHANGED <<attributes, slack, inputs, now_at, last_advance, session,
                     probed_source_count, domain_probe, source, sourced, trace,
                     streams, updates, shipped, panic>>
      /\ tx' = batch
    BY DEF Transact, configVars, sourceVars
<1>3. TypeOK'
    BY Zenon, <1>1, <1>2 DEF DomainInv, TypeOK
<1>4. QED
    BY Zenon, <1>2, <1>3, InertDomainInv DEF sourceVars, DomainInv

\* Every outcome of the next datom preserves the invariant.
LEMMA TransactDatomInv == DomainInv /\ TransactDatom => DomainInv'
<1> SUFFICES ASSUME DomainInv, TransactDatom PROVE DomainInv'
    OBVIOUS
<1> DEFINE d == Head(tx)
<1>1. tx # <<>> /\ d \in Datom
    BY NextDatom DEF TransactDatom
<1> HIDE DEF d
<1>2. CASE TransactUpdate(d)
  <2>1. d.attr \in inputs /\ AcceptAt(d, session[d.attr].cap)
      BY <1>2 DEF TransactUpdate, UpdateTime
  <2>2. session[d.attr].cap \in T
      BY <2>1 DEF DomainInv, TypeOK, Session
  <2>3. QED
      BY <1>1, <2>1, <2>2, TimeAssumption, AcceptAtDomainInv
<1>3. CASE TransactUpdateAt(d)
  <2>1. d.attr \in inputs /\ d.time \in T /\ LessEqual(session[d.attr].cap, d.time)
      BY <1>1, <1>3 DEF TransactUpdateAt, MayUpdateAt, Datom
  <2>2. QED
      BY <1>1, <1>3, <2>1, AcceptAtDomainInv DEF TransactUpdateAt
<1>4. CASE TransactTooEarly(d)
    BY <1>4, PanicDomainInv DEF TransactTooEarly, Panics
<1>5. CASE TransactNotFound(d)
  <2>1. /\ UNCHANGED <<attributes, slack, inputs, now_at, last_advance, session,
                       probed_source_count, domain_probe, source, sourced, trace,
                       streams, updates, shipped, panic>>
        /\ tx' = <<>>
      BY <1>5 DEF TransactNotFound, configVars, sourceVars
  <2>2. TypeOK'
      BY <2>1, InvTypeOK DEF TypeOK
  <2>3. QED
      BY <2>1, <2>2, InertDomainInv DEF sourceVars, DomainInv
<1>6. QED
    BY <1>2, <1>3, <1>4, <1>5 DEF TransactDatom, d
-----------------------------------------------------------------------------
\* DomainInv is inductive: no request, however it interleaves with the source
\* and the worker, breaks it.
LEMMA NextDomainInv == DomainInv /\ [Next]_vars => DomainInv'
<1> SUFFICES ASSUME DomainInv, [Next]_vars PROVE DomainInv'
    OBVIOUS
<1>1. CASE UNCHANGED vars
  <2>1. UNCHANGED <<attributes, slack, inputs, now_at, last_advance, session,
                    probed_source_count, domain_probe, source, sourced, trace,
                    streams, tx, updates, shipped, panic>>
      BY <1>1 DEF vars
  <2>2. TypeOK'
      BY <2>1, InvTypeOK DEF TypeOK
  <2>3. QED
      BY Zenon, <2>1, <2>2, InertDomainInv DEF sourceVars, DomainInv
<1>2. CASE Compose
    BY <1>2, ComposeInv
<1>3. CASE \E batch \in Batches : Transact(batch)
    BY <1>3, TransactInv
<1>4. CASE TransactDatom
    BY <1>4, TransactDatomInv
<1>5. CASE \E a \in Attrs : CloseInput(a)
    BY <1>5, CloseInputDomainInv
<1>6. CASE \E next \in T : AdvanceDomain(next)
    BY <1>6, AdvanceDomainInv
<1>7. CASE Advance
    BY <1>7, AdvanceToEpochInv, AdvanceToSourcesInv, CatchUpInv DEF Advance
<1>8. CASE \E G \in SUBSET T : SourceDowngrade(G)
    BY <1>8, SourceDowngradeInv
<1>9. CASE WorkerStep
    BY <1>9, WorkerStepInv
<1>10. CASE Dead
    BY <1>1, <1>10 DEF Dead
<1>11. QED
    BY <1>1, <1>2, <1>3, <1>4, <1>5, <1>6, <1>7, <1>8, <1>9, <1>10 DEF Next

\* In every behaviour of the domain the inductive invariant holds throughout.
THEOREM DomainInvariant == Spec => []DomainInv
  BY InitDomainInv, NextDomainInv, PTL DEF Spec

\* Every variable of the domain keeps its type (the state of Domain and of its
\* input sessions).
THEOREM DomainTypeCorrect == Spec => []TypeOK
<1>1. DomainInv => TypeOK
    BY DEF DomainInv
<1>2. QED
    BY <1>1, DomainInvariant, PTL

\* Domain::advance never compacts a trace past what an open input session or
\* the probed source may still send, for every timestamp type.
THEOREM CompactionIsSafe == Spec => []CompactionBehindInputs
<1>1. DomainInv => CompactionBehindInputs
  <2> SUFFICES ASSUME DomainInv, NEW a \in inputs, NEW u \in session[a].buffer
               PROVE FrontierLessEqual(trace[a], u.time)
      BY DEF DomainInv, CompactionBehindInputs
  <2>1. a \in Attrs /\ session[a].cap \in T /\ u.time \in T /\ trace[a] \in SUBSET T
      BY DEF DomainInv, TypeOK, Session, Update
  <2>2. PICK f \in trace[a] : LessEqual(f, session[a].cap)
      BY DEF DomainInv, FrontierLessEqual
  <2>3. LessEqual(session[a].cap, u.time)
      BY DEF DomainInv
  <2>4. LessEqual(f, u.time)
      BY <2>1, <2>2, <2>3, TimeAssumption
  <2>5. QED
      BY <2>2, <2>4 DEF FrontierLessEqual
<1>2. QED
    BY <1>1, DomainInvariant, PTL

\* UnorderedSession never sends an update under a capability that is not at or
\* before its time, for every buffer size.
THEOREM ShippingIsSafe == Spec => []ShippedUnderValidCapability
<1>1. DomainInv => ShippedUnderValidCapability
    BY DEF DomainInv
<1>2. QED
    BY <1>1, DomainInvariant, PTL
-----------------------------------------------------------------------------
(***************************************************************************)
(* A domain whose attributes are all composed before time moves.           *)
(***************************************************************************)

\* The inputs are in lockstep with the epoch, no assertion of advance_to has
\* failed, and a source is only being registered while the epoch is minimal.
Steady ==
  /\ InputsInLockstep /\ SessionsNeverRewind
  /\ streams # {} => now_at = Minimum

\* What a step owes.
SteadyStep == Steady'

\* The composition of two domains at the minimum is at the minimum.
LEMMA ComposedAtMinimum == now_at = Minimum => ComposedEpoch = Minimum
  BY TimeAssumption, TimeOperatorAssumption DEF ComposedEpoch

\* The sessions are in lockstep after they are forwarded.
LEMMA ForwardInputsSteady ==
  ASSUME DomainInv, Steady, NEW next \in T, MayAdvanceEpoch(next), streams = {},
         ForwardInputs(next), UNCHANGED <<inputs, streams, panic>>
  PROVE  SteadyStep
<1>1. InputsMayAdvanceTo(next)
    BY DEF InputsMayAdvanceTo, MayAdvanceTo, MayAdvanceEpoch, Steady, InputsInLockstep
<1>2. now_at' = next /\ LessEqual(now_at, next)
    BY DEF ForwardInputs, MayAdvanceEpoch
<1>3. InputsInLockstep'
    BY <1>1, <1>2, ForwardInputsMoves DEF InputsInLockstep
<1>4. QED
    BY <1>2, <1>3 DEF SteadyStep, Steady, SessionsNeverRewind

\* A step that leaves the epoch and the sessions of the remaining inputs alone.
LEMMA StillSteady ==
  ASSUME DomainInv, Steady, now_at' = now_at, inputs' \subseteq inputs,
         \A a \in inputs' : /\ session'[a].time = session[a].time
                            /\ session'[a].cap = session[a].cap,
         streams' = {} \/ streams' = streams, panic' # "advance_to"
  PROVE  SteadyStep
<1>1. LessEqual(now_at, now_at)
    BY TimeAssumption DEF DomainInv, TypeOK
<1>2. QED
    BY <1>1 DEF SteadyStep, Steady, InputsInLockstep, SessionsNeverRewind

\* A panic other than that of advance_to.
LEMMA PanicSteady ==
  ASSUME DomainInv, Steady, NEW reason \in Panics \ {"advance_to"}, PanicWith(reason)
  PROVE  SteadyStep
  BY StillSteady DEF PanicWith, configVars, dataVars

\* Composition before time moves.
LEMMA ComposeSteady ==
  ASSUME ~LateComposition, DomainInv, Steady, Compose
  PROVE  SteadyStep
<1>1. ASSUME NEW a \in Attrs, NEW s \in Slacks \cup {None}, CreateAttribute(a, s)
      PROVE  SteadyStep
  <2>1. /\ now_at = Minimum /\ now_at' = Minimum /\ panic' = panic /\ streams' = streams
        /\ inputs' = inputs \cup {a} /\ session' = [session EXCEPT ![a] = NewSession]
        /\ a \notin inputs
      BY <1>1, ComposedAtMinimum
         DEF CreateAttribute, MayCompose, AddAttribute, TakeOverIdleProbe, DomainInv, TypeOK
  <2>2. session'[a].time = Minimum /\ session'[a].cap = Minimum
      BY <2>1 DEF NewSession, DomainInv, TypeOK
  <2>3. \A b \in inputs : session'[b] = session[b]
      BY <2>1, InvTypeOK DEF TypeOK
  <2>4. LessEqual(Minimum, Minimum)
      BY TimeAssumption
  <2>5. QED
      BY <2>1, <2>2, <2>3, <2>4
         DEF SteadyStep, Steady, InputsInLockstep, SessionsNeverRewind
<1>2. ASSUME NEW a \in Attrs, NEW s \in Slacks \cup {None}, AddTimelessStream(a, s)
      PROVE  SteadyStep
    BY <1>2, ComposedAtMinimum, StillSteady
       DEF AddTimelessStream, MayCompose, AddAttribute, TakeOverIdleProbe,
           Steady, SessionsNeverRewind
<1>3. ASSUME NEW a \in Attrs, AttributeClash(a)
      PROVE  SteadyStep
    BY Zenon, <1>3, PanicSteady DEF AttributeClash, Panics
<1>4. ASSUME NEW aids \in SUBSET Attrs, RegisterSource(aids)
      PROVE  SteadyStep
  <2>1. now_at = Minimum /\ UNCHANGED <<now_at, inputs, session, panic>>
      BY <1>4 DEF RegisterSource, MayCompose, configVars
  <2>2. QED
      BY <2>1, TimeAssumption
         DEF SteadyStep, Steady, InputsInLockstep, SessionsNeverRewind
<1>5. CASE RegisterStream
  <2>1. PICK a \in streams \ sourced :
          (\E s \in Slacks \cup {None} : ComposeStream(a, s)) \/ ComposeAnotherSource
      BY <1>5 DEF RegisterStream
  <2>2. CASE ComposeAnotherSource
      BY Zenon, <2>2, PanicSteady DEF ComposeAnotherSource, Panics
  <2>3. ASSUME NEW s \in Slacks \cup {None}, ComposeStream(a, s)
        PROVE  SteadyStep
      BY <2>1, <2>3, ComposedAtMinimum, StillSteady
         DEF ComposeStream, AddAttribute, Steady, SessionsNeverRewind
  <2>4. QED
      BY <2>1, <2>2, <2>3
<1>6. QED
    BY <1>1, <1>2, <1>3, <1>4, <1>5 DEF Compose

\* A transaction.
LEMMA TransactDatomSteady ==
  ASSUME DomainInv, Steady, TransactDatom
  PROVE  SteadyStep
<1> DEFINE d == Head(tx)
<1>1. d \in Datom
    BY NextDatom DEF TransactDatom
<1> HIDE DEF d
<1>2. ASSUME NEW t \in T, d.attr \in inputs, AcceptAt(d, t)
      PROVE  SteadyStep
  <2> DEFINE u == [id |-> Len(updates) + 1, time |-> t]
  <2>1. u \in Update
    <3>1. Len(updates) \in Nat
        BY InvTypeOK DEF TypeOK
    <3>2. QED
        BY <3>1 DEF Update
  <2>2. /\ UNCHANGED <<now_at, inputs, streams, panic>>
        /\ session' = [session EXCEPT ![d.attr] = Pushed(session[d.attr], u)]
      BY <1>2 DEF AcceptAt, configVars
  <2> HIDE DEF u
  <2>3. \A a \in inputs : /\ session'[a].time = session[a].time
                          /\ session'[a].cap = session[a].cap
    <3>1. session \in [Attrs -> Session] /\ inputs \in SUBSET Attrs
        BY InvTypeOK DEF TypeOK
    <3>2. /\ Pushed(session[d.attr], u).time = session[d.attr].time
          /\ Pushed(session[d.attr], u).cap = session[d.attr].cap
        BY <1>2, <2>1, <3>1, PushedType
    <3>3. QED
        BY <2>2, <3>1, <3>2
  <2>4. QED
      BY <2>2, <2>3, StillSteady DEF Steady, SessionsNeverRewind
<1>3. CASE TransactUpdate(d)
  <2>1. session[d.attr].cap \in T
      BY Zenon, <1>3 DEF TransactUpdate, DomainInv, TypeOK, Session
  <2>2. QED
      BY <1>2, <1>3, <2>1 DEF TransactUpdate, UpdateTime
<1>4. CASE TransactUpdateAt(d)
    BY <1>1, <1>2, <1>4 DEF TransactUpdateAt, Datom
<1>5. CASE TransactTooEarly(d)
    BY Zenon, <1>5, PanicSteady DEF TransactTooEarly, Panics
<1>6. CASE TransactNotFound(d)
    BY <1>6, StillSteady DEF TransactNotFound, configVars, Steady, SessionsNeverRewind
<1>7. QED
    BY <1>3, <1>4, <1>5, <1>6 DEF TransactDatom, d

\* Every step of a domain that is composed up front keeps it steady.
LEMMA NextSteady ==
  ASSUME ~LateComposition, DomainInv, Steady, [Next]_vars
  PROVE  SteadyStep
<1>1. CASE UNCHANGED vars
    BY <1>1, StillSteady DEF vars, Steady, SessionsNeverRewind
<1>2. CASE Compose
    BY <1>2, ComposeSteady
<1>3. CASE \E batch \in Batches : Transact(batch)
    BY <1>3, StillSteady DEF Transact, configVars, Steady, SessionsNeverRewind
<1>4. CASE TransactDatom
    BY <1>4, TransactDatomSteady
<1>5. ASSUME NEW a \in Attrs, CloseInput(a)
      PROVE  SteadyStep
  <2>1. /\ UNCHANGED <<now_at, streams, panic>> /\ inputs' = inputs \ {a}
        /\ session' = [session EXCEPT ![a] = Flushed(session[a])]
      BY <1>5 DEF CloseInput
  <2>2. \A b \in inputs' : session'[b] = session[b]
      BY <2>1, InvTypeOK DEF TypeOK
  <2>3. QED
      BY <2>1, <2>2, StillSteady DEF Steady, SessionsNeverRewind
<1>6. ASSUME NEW next \in T, AdvanceDomain(next)
      PROVE  SteadyStep
  <2>1. MayAdvanceEpoch(next) /\ streams = {}
      BY <1>6 DEF AdvanceDomain, Idle
  <2>2. InputsMayAdvanceTo(next)
      BY <2>1 DEF InputsMayAdvanceTo, MayAdvanceTo, MayAdvanceEpoch, Steady, InputsInLockstep
  <2>3. QED
      BY <1>6, <2>1, <2>2, ForwardInputsSteady DEF AdvanceDomain, configVars
<1>7. CASE AdvanceToEpoch \/ AdvanceToSources
    BY <1>7, StillSteady
       DEF AdvanceToEpoch, AdvanceToSources, configVars, dataVars, Steady, SessionsNeverRewind
<1>8. CASE CatchUpWithSources
  <2> DEFINE next == OrdMax(domain_probe)
  <2>1. next \in T /\ streams = {}
      BY Zenon, <1>8, TimeOperatorAssumption DEF CatchUpWithSources, Idle, DomainInv, TypeOK
  <2>2. CASE PanicWith("advance")
      BY Zenon, <2>2, PanicSteady DEF Panics
  <2>3. CASE MayAdvanceEpoch(next)
    <3>1. InputsMayAdvanceTo(next)
        BY <2>3 DEF InputsMayAdvanceTo, MayAdvanceTo, MayAdvanceEpoch, Steady, InputsInLockstep
    <3>2. ForwardInputs(next) /\ UNCHANGED <<inputs, streams, panic>>
        BY <1>8, <2>3, <3>1 DEF CatchUpWithSources, configVars
    <3>3. QED
        BY <2>1, <2>3, <3>2, ForwardInputsSteady
  <2>4. QED
      BY <1>8, <2>2, <2>3 DEF CatchUpWithSources
<1>9. CASE \E G \in SUBSET T : SourceDowngrade(G)
    BY <1>9, StillSteady
       DEF SourceDowngrade, configVars, dataVars, Steady, SessionsNeverRewind
<1>10. CASE WorkerStep
    BY <1>10, StillSteady DEF WorkerStep, configVars, dataVars, Steady, SessionsNeverRewind
<1>11. CASE Dead
    BY <1>1, <1>11 DEF Dead
<1>12. QED
    BY <1>1, <1>2, <1>3, <1>4, <1>5, <1>6, <1>7, <1>8, <1>9, <1>10, <1>11
       DEF Next, Advance

\* A domain whose attributes are composed before time moves stays steady.
THEOREM DomainSteady == ASSUME ~LateComposition PROVE Spec => []Steady
<1>1. Init => Steady
    BY DEF Init, Steady, InputsInLockstep, SessionsNeverRewind
<1>2. DomainInv /\ Steady /\ [Next]_vars => Steady'
    BY NextSteady DEF SteadyStep
<1>3. QED
    BY <1>1, <1>2, DomainInvariant, PTL DEF Spec

\* In such a domain every open input is exactly at the domain epoch.
THEOREM LockstepIfComposedUpFront ==
  ASSUME ~LateComposition PROVE Spec => []InputsInLockstep
<1>1. Steady => InputsInLockstep
    BY DEF Steady
<1>2. QED
    BY <1>1, DomainSteady, PTL

\* In such a domain the assertions of UnorderedSession::advance_to never fail.
THEOREM NoSessionRewindIfComposedUpFront ==
  ASSUME ~LateComposition PROVE Spec => []SessionsNeverRewind
<1>1. Steady => SessionsNeverRewind
    BY DEF Steady
<1>2. QED
    BY <1>1, DomainSteady, PTL
=============================================================================
