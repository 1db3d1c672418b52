------------------------------ MODULE LoopProofs ------------------------------
(***************************************************************************)
(* Proofs about the data of a Domain (what was transacted is delivered     *)
(* once, and traces do not move back), and about the domain in the command *)
(* loop, for every set of attributes, every bound on time and              *)
(* transactions, and both builds.                                          *)
(***************************************************************************)
EXTENDS CommandLoop, DomainProofs

-----------------------------------------------------------------------------
(* Every datom a domain accepts is delivered exactly once: the proof of    *)
(* NoUpdateLostOrDuplicated.                                               *)

\* What a session buffers was accepted for its attribute at that time, and
\* only open sessions buffer anything.
BufferedWasAccepted ==
  \A a \in Attrs : \A u \in session[a].buffer :
    /\ a \in inputs /\ u.id \in DOMAIN updates
    /\ updates[u.id].attr = a /\ updates[u.id].time = u.time

\* What was shipped was accepted at that time, and is not buffered any more.
ShippedWasAccepted ==
  \A m \in shipped :
    /\ m.id \in DOMAIN updates /\ updates[m.id].time = m.time
    /\ \A a \in Attrs : \A u \in session[a].buffer : u.id # m.id

\* No update is in two messages.
ShippedOnce == \A m, n \in shipped : m.id = n.id => m = n

\* Every accepted update is somewhere.
AcceptedIsKept ==
  \A id \in DOMAIN updates :
    \/ \E m \in shipped : m.id = id
    \/ \E u \in session[updates[id].attr].buffer : u.id = id

\* The inductive strengthening of NoUpdateLostOrDuplicated.
DeliveryInv == BufferedWasAccepted /\ ShippedWasAccepted /\ ShippedOnce /\ AcceptedIsKept

\* The elements of a sequence over S are in S.
LEMMA ElementOfSequence ==
  ASSUME NEW S, NEW q \in Seq(S), NEW i \in 1..Len(q)
  PROVE  q[i] \in S
  OBVIOUS

\* The history of accepted updates, by index.
LEMMA UpdatesType ==
  DomainInv => /\ DOMAIN updates = 1..Len(updates) /\ Len(updates) \in Nat
               /\ \A id \in DOMAIN updates : /\ updates[id].attr \in Attrs
                                             /\ updates[id].time \in T
<1> SUFFICES ASSUME DomainInv
             PROVE  /\ DOMAIN updates = 1..Len(updates) /\ Len(updates) \in Nat
                    /\ \A id \in DOMAIN updates : /\ updates[id].attr \in Attrs
                                                  /\ updates[id].time \in T
    OBVIOUS
<1>1. updates \in Seq([attr : Attrs, time : T])
    BY DEF DomainInv, TypeOK
<1>2. DOMAIN updates = 1..Len(updates) /\ Len(updates) \in Nat
    BY <1>1
<1>3. \A id \in DOMAIN updates : updates[id] \in [attr : Attrs, time : T]
    BY <1>1, <1>2, ElementOfSequence
<1>4. QED
    BY <1>2, <1>3

\* The strengthening implies the property.
LEMMA DeliveryInvSuffices == DomainInv /\ DeliveryInv => NoUpdateLostOrDuplicated
<1> SUFFICES ASSUME DomainInv, DeliveryInv, NEW id \in DOMAIN updates
             PROVE  \/ /\ updates[id].attr \in inputs
                       /\ [id |-> id, time |-> updates[id].time]
                            \in session[updates[id].attr].buffer
                       /\ BufferedIn(id) = {updates[id].attr} /\ MessagesOf(id) = {}
                    \/ /\ BufferedIn(id) = {}
                       /\ \E m \in shipped : m.time = updates[id].time
                                             /\ MessagesOf(id) = {m}
    BY DEF NoUpdateLostOrDuplicated
<1> DEFINE b == updates[id].attr
<1>1. b \in Attrs
    BY UpdatesType
<1>2. CASE \E m \in shipped : m.id = id
  <2>1. PICK m \in shipped : m.id = id
      BY <1>2
  <2>2. m.time = updates[id].time /\ MessagesOf(id) = {m}
      BY <2>1 DEF DeliveryInv, ShippedWasAccepted, ShippedOnce, MessagesOf
  <2>3. BufferedIn(id) = {}
      BY <2>1 DEF DeliveryInv, ShippedWasAccepted, BufferedIn
  <2>4. QED
      BY <2>1, <2>2, <2>3
<1>3. CASE ~\E m \in shipped : m.id = id
  <2>1. PICK u \in session[b].buffer : u.id = id
      BY <1>3 DEF DeliveryInv, AcceptedIsKept
  <2>2. u \in Update /\ u.time = updates[id].time /\ b \in inputs
      BY <1>1, <2>1 DEF DeliveryInv, BufferedWasAccepted, DomainInv, TypeOK, Session
  <2>3. u = [id |-> id, time |-> updates[id].time]
      BY <2>1, <2>2 DEF Update
  <2>4. BufferedIn(id) = {b}
      BY <1>1, <2>1 DEF DeliveryInv, BufferedWasAccepted, BufferedIn
  <2>5. MessagesOf(id) = {}
      BY <1>3 DEF MessagesOf
  <2>6. QED
      BY <2>1, <2>2, <2>3, <2>4, <2>5
<1>4. QED
    BY <1>2, <1>3

\* The general step: the sessions of the attributes S are drained into
\* messages, no other buffer and no accepted update changes.
LEMMA DrainingDelivers ==
  ASSUME DomainInv, DeliveryInv, NEW S \in SUBSET Attrs,
         updates' = updates,
         \A a \in S : session'[a].buffer = {},
         \A a \in Attrs \ S : session'[a].buffer = session[a].buffer,
         \A a \in Attrs \ S : a \in inputs /\ session[a].buffer # {} => a \in inputs',
         shipped \subseteq shipped',
         \A a \in S : Drained(session[a]) \subseteq shipped',
         \A m \in shipped' \ shipped : \E a \in S : m \in Drained(session[a])
  PROVE  DeliveryInv'
<1>1. BufferedWasAccepted'
    BY DEF DeliveryInv, BufferedWasAccepted
<1>2. ASSUME NEW m \in shipped', m \notin shipped
      PROVE  \E a \in S : \E u \in session[a].buffer : u.id = m.id /\ u.time = m.time
                            /\ m = [id |-> u.id, time |-> u.time, cap |-> session[a].cap]
    BY <1>2 DEF Drained
<1>3. ASSUME NEW m \in shipped', m \notin shipped
      PROVE  /\ m.id \in DOMAIN updates /\ updates[m.id].time = m.time
             /\ \A n \in shipped : n.id # m.id
             /\ \A a \in Attrs \ S : \A u \in session[a].buffer : u.id # m.id
  <2>1. PICK a \in S : \E u \in session[a].buffer : u.id = m.id /\ u.time = m.time
      BY <1>2, <1>3
  <2>2. PICK u \in session[a].buffer : u.id = m.id /\ u.time = m.time
      BY <2>1
  <2>3. m.id \in DOMAIN updates /\ updates[m.id].time = m.time /\ updates[m.id].attr = a
      BY <2>1, <2>2 DEF DeliveryInv, BufferedWasAccepted
  <2>4. \A n \in shipped : n.id # m.id
      BY <2>2 DEF DeliveryInv, ShippedWasAccepted
  <2>5. \A c \in Attrs \ S : \A v \in session[c].buffer : v.id # m.id
      BY <2>1, <2>3 DEF DeliveryInv, BufferedWasAccepted
  <2>6. QED
      BY <2>3, <2>4, <2>5
<1>4. ShippedWasAccepted'
  <2>1. ASSUME NEW m \in shipped', NEW a \in Attrs, NEW u \in session'[a].buffer
        PROVE  u.id # m.id
    <3>1. a \in Attrs \ S /\ u \in session[a].buffer
        OBVIOUS
    <3>2. QED
        BY <1>3, <3>1 DEF DeliveryInv, ShippedWasAccepted
  <2>2. ASSUME NEW m \in shipped'
        PROVE  m.id \in DOMAIN updates /\ updates[m.id].time = m.time
      BY <1>3 DEF DeliveryInv, ShippedWasAccepted
  <2>3. QED
      BY <2>1, <2>2 DEF ShippedWasAccepted
<1>5. ShippedOnce'
  <2>1. ASSUME NEW m \in shipped', NEW n \in shipped', m.id = n.id,
               m \notin shipped, n \notin shipped
        PROVE  m = n
    <3>1. PICK a \in S : \E u \in session[a].buffer : u.id = m.id /\ u.time = m.time
                 /\ m = [id |-> u.id, time |-> u.time, cap |-> session[a].cap]
        BY <1>2, <2>1
    <3>2. PICK c \in S : \E v \in session[c].buffer : v.id = n.id /\ v.time = n.time
                 /\ n = [id |-> v.id, time |-> v.time, cap |-> session[c].cap]
        BY <1>2, <2>1
    <3>3. a = updates[m.id].attr /\ m.time = updates[m.id].time
        BY <3>1 DEF DeliveryInv, BufferedWasAccepted
    <3>4. c = updates[n.id].attr /\ n.time = updates[n.id].time
        BY <3>2 DEF DeliveryInv, BufferedWasAccepted
    <3>5. a = c /\ m.time = n.time
        BY <2>1, <3>3, <3>4
    <3>6. QED
        BY <2>1, <3>1, <3>2, <3>5
  <2>2. QED
      BY <1>3, <2>1 DEF DeliveryInv, ShippedOnce
<1>6. AcceptedIsKept'
  <2>1. SUFFICES ASSUME NEW id \in DOMAIN updates
                 PROVE  \/ \E m \in shipped' : m.id = id
                        \/ \E u \in session'[updates[id].attr].buffer : u.id = id
      BY DEF AcceptedIsKept
  <2>2. CASE \E m \in shipped : m.id = id
      BY <2>2
  <2>3. CASE \E u \in session[updates[id].attr].buffer : u.id = id
    <3> DEFINE b == updates[id].attr
    <3>1. b \in Attrs
        BY UpdatesType
    <3>2. CASE b \in S
      <4>1. PICK u \in session[b].buffer : u.id = id
          BY <2>3
      <4>2. [id |-> u.id, time |-> u.time, cap |-> session[b].cap] \in shipped'
          BY <3>2, <4>1 DEF Drained
      <4>3. QED
          BY <4>1, <4>2
    <3>3. CASE b \notin S
        BY <2>3, <3>1, <3>3
    <3>4. QED
        BY <3>2, <3>3
  <2>4. QED
      BY <2>2, <2>3 DEF DeliveryInv, AcceptedIsKept
<1>7. QED
    BY <1>1, <1>4, <1>5, <1>6 DEF DeliveryInv

\* A step that leaves the buffers alone.
LEMMA QuietDelivers ==
  ASSUME DomainInv, DeliveryInv, UNCHANGED <<updates, shipped>>, inputs \subseteq inputs',
         \A a \in Attrs : session'[a].buffer = session[a].buffer
  PROVE  DeliveryInv'
<1>1. {} \in SUBSET Attrs
    OBVIOUS
<1>2. \A a \in Attrs \ {} : a \in inputs /\ session[a].buffer # {} => a \in inputs'
    OBVIOUS
<1>3. QED
    BY <1>1, <1>2, DrainingDelivers

\* Accepting a datom, with or without draining a full buffer first.
LEMMA AcceptAtDelivers ==
  ASSUME DomainInv, DeliveryInv, NEW t \in T, NEW d \in Datom, d.attr \in inputs,
         AcceptAt(d, t)
  PROVE  DeliveryInv'
<1> DEFINE a == d.attr
           n == Len(updates) + 1
           u == [id |-> n, time |-> t]
<1>1. /\ a \in Attrs /\ session \in [Attrs -> Session] /\ n \in Nat /\ inputs' = inputs
      /\ \A id \in DOMAIN updates : id \in Nat /\ id < n
  <2>1. a \in Attrs /\ session \in [Attrs -> Session]
      BY InvTypeOK DEF TypeOK, Datom
  <2>2. inputs' = inputs
      BY DEF AcceptAt, configVars
  <2>3. QED
      BY <2>1, <2>2, UpdatesType
<1>2. /\ DOMAIN updates' = DOMAIN updates \cup {n}
      /\ \A id \in DOMAIN updates : updates'[id] = updates[id]
      /\ updates'[n].attr = a /\ updates'[n].time = t
  <2>1. updates' = Append(updates, [attr |-> a, time |-> t])
      BY DEF AcceptAt
  <2>2. updates \in Seq([attr : Attrs, time : T]) /\ [attr |-> a, time |-> t] \in [attr : Attrs, time : T]
      BY <1>1 DEF DomainInv, TypeOK
  <2>3. QED
      BY <2>1, <2>2
<1>3. /\ session'[a].buffer = IF IsFull(session[a]) THEN {u} ELSE session[a].buffer \cup {u}
      /\ \A c \in Attrs \ {a} : session'[c] = session[c]
      /\ shipped' = shipped \cup (IF IsFull(session[a]) THEN Drained(session[a]) ELSE {})
  <2>1. /\ session' = [session EXCEPT ![a] = Pushed(session[a], u)]
        /\ shipped' = shipped \cup ShippedByPush(session[a])
      BY DEF AcceptAt
  <2>2. session[a] \in Session
      BY <1>1
  <2>3. Pushed(session[a], u).buffer
          = IF IsFull(session[a]) THEN {u} ELSE session[a].buffer \cup {u}
      BY <2>2 DEF Pushed, Session
  <2>4. QED
      BY <1>1, <2>1, <2>3 DEF ShippedByPush
<1>4. u.id = n /\ u.time = t
    OBVIOUS
<1> HIDE DEF a, n, u
<1>5. BufferedWasAccepted'
  <2>1. SUFFICES ASSUME NEW c \in Attrs, NEW v \in session'[c].buffer
                 PROVE  /\ c \in inputs' /\ v.id \in DOMAIN updates'
                        /\ updates'[v.id].attr = c /\ updates'[v.id].time = v.time
      BY DEF BufferedWasAccepted
  <2>2. CASE v \in session[c].buffer
      BY <1>1, <1>2, <2>2 DEF DeliveryInv, BufferedWasAccepted
  <2>3. CASE v \notin session[c].buffer
    <3>1. c = a /\ v = u
        BY <1>3, <2>3
    <3>2. QED
        BY <1>1, <1>2, <1>4, <3>1 DEF a
  <2>4. QED
      BY <2>2, <2>3
<1>6. ASSUME NEW m \in shipped'
      PROVE  \/ m \in shipped
             \/ /\ IsFull(session[a])
                /\ \E v \in session[a].buffer :
                     m = [id |-> v.id, time |-> v.time, cap |-> session[a].cap]
    BY <1>3 DEF Drained
<1>7. ShippedWasAccepted'
  <2>1. ASSUME NEW m \in shipped'
        PROVE  m.id \in DOMAIN updates /\ updates[m.id].time = m.time
      BY <1>1, <1>6 DEF DeliveryInv, BufferedWasAccepted, ShippedWasAccepted
  <2>2. ASSUME NEW m \in shipped', NEW c \in Attrs, NEW v \in session'[c].buffer
        PROVE  v.id # m.id
    <3>1. CASE v = u
        BY <1>1, <1>4, <2>1, <3>1
    <3>2. CASE v # u
      <4>1. v \in session[c].buffer /\ ~(c = a /\ IsFull(session[a]))
          BY <1>3, <3>2
      <4>2. CASE m \in shipped
          BY <4>1, <4>2 DEF DeliveryInv, ShippedWasAccepted
      <4>3. CASE m \notin shipped
        <5>1. updates[m.id].attr = a /\ c # a
            BY <1>1, <1>6, <4>1, <4>3 DEF DeliveryInv, BufferedWasAccepted
        <5>2. updates[v.id].attr = c
            BY <4>1 DEF DeliveryInv, BufferedWasAccepted
        <5>3. QED
            BY <5>1, <5>2
      <4>4. QED
          BY <4>2, <4>3
    <3>3. QED
        BY <3>1, <3>2
  <2>3. QED
      BY <1>2, <2>1, <2>2 DEF ShippedWasAccepted
<1>8. ShippedOnce'
  <2>1. SUFFICES ASSUME NEW m \in shipped', NEW k \in shipped', m.id = k.id
                 PROVE  m = k
      BY DEF ShippedOnce
  <2>2. CASE m \in shipped /\ k \in shipped
      BY <2>1, <2>2 DEF DeliveryInv, ShippedOnce
  <2>3. CASE m \notin shipped /\ k \notin shipped
    <3>1. PICK v \in session[a].buffer :
            m = [id |-> v.id, time |-> v.time, cap |-> session[a].cap]
        BY <1>6, <2>3
    <3>2. PICK w \in session[a].buffer :
            k = [id |-> w.id, time |-> w.time, cap |-> session[a].cap]
        BY <1>6, <2>3
    <3>3. v.id = w.id
        BY <2>1, <3>1, <3>2
    <3>4. v.time = w.time
        BY <1>1, <3>3 DEF DeliveryInv, BufferedWasAccepted
    <3>5. QED
        BY <3>1, <3>2, <3>3, <3>4
  <2>4. CASE (m \in shipped) # (k \in shipped)
      BY <1>1, <1>6, <2>1, <2>4 DEF DeliveryInv, ShippedWasAccepted
  <2>5. QED
      BY <2>2, <2>3, <2>4
<1>9. AcceptedIsKept'
  <2>1. SUFFICES ASSUME NEW id \in DOMAIN updates'
                 PROVE  \/ \E m \in shipped' : m.id = id
                        \/ \E v \in session'[updates'[id].attr].buffer : v.id = id
      BY DEF AcceptedIsKept
  <2>2. CASE id = n
      BY <1>2, <1>3, <1>4, <2>2
  <2>3. CASE id \in DOMAIN updates /\ \E m \in shipped : m.id = id
      BY <1>3, <2>3
  <2>4. CASE id \in DOMAIN updates /\ \E v \in session[updates[id].attr].buffer : v.id = id
    <3>1. PICK v \in session[updates[id].attr].buffer : v.id = id
        BY <2>4
    <3>2. CASE updates[id].attr = a /\ IsFull(session[a])
      <4>1. [id |-> v.id, time |-> v.time, cap |-> session[a].cap] \in shipped'
          BY <1>3, <3>1, <3>2 DEF Drained
      <4>2. QED
          BY <3>1, <4>1
    <3>3. CASE ~(updates[id].attr = a /\ IsFull(session[a]))
      <4>1. v \in session'[updates[id].attr].buffer
          BY <1>3, <2>4, <3>1, <3>3, UpdatesType
      <4>2. QED
          BY <1>2, <2>4, <3>1, <4>1
    <3>4. QED
        BY <3>2, <3>3
  <2>5. QED
      BY <1>2, <2>1, <2>2, <2>3, <2>4 DEF DeliveryInv, AcceptedIsKept
<1>10. QED
    BY <1>5, <1>7, <1>8, <1>9 DEF DeliveryInv

\* Forwarding the inputs drains all of them.
LEMMA ForwardInputsDelivers ==
  ASSUME DomainInv, DeliveryInv, NEW next \in T, ForwardInputs(next),
         UNCHANGED <<inputs, updates>>
  PROVE  DeliveryInv'
<1>1. inputs \in SUBSET Attrs /\ session \in [Attrs -> Session]
    BY DEF DomainInv, TypeOK
<1>2. \A a \in inputs : session'[a].buffer = {}
    BY <1>1, ForwardedType DEF ForwardInputs
<1>3. \A a \in Attrs \ inputs : session'[a].buffer = session[a].buffer
    BY <1>1 DEF ForwardInputs
<1>4. ASSUME NEW a \in inputs
      PROVE  ShippedByFlush(AdvancedTo(session[a], next)) = Drained(session[a])
  <2>1. /\ AdvancedTo(session[a], next).cap = session[a].cap
        /\ AdvancedTo(session[a], next).buffer = session[a].buffer
      BY <1>1 DEF AdvancedTo, Session
  <2>2. QED
      BY <2>1 DEF ShippedByFlush, Drained
<1>5. /\ shipped \subseteq shipped'
      /\ \A a \in inputs : Drained(session[a]) \subseteq shipped'
      /\ \A m \in shipped' \ shipped : \E a \in inputs : m \in Drained(session[a])
    BY <1>4 DEF ForwardInputs
<1>6. QED
    BY <1>1, <1>2, <1>3, <1>5, DrainingDelivers

\* Closing an input drains it.
LEMMA CloseInputDelivers ==
  ASSUME DomainInv, DeliveryInv, NEW a \in Attrs, CloseInput(a)
  PROVE  DeliveryInv'
<1>1. session \in [Attrs -> Session]
    BY DEF DomainInv, TypeOK
<1>2. /\ session' = [session EXCEPT ![a] = Flushed(session[a])]
      /\ inputs' = inputs \ {a} /\ updates' = updates
      /\ shipped' = shipped \cup Drained(session[a])
    BY DEF CloseInput, ShippedByFlush
<1>3. /\ \A c \in {a} : session'[c].buffer = {}
      /\ \A c \in Attrs \ {a} : session'[c].buffer = session[c].buffer
    BY <1>1, <1>2, FlushedType
<1>4. /\ {a} \in SUBSET Attrs /\ shipped \subseteq shipped'
      /\ \A c \in {a} : Drained(session[c]) \subseteq shipped'
      /\ \A m \in shipped' \ shipped : \E c \in {a} : m \in Drained(session[c])
      /\ \A c \in Attrs \ {a} : c \in inputs /\ session[c].buffer # {} => c \in inputs'
    BY <1>2
<1>5. QED
    BY <1>2, <1>3, <1>4, DrainingDelivers

\* Every outcome of the next datom.
LEMMA TransactDatomDelivers ==
  ASSUME DomainInv, DeliveryInv, TransactDatom
  PROVE  DeliveryInv'
<1> DEFINE d == Head(tx)
<1>1. d \in Datom
    BY NextDatom DEF TransactDatom
<1> HIDE DEF d
<1>2. CASE TransactUpdate(d)
  <2>1. session[d.attr].cap \in T
      BY <1>2 DEF TransactUpdate, DomainInv, TypeOK, Session
  <2>2. QED
      BY <1>1, <1>2, <2>1, AcceptAtDelivers DEF TransactUpdate, UpdateTime
<1>3. CASE TransactUpdateAt(d)
    BY <1>1, <1>3, AcceptAtDelivers DEF TransactUpdateAt, Datom
<1>4. CASE TransactTooEarly(d) \/ TransactNotFound(d)
    BY <1>4, QuietDelivers
       DEF TransactTooEarly, TransactNotFound, PanicWith, configVars, dataVars
<1>5. QED
    BY <1>2, <1>3, <1>4 DEF TransactDatom, d

\* A new attribute's session is as empty as the place it takes.
LEMMA ComposeDelivers ==
  ASSUME DomainInv, DeliveryInv, Compose
  PROVE  DeliveryInv'
<1>1. ASSUME NEW a \in Attrs, NEW s \in Slacks \cup {None}, CreateAttribute(a, s)
      PROVE  DeliveryInv'
  <2>1. /\ a \notin inputs /\ session \in [Attrs -> Session]
        /\ session' = [session EXCEPT ![a] = NewSession]
        /\ UNCHANGED <<updates, shipped>> /\ inputs' = inputs \cup {a}
      BY <1>1 DEF CreateAttribute, AddAttribute, DomainInv, TypeOK
  <2>2. session[a].buffer = {}
      BY <2>1 DEF DeliveryInv, BufferedWasAccepted
  <2>3. \A c \in Attrs : session'[c].buffer = session[c].buffer
      BY <2>1, <2>2 DEF NewSession
  <2>4. QED
      BY <2>1, <2>3, QuietDelivers
<1>2. ASSUME NEW a \in Attrs, NEW s \in Slacks \cup {None}, AddTimelessStream(a, s)
      PROVE  DeliveryInv'
    BY <1>2, QuietDelivers DEF AddTimelessStream, AddAttribute
<1>3. ASSUME NEW a \in Attrs, AttributeClash(a)
      PROVE  DeliveryInv'
    BY <1>3, QuietDelivers DEF AttributeClash, PanicWith, configVars, dataVars
<1>4. ASSUME NEW aids \in SUBSET Attrs, RegisterSource(aids)
      PROVE  DeliveryInv'
    BY <1>4, QuietDelivers DEF RegisterSource, configVars
<1>5. CASE RegisterStream
    BY <1>5, QuietDelivers
       DEF RegisterStream, ComposeStream, AddAttribute, ComposeAnotherSource, PanicWith,
           configVars, dataVars
<1>6. QED
    BY <1>1, <1>2, <1>3, <1>4, <1>5 DEF Compose

\* DeliveryInv is inductive.
LEMMA NextDelivers ==
  ASSUME DomainInv, DeliveryInv, [Next]_vars
  PROVE  DeliveryInv'
<1>1. CASE UNCHANGED vars
    BY <1>1, QuietDelivers DEF vars
<1>2. CASE Compose
    BY <1>2, ComposeDelivers
<1>3. CASE \E batch \in Batches : Transact(batch)
    BY <1>3, QuietDelivers DEF Transact, configVars
<1>4. CASE TransactDatom
    BY <1>4, TransactDatomDelivers
<1>5. CASE \E a \in Attrs : CloseInput(a)
    BY <1>5, CloseInputDelivers
<1>6. CASE \E next \in T : AdvanceDomain(next)
    BY <1>6, ForwardInputsDelivers, QuietDelivers
       DEF AdvanceDomain, PanicWith, configVars, dataVars
<1>7. CASE AdvanceToEpoch \/ AdvanceToSources
    BY <1>7, QuietDelivers DEF AdvanceToEpoch, AdvanceToSources, configVars, dataVars
<1>8. CASE CatchUpWithSources
  <2>1. OrdMax(domain_probe) \in T
      BY <1>8, TimeOperatorAssumption DEF CatchUpWithSources, DomainInv, TypeOK
  <2>2. QED
      BY <1>8, <2>1, ForwardInputsDelivers, QuietDelivers
         DEF CatchUpWithSources, PanicWith, configVars, dataVars
<1>9. CASE (\E G \in SUBSET T : SourceDowngrade(G)) \/ WorkerStep
    BY <1>9, QuietDelivers DEF SourceDowngrade, WorkerStep, configVars, dataVars
<1>10. CASE Dead
    BY <1>1, <1>10 DEF Dead
<1>11. QED
    BY <1>1, <1>2, <1>3, <1>4, <1>5, <1>6, <1>7, <1>8, <1>9, <1>10 DEF Next, Advance

\* Domain::transact, the buffers of UnorderedSession, advance_epoch and
\* close_input neither lose an accepted datom nor deliver it twice.
THEOREM DeliveredExactlyOnce == Spec => []NoUpdateLostOrDuplicated
<1>1. Init => DeliveryInv
    BY DEF Init, DeliveryInv, BufferedWasAccepted, ShippedWasAccepted, ShippedOnce,
           AcceptedIsKept, NewSession
<1>2. DomainInv /\ DeliveryInv /\ [Next]_vars => DeliveryInv'
    BY NextDelivers
<1>3. QED
    BY <1>1, <1>2, DeliveryInvSuffices, DomainInvariant, PTL DEF Spec
-----------------------------------------------------------------------------
(* In totally ordered time traces never move back: the proof of            *)
(* TracesNeverMoveBack.                                                    *)

\* What a step may do to the traces.
TracesStep ==
  \A a \in attributes :
    \/ FrontierReached(trace[a], trace'[a])
    \/ slack[a] # None /\ ~FrontierReached({slack[a]}, last_advance)

\* A frontier has reached itself.
LEMMA ReachedReflexive ==
  ASSUME NEW F \in SUBSET T
  PROVE  FrontierReached(F, F)
  BY TimeAssumption DEF FrontierReached, FrontierLessEqual

\* Steps that leave traces and configurations alone.
LEMMA QuietTraces ==
  ASSUME DomainInv, TracesAtLastAdvance, UNCHANGED <<attributes, slack, trace, last_advance>>,
         IsAntichain(source)', IsAntichain(domain_probe)'
  PROVE  TracesAtLastAdvance' /\ TracesStep
<1>1. \A a \in attributes : trace'[a] = trace[a] /\ trace[a] \in SUBSET T
    BY DEF DomainInv, TypeOK
<1>2. TracesStep
    BY <1>1, ReachedReflexive DEF TracesStep
<1>3. QED
    BY <1>2 DEF TracesAtLastAdvance

\* The traces of a new attribute start at the minimum, and no others move.
LEMMA AddAttributeTraces ==
  ASSUME DomainInv, TracesAtLastAdvance, NEW a \in Attrs \ attributes, NEW s, AddAttribute(a, s),
         IsAntichain(source)', IsAntichain(domain_probe)'
  PROVE  TracesAtLastAdvance' /\ TracesStep
<1>1. /\ attributes' = attributes \cup {a} /\ slack' = [slack EXCEPT ![a] = s]
      /\ trace' = [trace EXCEPT ![a] = {Minimum}] /\ last_advance' = last_advance
    BY DEF AddAttribute
<1>2. /\ attributes \in SUBSET Attrs /\ slack \in [Attrs -> T \cup {None}]
      /\ trace \in [Attrs -> SUBSET T]
    BY DEF DomainInv, TypeOK
<1>3. trace'[a] = {Minimum}
    BY <1>1, <1>2
<1>4. \A b \in attributes : trace'[b] = trace[b] /\ slack'[b] = slack[b] /\ trace[b] \in SUBSET T
    BY <1>1, <1>2
<1>5. TracesStep
    BY <1>4, ReachedReflexive DEF TracesStep
<1>6. ASSUME NEW b \in attributes'
      PROVE  \/ trace'[b] = {Minimum}
             \/ slack'[b] # None /\ trace'[b] = {Rewind(t, slack'[b]) : t \in last_advance'}
  <2>1. CASE b = a
      BY <1>3, <2>1
  <2>2. CASE b # a
    <3>1. b \in attributes
        BY <1>1, <2>2
    <3>2. QED
        BY <1>1, <1>4, <3>1 DEF TracesAtLastAdvance
  <2>3. QED
      BY <2>1, <2>2
<1>7. QED
    BY <1>5, <1>6 DEF TracesAtLastAdvance

\* A trace that follows the last advance is not behind what that advance was,
\* once all of it is past the slack.
LEMMA RewoundForward ==
  ASSUME LinearTimes, NEW L \in SUBSET T, NEW F \in SUBSET T, NEW k \in T, IsAntichain(F),
         NEW t \in F, FrontierLessThan(L, t), FrontierReached({k}, L)
  PROVE  FrontierReached({Rewind(l, k) : l \in L}, {Rewind(f, k) : f \in F})
<1>1. PICK l \in L : LessThan(l, t)
    BY DEF FrontierLessThan
<1>2. LessEqual(k, l) /\ LessEqual(l, t) /\ l \in T /\ t \in T
    BY <1>1 DEF FrontierReached, FrontierLessEqual, LessThan
<1>3. \A f \in F : f = t
    BY DEF LinearTimes, IsAntichain
<1>4. LessEqual(Rewind(l, k), Rewind(t, k))
    BY <1>2 DEF LinearTimes
<1>5. QED
    BY <1>3, <1>4 DEF FrontierReached, FrontierLessEqual

\* advance_traces only moves traces forward.
LEMMA AdvanceTracesForward ==
  ASSUME LinearTimes, DomainInv, TracesAtLastAdvance, NEW F \in SUBSET T, IsAntichain(F),
         AdvanceTraces(F), UNCHANGED <<attributes, slack, source, domain_probe>>
  PROVE  TracesAtLastAdvance' /\ TracesStep
<1>1. /\ attributes \in SUBSET Attrs /\ slack \in [Attrs -> T \cup {None}]
      /\ trace \in [Attrs -> SUBSET T] /\ last_advance \in SUBSET T
    BY DEF DomainInv, TypeOK
<1>2. IsAntichain(source)' /\ IsAntichain(domain_probe)'
    BY DEF TracesAtLastAdvance, IsAntichain
<1>3. CASE ~ \E t \in F : FrontierLessThan(last_advance, t)
  <2>1. UNCHANGED <<attributes, slack, trace, last_advance>>
      BY <1>3 DEF AdvanceTraces
  <2>2. QED
      BY <1>2, <2>1, QuietTraces
<1>4. CASE \E t \in F : FrontierLessThan(last_advance, t)
  <2>1. PICK t \in F : FrontierLessThan(last_advance, t)
      BY <1>4
  <2>2. /\ last_advance' = F
        /\ trace' = [a \in Attrs |->
             IF a \in attributes /\ slack[a] # None
             THEN {Rewind(f, slack[a]) : f \in F}
             ELSE trace[a]]
      BY <1>4 DEF AdvanceTraces
  <2>3. \A a \in attributes : slack[a] # None => trace'[a] = {Rewind(f, slack[a]) : f \in F}
      BY <1>1, <2>2
  <2>4. \A a \in attributes : slack[a] = None => trace'[a] = trace[a] /\ trace[a] \in SUBSET T
      BY <1>1, <2>2
  <2>5. ASSUME NEW a \in attributes
        PROVE  \/ trace'[a] = {Minimum}
               \/ slack'[a] # None /\ trace'[a] = {Rewind(f, slack'[a]) : f \in last_advance'}
    <3>1. CASE slack[a] = None
        BY <2>4, <3>1 DEF TracesAtLastAdvance
    <3>2. CASE slack[a] # None
        BY <2>2, <2>3, <3>2
    <3>3. QED
        BY <3>1, <3>2
  <2>6. ASSUME NEW a \in attributes
        PROVE  \/ FrontierReached(trace[a], trace'[a])
               \/ slack[a] # None /\ ~FrontierReached({slack[a]}, last_advance)
    <3>1. CASE slack[a] = None
        BY <2>4, <3>1, ReachedReflexive
    <3>2. CASE slack[a] # None /\ trace[a] = {Minimum}
      <4>1. slack[a] \in T /\ trace'[a] = {Rewind(f, slack[a]) : f \in F} /\ F \in SUBSET T
          BY <1>1, <2>3, <3>2
      <4>2. \A f \in F : Rewind(f, slack[a]) \in T
          BY <4>1, TimeOperatorAssumption
      <4>3. trace'[a] \in SUBSET T
          BY <4>1, <4>2
      <4>4. QED
          BY <3>2, <4>3, TimeAssumption DEF FrontierReached, FrontierLessEqual
    <3>3. CASE /\ slack[a] # None /\ trace[a] = {Rewind(l, slack[a]) : l \in last_advance}
               /\ FrontierReached({slack[a]}, last_advance)
      <4>1. slack[a] \in T /\ trace'[a] = {Rewind(f, slack[a]) : f \in F}
          BY <1>1, <2>3, <3>3
      <4>2. FrontierReached({Rewind(l, slack[a]) : l \in last_advance},
                            {Rewind(f, slack[a]) : f \in F})
          BY <1>1, <2>1, <3>3, <4>1, RewoundForward
      <4>3. QED
          BY <3>3, <4>1, <4>2
    <3>4. QED
        BY <3>1, <3>2, <3>3 DEF TracesAtLastAdvance
  <2>7. QED
      BY <1>2, <2>5, <2>6 DEF TracesAtLastAdvance, TracesStep
<1>5. QED
    BY <1>3, <1>4

\* Composition gives no trace but the new one a frontier.
LEMMA ComposeTraces ==
  ASSUME DomainInv, TracesAtLastAdvance, Compose
  PROVE  TracesAtLastAdvance' /\ TracesStep
<1>1. IsAntichain(source) /\ IsAntichain(domain_probe) /\ IsAntichain({}) /\ IsAntichain({Minimum})
    BY DEF TracesAtLastAdvance, IsAntichain
<1>2. ASSUME NEW a \in Attrs, NEW s \in Slacks \cup {None},
             CreateAttribute(a, s) \/ AddTimelessStream(a, s)
      PROVE  TracesAtLastAdvance' /\ TracesStep
  <2>1. AddAttribute(a, s) /\ TakeOverIdleProbe /\ a \notin attributes
      BY <1>2 DEF CreateAttribute, AddTimelessStream
  <2>2. source' = source /\ (domain_probe' = {} \/ domain_probe' = domain_probe)
      BY <2>1 DEF TakeOverIdleProbe
  <2>3. IsAntichain(source)' /\ IsAntichain(domain_probe)'
      BY <1>1, <2>2 DEF IsAntichain
  <2>4. QED
      BY <2>1, <2>3, AddAttributeTraces
<1>3. ASSUME NEW a \in Attrs, AttributeClash(a) PROVE TracesAtLastAdvance' /\ TracesStep
  <2>1. UNCHANGED <<attributes, slack, trace, last_advance, source, domain_probe>>
      BY <1>3 DEF AttributeClash, PanicWith, configVars, sourceVars
  <2>2. IsAntichain(source)' /\ IsAntichain(domain_probe)'
      BY <1>1, <2>1 DEF IsAntichain
  <2>3. QED
      BY <2>1, <2>2, QuietTraces
<1>4. ASSUME NEW aids \in SUBSET Attrs, RegisterSource(aids)
      PROVE  TracesAtLastAdvance' /\ TracesStep
  <2>1. UNCHANGED <<attributes, slack, trace, last_advance, source, domain_probe>>
      BY <1>4 DEF RegisterSource, configVars, sourceVars
  <2>2. IsAntichain(source)' /\ IsAntichain(domain_probe)'
      BY <1>1, <2>1 DEF IsAntichain
  <2>3. QED
      BY <2>1, <2>2, QuietTraces
<1>5. CASE RegisterStream
  <2>1. PICK a \in streams \ sourced :
          (\E s \in Slacks \cup {None} : ComposeStream(a, s)) \/ ComposeAnotherSource
      BY <1>5 DEF RegisterStream
  <2>2. a \in Attrs \ attributes
      BY <2>1 DEF DomainInv, TypeOK
  <2>3. ASSUME NEW s \in Slacks \cup {None}, ComposeStream(a, s)
        PROVE  TracesAtLastAdvance' /\ TracesStep
    <3>1. AddAttribute(a, s) /\ source' = {Minimum} /\ domain_probe' = {Minimum}
        BY <2>3 DEF ComposeStream
    <3>2. IsAntichain(source)' /\ IsAntichain(domain_probe)'
        BY <1>1, <3>1 DEF IsAntichain
    <3>3. QED
        BY <2>2, <3>1, <3>2, AddAttributeTraces
  <2>4. CASE ComposeAnotherSource
    <3>1. PanicWith("two sources")
        BY <2>4 DEF ComposeAnotherSource
    <3>2. UNCHANGED <<attributes, slack, trace, last_advance, source, domain_probe>>
        BY <3>1 DEF PanicWith, configVars, sourceVars
    <3>3. IsAntichain(source)' /\ IsAntichain(domain_probe)'
        BY <1>1, <3>2 DEF IsAntichain
    <3>4. QED
        BY <3>2, <3>3, QuietTraces
  <2>5. QED
      BY <2>1, <2>3, <2>4
<1>6. QED
    BY <1>2, <1>3, <1>4, <1>5 DEF Compose

\* advance() passes advance_traces the epoch or what the probe reports.
LEMMA AdvanceForward ==
  ASSUME LinearTimes, DomainInv, TracesAtLastAdvance, Advance
  PROVE  TracesAtLastAdvance' /\ TracesStep
<1>1. /\ domain_probe \in SUBSET T /\ IsAntichain(domain_probe)
      /\ {now_at} \in SUBSET T /\ IsAntichain({now_at}) /\ IsAntichain(source)
    BY DEF DomainInv, TypeOK, TracesAtLastAdvance, IsAntichain
<1>2. CASE AdvanceToEpoch
  <2>1. AdvanceTraces({now_at}) /\ UNCHANGED <<attributes, slack, source, domain_probe>>
      BY <1>2 DEF AdvanceToEpoch, configVars, sourceVars
  <2>2. QED
      BY <1>1, <2>1, AdvanceTracesForward
<1>3. CASE AdvanceToSources
  <2>1. AdvanceTraces(domain_probe) /\ UNCHANGED <<attributes, slack, source, domain_probe>>
      BY <1>3 DEF AdvanceToSources, configVars, sourceVars
  <2>2. QED
      BY <1>1, <2>1, AdvanceTracesForward
<1>4. CASE CatchUpWithSources
  <2>1. CASE AdvanceTraces(domain_probe) /\ UNCHANGED <<configVars, sourceVars>>
    <3>1. UNCHANGED <<attributes, slack, source, domain_probe>>
        BY <2>1 DEF configVars, sourceVars
    <3>2. QED
        BY <1>1, <2>1, <3>1, AdvanceTracesForward
  <2>2. CASE PanicWith("advance") \/ PanicWith("advance_to")
    <3>1. UNCHANGED <<attributes, slack, trace, last_advance, source, domain_probe>>
        BY <2>2 DEF PanicWith, configVars, sourceVars
    <3>2. IsAntichain(source)' /\ IsAntichain(domain_probe)'
        BY <1>1, <3>1 DEF IsAntichain
    <3>3. QED
        BY <3>1, <3>2, QuietTraces
  <2>3. QED
      BY <1>4, <2>1, <2>2 DEF CatchUpWithSources
<1>5. QED
    BY <1>2, <1>3, <1>4 DEF Advance

\* Every step keeps the traces at the last advance and moves none of them back.
LEMMA NextTraces ==
  ASSUME LinearTimes, DomainInv, TracesAtLastAdvance, [Next]_vars
  PROVE  TracesAtLastAdvance' /\ TracesStep
<1>1. IsAntichain(source) /\ IsAntichain(domain_probe)
    BY DEF TracesAtLastAdvance
<1>2. ASSUME UNCHANGED <<attributes, slack, trace, last_advance, source, domain_probe>>
      PROVE  TracesAtLastAdvance' /\ TracesStep
  <2>1. IsAntichain(source)' /\ IsAntichain(domain_probe)'
      BY <1>1, <1>2 DEF IsAntichain
  <2>2. QED
      BY <1>2, <2>1, QuietTraces
<1>3. CASE UNCHANGED vars \/ Dead
    BY <1>2, <1>3 DEF vars, Dead
<1>4. CASE \E batch \in Batches : Transact(batch)
    BY <1>2, <1>4 DEF Transact, configVars, sourceVars
<1>5. CASE TransactDatom
    BY <1>2, <1>5 DEF TransactDatom, TransactUpdate, TransactUpdateAt, TransactTooEarly,
       TransactNotFound, AcceptAt, PanicWith, configVars, sourceVars
<1>6. CASE \E a \in Attrs : CloseInput(a)
    BY <1>2, <1>6 DEF CloseInput, sourceVars
<1>7. CASE \E next \in T : AdvanceDomain(next)
    BY <1>2, <1>7 DEF AdvanceDomain, PanicWith, configVars, sourceVars
<1>8. ASSUME NEW G \in SUBSET T, SourceDowngrade(G) PROVE TracesAtLastAdvance' /\ TracesStep
  <2>1. /\ UNCHANGED <<attributes, slack, trace, last_advance, domain_probe>>
        /\ source' = G /\ IsAntichain(G)
      BY <1>8 DEF SourceDowngrade, configVars
  <2>2. IsAntichain(source)' /\ IsAntichain(domain_probe)'
      BY <1>1, <2>1 DEF IsAntichain
  <2>3. QED
      BY <2>1, <2>2, QuietTraces
<1>9. CASE WorkerStep
  <2>1. UNCHANGED <<attributes, slack, trace, last_advance, source>> /\ domain_probe' = source
      BY <1>9 DEF WorkerStep, configVars
  <2>2. IsAntichain(source)' /\ IsAntichain(domain_probe)'
      BY <1>1, <2>1 DEF IsAntichain
  <2>3. QED
      BY <2>1, <2>2, QuietTraces
<1>10. QED
    BY <1>3, <1>4, <1>5, <1>6, <1>7, <1>8, <1>9, ComposeTraces, AdvanceForward DEF Next

\* In totally ordered time (u64, Duration) advance_traces never takes the traces
\* of an attribute back, although composition takes the epoch back and sources
\* come and cease, except in a domain that is still younger than the slack.
THEOREM TracesForward == ASSUME LinearTimes PROVE Spec => TracesNeverMoveBack
<1>1. Init => TracesAtLastAdvance
    BY DEF Init, TracesAtLastAdvance, IsAntichain
<1>2. DomainInv /\ TracesAtLastAdvance /\ [Next]_vars => TracesAtLastAdvance'
    BY NextTraces
<1>3. DomainInv /\ TracesAtLastAdvance /\ [Next]_vars
        => [\A a \in attributes :
              \/ FrontierReached(trace[a], trace'[a])
              \/ slack[a] # None /\ ~FrontierReached({slack[a]}, last_advance)]_vars
    BY NextTraces DEF TracesStep
<1>4. QED
    BY <1>1, <1>2, <1>3, DomainInvariant, PTL DEF Spec, TracesNeverMoveBack
-----------------------------------------------------------------------------
(* The domain in the command loop *)

\* The order on times is the one on natural numbers, and the clock is a time.
LEMMA ClockIsTime ==
  ASSUME NaturalTimes, LoopInv
  PROVE  /\ clock \in T /\ clock \in Nat /\ now_at \in T /\ now_at \in Nat
         /\ \A a \in inputs : session[a].cap \in T /\ session[a].cap \in Nat
         /\ \A t \in source \cup domain_probe : t \in Nat
         /\ T \subseteq Nat
<1>1. now_at \in T /\ \A a \in inputs : session[a].cap \in T
  <2>1. now_at \in T /\ inputs \subseteq Attrs /\ session \in [Attrs -> Session]
      BY DEF LoopInv, DomainInv, TypeOK
  <2>2. QED
      BY <2>1 DEF Session
<1>2. T \subseteq Nat /\ clock \in T
  <2>1. clock \in 0..MaxTime
      BY DEF LoopInv
  <2>2. MaxTime \in Nat /\ T = 0..MaxTime
      BY DEF NaturalTimes
  <2>3. QED
      BY <2>1, <2>2
<1>3. source \subseteq T /\ domain_probe \subseteq T
    BY DEF LoopInv, DomainInv, TypeOK
<1>4. QED
    BY <1>1, <1>2, <1>3

\* What the clock bounds, and what only the real-time build has.
LEMMA SourceBehind ==
  ASSUME LoopInv
  PROVE  /\ \A t \in source \cup domain_probe : t <= clock
         /\ ~ RealTime => probed_source_count = 0 /\ streams = {}
         /\ now_at # 0 => InputsInLockstep
  BY DEF LoopInv

\* If nothing is ahead of the current time, neither check of the advance that
\* ends a command can fail.
LEMMA BehindMayAdvance ==
  ASSUME NaturalTimes, LoopInv, InputsBehind(clock)
  PROVE  MayAdvanceEpoch(clock) /\ InputsMayAdvanceTo(clock)
<1>1. now_at <= clock /\ \A a \in inputs : session[a].cap <= clock
    BY DEF InputsBehind
<1>2. MayAdvanceEpoch(clock)
    BY <1>1, ClockIsTime DEF NaturalTimes, MayAdvanceEpoch
<1>3. ASSUME NEW a \in inputs PROVE LessEqual(session[a].time, clock)
  <2>1. session[a].time = session[a].cap /\ session[a].cap <= clock
      BY <1>1 DEF LoopInv, DomainInv
  <2>2. QED
      BY <2>1, ClockIsTime DEF NaturalTimes
<1>4. QED
    BY <1>2, <1>3 DEF InputsMayAdvanceTo, MayAdvanceTo

\* The advance that ends a command is an AdvanceDomain to the current time
\* that succeeds, does nothing, or fails, which takes a client that has asked
\* for a later epoch.
LEMMA EndIsAdvance ==
  ASSUME NaturalTimes, LoopInv, EndCommand
  PROVE  \/ AdvanceDomain(clock) /\ InputsMayAdvanceTo(clock)
         \/ clock = now_at /\ UNCHANGED vars
         \/ PanicWith("auto_advance") /\ ahead
<1>1. /\ Idle /\ AdvanceEpochTo(clock) /\ phase = "handling" /\ panic = "none"
    BY DEF EndCommand, Idle
<1>2. CASE ahead
    BY <1>1, <1>2 DEF AdvanceEpochTo, AdvanceDomain
<1>3. CASE ~ ahead
  <2>1. InputsBehind(clock)
      BY <1>1, <1>3 DEF LoopInv
  <2>2. MayAdvanceEpoch(clock) /\ InputsMayAdvanceTo(clock)
      BY <2>1, BehindMayAdvance
  <2>3. QED
      BY <1>1, <2>2 DEF AdvanceEpochTo, AdvanceDomain
<1>4. QED
    BY <1>2, <1>3

\* Every step of the loop is a step of the domain, or leaves it alone, but for
\* the loop's own way to die: the failing automatic advance.
LEMMA LoopStepIsDomainStep ==
  ASSUME NaturalTimes, LoopInv, [LoopNext]_loopVars
  PROVE  [Next]_vars \/ (PanicWith("auto_advance") /\ ahead)
<1>1. CASE UNCHANGED loopVars
    BY <1>1 DEF loopVars
<1>2. CASE ClockRuns
    BY <1>2 DEF ClockRuns
<1>3. CASE BeginCommand
    BY <1>3 DEF BeginCommand
<1>4. CASE HandleRequest
  <2>1. CASE \E a \in Attrs, s \in Slacks \cup {None} : CreateAttribute(a, s)
      BY <2>1 DEF Next, Compose
  <2>2. CASE \E a \in Attrs : RegisterSource({a})
    <3>1. PICK a \in Attrs : RegisterSource({a})
        BY <2>2
    <3>2. {a} \in SUBSET Attrs
        OBVIOUS
    <3>3. QED
        BY <3>1, <3>2 DEF Next, Compose
  <2>3. CASE \E batch \in Batches : Transact(batch)
      BY <2>3 DEF Next
  <2>4. CASE \E a \in Attrs : CloseInput(a)
      BY <2>4 DEF Next
  <2>5. CASE \E a \in Attrs : AttributeClash(a)
      BY <2>5 DEF Next, Compose
  <2>6. CASE AdvanceRequest
      BY <2>6 DEF Next, AdvanceRequest
  <2>7. QED
      BY <1>4, <2>1, <2>2, <2>3, <2>4, <2>5, <2>6 DEF HandleRequest
<1>5. CASE ContinueRequest
    BY <1>5 DEF ContinueRequest, Next, Compose
<1>6. CASE EndCommand
    BY <1>6, EndIsAdvance, ClockIsTime DEF Next
<1>7. CASE StepAndAdvance
    BY <1>7 DEF StepAndAdvance, Next
<1>8. CASE SourceProgress
  <2>1. PICK G \in {{}, {clock}} : SourceDowngrade(G)
      BY <1>8 DEF SourceProgress
  <2>2. G \in SUBSET T
      BY ClockIsTime
  <2>3. QED
      BY <2>1, <2>2 DEF Next
<1>9. CASE LoopDead
    BY <1>9 DEF LoopDead, loopVars
<1>10. QED
    BY <1>1, <1>2, <1>3, <1>4, <1>5, <1>6, <1>7, <1>8, <1>9 DEF LoopNext
-----------------------------------------------------------------------------
\* InputsBehind in the next state.
NextBehind(c) == now_at' <= c /\ \A a \in inputs' : session'[a].cap <= c

\* What every step but an advance keeps of LoopInv.
Kept ==
  /\ InputsBehind(clock) => NextBehind(clock)
  /\ now_at' # 0 => InputsInLockstep'
  /\ \A t \in source' \cup domain_probe' : t <= clock
  /\ ~ RealTime => probed_source_count' = 0 /\ streams' = {}

\* A step that keeps the epoch, the inputs' times and the source.
LEMMA QuietKept ==
  ASSUME LoopInv, inputs' \subseteq inputs,
         \A a \in inputs' : /\ session'[a].time = session[a].time
                            /\ session'[a].cap = session[a].cap,
         ~ RealTime => streams' = {},
         UNCHANGED <<now_at, source, domain_probe, probed_source_count>>
  PROVE  Kept
<1>1. InputsBehind(clock) => NextBehind(clock)
    BY DEF InputsBehind, NextBehind
<1>2. now_at' # 0 => InputsInLockstep'
    BY SourceBehind DEF InputsInLockstep
<1>3. QED
    BY <1>1, <1>2, SourceBehind DEF Kept

\* A panic changes nothing else.
LEMMA PanicKept ==
  ASSUME LoopInv, NEW reason, PanicWith(reason)
  PROVE  Kept /\ panic' = reason
<1>1. /\ panic' = reason
      /\ UNCHANGED <<now_at, inputs, session, source, domain_probe,
                     probed_source_count, streams>>
    BY DEF PanicWith, configVars, sourceVars, dataVars
<1>2. QED
    BY <1>1, QuietKept, SourceBehind

\* Composition takes the epoch back to the minimum.
LEMMA ComposedAtZero ==
  ASSUME NaturalTimes, LoopInv
  PROVE  ComposedEpoch = 0
<1>1. ComposedEpoch \in T /\ LessEqual(ComposedEpoch, Minimum) /\ Minimum \in T
    BY ClockIsTime, TimeAssumption, TimeOperatorAssumption DEF ComposedEpoch
<1>2. ComposedEpoch <= 0 /\ ComposedEpoch \in Nat
    BY <1>1, ClockIsTime DEF NaturalTimes
<1>3. QED
    BY <1>2

\* A new attribute's session is at the minimum.
LEMMA CreateKept ==
  ASSUME NaturalTimes, LoopInv,
         NEW a \in Attrs, NEW s \in Slacks \cup {None}, CreateAttribute(a, s)
  PROVE  Kept /\ panic' = panic
<1>1. /\ now_at' = ComposedEpoch /\ inputs' = inputs \cup {a}
      /\ session' = [session EXCEPT ![a] = NewSession]
      /\ domain_probe' = {} \/ domain_probe' = domain_probe
      /\ UNCHANGED <<panic, probed_source_count, source, streams>>
    BY DEF CreateAttribute, AddAttribute, TakeOverIdleProbe
<1>2. now_at' = 0 /\ clock \in Nat
    BY <1>1, ComposedAtZero, ClockIsTime
<1>3. ASSUME InputsBehind(clock), NEW b \in inputs'
      PROVE  session'[b].cap <= clock
  <2>1. session \in [Attrs -> Session] /\ inputs \subseteq Attrs
      BY DEF LoopInv, DomainInv, TypeOK
  <2>2. CASE b = a
    <3>1. session'[b] = NewSession
        BY <1>1, <2>1, <2>2
    <3>2. NewSession.cap = 0
      <4>1. NewSession.cap = Minimum
          BY DEF NewSession
      <4>2. QED
          BY <4>1 DEF NaturalTimes
    <3>3. session'[b].cap = 0 /\ 0 <= clock
        BY <1>2, <3>1, <3>2
    <3>4. QED
        BY <3>3
  <2>3. CASE b # a
    <3>1. b \in inputs /\ session'[b] = session[b]
        BY <1>1, <2>1, <2>3
    <3>2. QED
        BY <1>3, <3>1 DEF InputsBehind
  <2>4. QED
      BY <2>2, <2>3
<1>4. InputsBehind(clock) => NextBehind(clock)
  <2>1. now_at' <= clock
      BY <1>2
  <2>2. QED
      BY <1>3, <2>1 DEF NextBehind
<1>5. \A t \in source' \cup domain_probe' : t <= clock
    BY <1>1, SourceBehind
<1>6. QED
    BY <1>1, <1>2, <1>4, <1>5, SourceBehind DEF Kept

\* A source starts at the minimum.
LEMMA RegisterStreamKept ==
  ASSUME NaturalTimes, LoopInv, RegisterStream
  PROVE  Kept /\ panic' \in {panic, "two sources"}
<1>1. PICK a \in streams \ sourced :
        (\E s \in Slacks \cup {None} : ComposeStream(a, s)) \/ ComposeAnotherSource
    BY DEF RegisterStream
<1>2. CASE ComposeAnotherSource
    BY <1>2, PanicKept DEF ComposeAnotherSource
<1>3. ASSUME NEW s \in Slacks \cup {None}, ComposeStream(a, s)
      PROVE  Kept /\ panic' = panic
  <2>1. /\ now_at' = ComposedEpoch /\ UNCHANGED <<inputs, session, panic>>
        /\ source' = {Minimum} /\ domain_probe' = {Minimum}
      BY <1>3 DEF ComposeStream, AddAttribute
  <2>2. now_at' = 0 /\ clock \in Nat /\ Minimum = 0
      BY <2>1, ComposedAtZero, ClockIsTime DEF NaturalTimes
  <2>3. InputsBehind(clock) => NextBehind(clock)
      BY <2>1, <2>2 DEF InputsBehind, NextBehind
  <2>4. RealTime
      BY <1>1, SourceBehind
  <2>5. \A t \in source' \cup domain_probe' : t <= clock
      BY <2>1, <2>2
  <2>6. QED
      BY <2>1, <2>2, <2>3, <2>4, <2>5 DEF Kept
<1>4. QED
    BY <1>1, <1>2, <1>3

\* A datom leaves the session's times where they are.
LEMMA TransactDatomKept ==
  ASSUME NaturalTimes, LoopInv, TransactDatom
  PROVE  Kept /\ panic' \in {panic, "update_at"}
<1> DEFINE d == Head(tx)
<1>1. tx # <<>> /\ d \in Datom /\ DomainInv
    BY NextDatom DEF TransactDatom, LoopInv
<1> HIDE DEF d
<1>2. CASE TransactTooEarly(d)
    BY <1>2, PanicKept DEF TransactTooEarly
<1>3. CASE TransactNotFound(d)
  <2>1. UNCHANGED <<now_at, inputs, session, source, domain_probe,
                    probed_source_count, streams, panic>>
      BY <1>3 DEF TransactNotFound, configVars, sourceVars
  <2>2. QED
      BY <2>1, QuietKept, SourceBehind
<1>4. ASSUME NEW t \in T, AcceptAt(d, t), d.attr \in inputs
      PROVE  Kept /\ panic' = panic
  <2> DEFINE u == [id |-> Len(updates) + 1, time |-> t]
  <2>1. /\ session' = [session EXCEPT ![d.attr] = Pushed(session[d.attr], u)]
        /\ UNCHANGED <<now_at, inputs, source, domain_probe, probed_source_count,
                       streams, panic>>
      BY <1>4 DEF AcceptAt, configVars, sourceVars
  <2>2. session \in [Attrs -> Session] /\ inputs \subseteq Attrs
      BY <1>1 DEF DomainInv, TypeOK
  <2>3. /\ Pushed(session[d.attr], u).cap = session[d.attr].cap
        /\ Pushed(session[d.attr], u).time = session[d.attr].time
      BY <1>4, <2>2 DEF Pushed, Session
  <2> HIDE DEF u
  <2>4. \A a \in inputs : /\ session'[a].time = session[a].time
                          /\ session'[a].cap = session[a].cap
      BY <1>4, <2>1, <2>2, <2>3
  <2>5. QED
      BY <2>1, <2>4, QuietKept, SourceBehind
<1>5. CASE TransactUpdate(d)
  <2>1. d.attr \in inputs /\ AcceptAt(d, session[d.attr].cap)
      BY <1>5 DEF TransactUpdate, UpdateTime
  <2>2. QED
      BY <2>1, <1>4, ClockIsTime
<1>6. CASE TransactUpdateAt(d)
  <2>1. d.attr \in inputs /\ d.time \in T /\ AcceptAt(d, d.time)
      BY <1>1, <1>6 DEF TransactUpdateAt, Datom
  <2>2. QED
      BY <2>1, <1>4
<1>7. QED
    BY <1>2, <1>3, <1>5, <1>6 DEF TransactDatom, d

\* The requests other than an advance.
LEMMA RequestKept ==
  ASSUME NaturalTimes, LoopInv,
         \/ \E a \in Attrs, s \in Slacks \cup {None} : CreateAttribute(a, s)
         \/ RealTime /\ probed_source_count = 0 /\ \E a \in Attrs : RegisterSource({a})
         \/ \E batch \in Batches : batch[1].time = None /\ Transact(batch)
         \/ \E a \in Attrs : CloseInput(a)
         \/ \E a \in Attrs : AttributeClash(a)
  PROVE  Kept /\ panic' \in {panic, "clash"}
<1>1. CASE \E a \in Attrs, s \in Slacks \cup {None} : CreateAttribute(a, s)
    BY <1>1, CreateKept
<1>2. CASE RealTime /\ \E a \in Attrs : RegisterSource({a})
  <2>1. RealTime /\ UNCHANGED <<now_at, inputs, session, source, domain_probe,
                                probed_source_count, panic>>
      BY <1>2 DEF RegisterSource, configVars, sourceVars
  <2>2. QED
      BY <2>1, QuietKept
<1>3. CASE \E batch \in Batches : Transact(batch)
  <2>1. UNCHANGED <<now_at, inputs, session, source, domain_probe,
                    probed_source_count, panic, streams>>
      BY <1>3 DEF Transact, configVars, sourceVars
  <2>2. QED
      BY <2>1, QuietKept, SourceBehind
<1>4. ASSUME NEW a \in Attrs, CloseInput(a)
      PROVE  Kept /\ panic' = panic
  <2>1. /\ inputs' = inputs \ {a} /\ session' = [session EXCEPT ![a] = Flushed(@)]
        /\ UNCHANGED <<now_at, source, domain_probe, probed_source_count, panic, streams>>
      BY <1>4 DEF CloseInput, sourceVars
  <2>2. session \in [Attrs -> Session] /\ inputs \subseteq Attrs
      BY DEF LoopInv, DomainInv, TypeOK
  <2>3. \A b \in inputs' : session'[b] = session[b]
      BY <2>1, <2>2
  <2>4. QED
      BY <2>1, <2>3, QuietKept, SourceBehind
<1>5. CASE \E a \in Attrs : AttributeClash(a)
    BY <1>5, PanicKept DEF AttributeClash
<1>6. QED
    BY <1>1, <1>2, <1>3, <1>4, <1>5
-----------------------------------------------------------------------------
\* An advance that succeeds puts the epoch and all inputs at the new time.
Together(next) ==
  /\ now_at' = next /\ InputsInLockstep'
  /\ \A c \in Nat : next <= c => NextBehind(c)

LEMMA ForwardTogether ==
  ASSUME LoopInv, NEW next \in T, InputsMayAdvanceTo(next), ForwardInputs(next),
         inputs' = inputs
  PROVE  Together(next)
<1>1. now_at' = next
    BY DEF ForwardInputs
<1>2. \A a \in inputs : session'[a].time = next /\ session'[a].cap = next
    BY ForwardInputsMoves DEF LoopInv
<1>3. QED
    BY <1>1, <1>2 DEF Together, NextBehind, InputsInLockstep

\* AdvanceDomain, as a request and at the end of a command.
LEMMA AdvanceTogether ==
  ASSUME LoopInv, NEW next \in T, AdvanceDomain(next)
  PROVE  \/ /\ Together(next) /\ InputsMayAdvanceTo(next)
            /\ UNCHANGED <<source, domain_probe, probed_source_count, streams, panic>>
         \/ PanicWith("advance_to") /\ ~ InputsMayAdvanceTo(next)
  BY ForwardTogether DEF AdvanceDomain, configVars, sourceVars

\* The domain's own advance keeps what holds between two commands.
LEMMA AdvanceKeepsStep ==
  ASSUME NaturalTimes, LoopInv, phase = "commands", panic = "none", Advance
  PROVE  /\ NextBehind(clock) /\ InputsInLockstep' /\ now_at <= now_at'
         /\ ~ RealTime => now_at' = now_at
         /\ UNCHANGED <<source, domain_probe, probed_source_count, streams, panic>>
<1>1. InputsInLockstep /\ InputsBehind(clock) /\ now_at \in Nat
    BY ClockIsTime DEF LoopInv, LockstepBetweenCommands
<1>2. ASSUME UNCHANGED <<configVars, now_at, session, sourceVars, dataVars, panic>>
      PROVE  /\ NextBehind(clock) /\ InputsInLockstep' /\ now_at' = now_at
             /\ UNCHANGED <<source, domain_probe, probed_source_count, streams, panic>>
    BY <1>1, <1>2 DEF configVars, sourceVars, dataVars, InputsBehind, NextBehind, InputsInLockstep
<1>3. CASE AdvanceToEpoch
    BY <1>1, <1>2, <1>3 DEF AdvanceToEpoch
<1>4. CASE AdvanceToSources
    BY <1>1, <1>2, <1>4 DEF AdvanceToSources
<1>5. CASE CatchUpWithSources
  <2> DEFINE next == OrdMax(domain_probe)
  <2>1. /\ probed_source_count > 0 /\ domain_probe # {} /\ domain_probe \in SUBSET T
        /\ ~FrontierLessEqual(domain_probe, now_at)
      BY <1>5 DEF CatchUpWithSources, LoopInv, DomainInv, TypeOK
  <2>2. next \in domain_probe
      BY <2>1, TimeOperatorAssumption
  <2>3. ~ LessEqual(next, now_at) /\ next \in T /\ next \in Nat
      BY <2>1, <2>2, ClockIsTime DEF FrontierLessEqual
  <2> HIDE DEF next
  <2>4. ~ (next <= now_at)
      BY <2>3, ClockIsTime DEF NaturalTimes
  <2>5. now_at <= next
      BY <2>3, <2>4, ClockIsTime
  <2>6. LessEqual(now_at, next)
      BY <2>3, <2>5, ClockIsTime DEF NaturalTimes
  <2>7. next <= clock /\ clock \in Nat
      BY <2>2, SourceBehind, ClockIsTime
  <2>8. InputsMayAdvanceTo(next) /\ MayAdvanceEpoch(next)
      BY <1>1, <2>6 DEF InputsInLockstep, InputsMayAdvanceTo, MayAdvanceTo, MayAdvanceEpoch
  <2>9. /\ ForwardInputs(next) /\ inputs' = inputs
        /\ UNCHANGED <<source, domain_probe, probed_source_count, streams, panic>>
      BY <1>5, <2>8 DEF CatchUpWithSources, configVars, sourceVars, next
  <2>10. Together(next)
      BY <2>3, <2>8, <2>9, ForwardTogether
  <2>11. RealTime
      BY <2>1, SourceBehind
  <2>12. QED
      BY <2>5, <2>7, <2>9, <2>10, <2>11 DEF Together
<1>6. QED
    BY <1>3, <1>4, <1>5 DEF Advance
-----------------------------------------------------------------------------
\* What a step has to show for the loop's invariant, besides DomainInv.
LoopStep ==
  /\ clock' \in 0..MaxTime /\ ended' \in Nat
  /\ phase' = "handling" \/ RealTime => clock' > 0
  /\ now_at' # 0 => InputsInLockstep'
  /\ panic' = "none" /\ (phase' = "commands" \/ ~ ahead') => NextBehind(clock')
  /\ \A t \in source' \cup domain_probe' : t <= clock'
  /\ ~ RealTime => probed_source_count' = 0 /\ streams' = {}
  /\ panic' # "advance" /\ (panic' = "advance_to" => phase' = "handling")
  /\ panic' = "auto_advance" => ahead'
  /\ phase' = "commands" /\ panic' = "none" =>
       /\ InputsInLockstep' /\ ended' <= now_at' /\ now_at' <= clock'
       /\ ~ RealTime => now_at' = clock'

LEMMA LoopInvFrom ==
  ASSUME DomainInv', build' = build, LoopStep
  PROVE  LoopInv'
<1>1. RealTime' <=> RealTime
    BY DEF RealTime
<1>2. LoopNeverPanics' /\ LockstepBetweenCommands' /\ EpochFollowsClock'
    BY <1>1 DEF LoopStep, LoopNeverPanics, LockstepBetweenCommands, EpochFollowsClock
<1>3. panic' = "none" /\ (phase' = "commands" \/ ~ ahead') => InputsBehind(clock)'
    BY DEF LoopStep, NextBehind, InputsBehind
<1>4. QED
    BY <1>1, <1>2, <1>3 DEF LoopStep, LoopInv

\* The clock only counts up, within its bound.
LEMMA CountWithin ==
  ASSUME NaturalTimes, LoopInv, CountCommand \/ ClockRuns
  PROVE  /\ clock' \in 0..MaxTime /\ clock' \in Nat /\ clock <= clock'
         /\ clock' > 0
<1>1. clock \in 0..MaxTime /\ MaxTime \in Nat /\ (RealTime => clock > 0)
    BY DEF LoopInv, NaturalTimes
<1>2. (RealTime /\ clock' = clock) \/ (clock < MaxTime /\ clock' = clock + 1)
    BY DEF CountCommand, ClockRuns
<1>3. QED
    BY <1>1, <1>2

\* The parts of LoopInv about the present state.
LEMMA LoopFacts ==
  ASSUME NaturalTimes, LoopInv
  PROVE  /\ clock \in 0..MaxTime /\ clock \in Nat /\ now_at \in Nat /\ ended \in Nat
         /\ phase = "handling" \/ RealTime => clock > 0
         /\ now_at # 0 => InputsInLockstep
         /\ panic = "none" /\ (phase = "commands" \/ ~ ahead) => InputsBehind(clock)
         /\ panic # "advance" /\ (panic = "advance_to" => phase = "handling")
         /\ panic = "auto_advance" => ahead
         /\ phase = "commands" /\ panic = "none" =>
              /\ InputsInLockstep /\ ended <= now_at /\ now_at <= clock
              /\ ~ RealTime => now_at = clock
<1>1. clock \in Nat /\ now_at \in Nat
    BY ClockIsTime
<1>2. QED
    BY <1>1 DEF LoopInv, LoopNeverPanics, LockstepBetweenCommands, EpochFollowsClock

\* A step of the loop that leaves the domain alone, at a later time of the
\* real-time build, or of a new command.
ClockOnly ==
  /\ clock' \in 0..MaxTime /\ clock' \in Nat /\ clock <= clock'
  /\ phase' = "handling" \/ RealTime => clock' > 0
  /\ \/ phase' = phase /\ (RealTime \/ clock' = clock)
     \/ phase = "commands" /\ phase' = "handling" /\ panic = "none"
  /\ UNCHANGED vars /\ build' = build /\ ahead' = ahead /\ ended' = ended

LEMMA ClockStep ==
  ASSUME NaturalTimes, LoopInv, ClockOnly
  PROVE  LoopStep
<1>1. UNCHANGED <<now_at, inputs, session, source, domain_probe,
                  probed_source_count, panic, streams>>
    BY DEF ClockOnly, vars
<1>2. clock \in Nat /\ clock' \in Nat /\ now_at \in Nat /\ clock <= clock'
    BY LoopFacts DEF ClockOnly
<1>3. InputsBehind(clock) => NextBehind(clock')
  <2>1. SUFFICES ASSUME InputsBehind(clock) PROVE NextBehind(clock')
      OBVIOUS
  <2>2. now_at <= clock /\ \A a \in inputs : session[a].cap <= clock
      BY <2>1 DEF InputsBehind
  <2>3. \A a \in inputs : session[a].cap \in Nat
      BY ClockIsTime
  <2>4. now_at' <= clock'
      BY <1>1, <1>2, <2>2
  <2>5. ASSUME NEW a \in inputs PROVE session[a].cap <= clock'
      BY <1>2, <2>2, <2>3
  <2>6. QED
      BY <1>1, <2>4, <2>5 DEF NextBehind
<1>4. \A t \in source' \cup domain_probe' : t <= clock'
  <2>1. \A t \in source \cup domain_probe : t \in Nat /\ t <= clock
      BY SourceBehind, ClockIsTime
  <2>2. QED
      BY <1>1, <1>2, <2>1
<1>5. InputsInLockstep' <=> InputsInLockstep
    BY <1>1 DEF InputsInLockstep
<1>6. now_at <= clock => now_at <= clock'
    BY <1>2
<1>7. QED
    BY <1>1, <1>3, <1>4, <1>5, <1>6, LoopFacts, SourceBehind DEF ClockOnly, LoopStep

\* The requests of a command.
LEMMA HandleRequestStep ==
  ASSUME NaturalTimes, LoopInv, HandleRequest
  PROVE  LoopStep
<1>1. phase = "handling" /\ UNCHANGED <<build, clock, phase, ended>>
    BY DEF HandleRequest
<1>2. panic = "none"
    BY DEF HandleRequest, AdvanceRequest, AdvanceDomain, CreateAttribute, RegisterSource,
           Transact, CloseInput, AttributeClash, Idle
<1>3. ASSUME NEW next \in T, AdvanceDomain(next), ahead' = (ahead \/ next > clock)
      PROVE  LoopStep
  <2>1. CASE PanicWith("advance_to")
      BY <1>1, <2>1, LoopFacts, PanicKept DEF LoopStep, Kept
  <2>2. CASE /\ Together(next)
             /\ UNCHANGED <<source, domain_probe, probed_source_count, streams, panic>>
    <3>1. next \in Nat /\ clock \in Nat
        BY ClockIsTime
    <3>2. ~ ahead' => ~ (next > clock)
        BY <1>3, Zenon
    <3>3. ~ (next > clock) => NextBehind(clock)
        BY <2>2, <3>1 DEF Together
    <3>4. QED
        BY <1>1, <1>2, <2>2, <3>2, <3>3, LoopFacts, SourceBehind DEF LoopStep, Together
  <2>3. QED
      BY <1>3, <2>1, <2>2, AdvanceTogether
<1>4. ASSUME Kept, panic' \in {panic, "clash"}, ahead' = ahead
      PROVE  LoopStep
    BY <1>1, <1>2, <1>4, LoopFacts DEF LoopStep, Kept
<1>5. CASE AdvanceRequest
    BY <1>3, <1>5 DEF AdvanceRequest
<1>6. CASE ~ AdvanceRequest
    BY <1>4, <1>6, RequestKept DEF HandleRequest
<1>7. QED
    BY <1>5, <1>6

\* The rest of a request.
LEMMA ContinueRequestStep ==
  ASSUME NaturalTimes, LoopInv, ContinueRequest
  PROVE  LoopStep
<1>1. /\ phase = "handling" /\ UNCHANGED <<build, clock, phase, ahead, ended>>
      /\ TransactDatom \/ RegisterStream
    BY DEF ContinueRequest
<1>2. panic = "none"
    BY <1>1 DEF TransactDatom, RegisterStream
<1>3. Kept /\ panic' \in {panic, "update_at", "two sources"}
    BY <1>1, TransactDatomKept, RegisterStreamKept
<1>4. QED
    BY <1>1, <1>2, <1>3, LoopFacts DEF LoopStep, Kept

\* A command that ends with the epoch and the inputs at the current time.
LEMMA EndedTogether ==
  ASSUME NaturalTimes, LoopInv, phase = "handling", phase' = "commands", ended' = clock,
         clock' = clock, now_at' = clock, InputsInLockstep', NextBehind(clock), panic' = "none",
         UNCHANGED <<source, domain_probe, probed_source_count, streams>>
  PROVE  LoopStep
<1>1. clock \in 0..MaxTime /\ clock \in Nat /\ clock > 0
    BY LoopFacts
<1>2. /\ \A t \in source' \cup domain_probe' : t <= clock
      /\ ~ RealTime => probed_source_count' = 0 /\ streams' = {}
    BY SourceBehind
<1>3. clock' \in 0..MaxTime /\ ended' \in Nat /\ clock' > 0 /\ ended' <= now_at'
      /\ now_at' <= clock' /\ now_at' = clock' /\ NextBehind(clock')
    BY <1>1
<1>4. QED
    BY <1>2, <1>3 DEF LoopStep

\* The advance at the end of a command brings everything to the current time,
\* or fails.
LEMMA EndCommandStep ==
  ASSUME NaturalTimes, LoopInv, EndCommand
  PROVE  LoopStep
<1>1. /\ phase = "handling" /\ phase' = "commands" /\ ended' = clock
      /\ ahead' = (ahead /\ panic' # "none") /\ UNCHANGED <<build, clock>>
      /\ panic = "none" /\ clock \in T
    BY ClockIsTime DEF EndCommand, Idle
<1>2. CASE AdvanceDomain(clock) /\ InputsMayAdvanceTo(clock)
  <2>1. /\ Together(clock)
        /\ UNCHANGED <<source, domain_probe, probed_source_count, streams, panic>>
      BY <1>1, <1>2, AdvanceTogether
  <2>2. NextBehind(clock) /\ now_at' = clock /\ InputsInLockstep'
      BY <2>1, LoopFacts DEF Together
  <2>3. QED
      BY <1>1, <2>1, <2>2, EndedTogether
<1>3. CASE clock = now_at /\ UNCHANGED vars
  <2>1. UNCHANGED <<now_at, inputs, session, source, domain_probe,
                    probed_source_count, panic, streams>>
      BY <1>3 DEF vars
  <2>2. InputsInLockstep
      BY <1>1, <1>3, LoopFacts
  <2>3. InputsInLockstep'
      BY <2>1, <2>2 DEF InputsInLockstep
  <2>4. NextBehind(clock)
    <3>1. \A a \in inputs : session[a].cap = now_at
        BY <2>2 DEF InputsInLockstep
    <3>2. now_at <= clock /\ \A a \in inputs : session[a].cap <= clock
        BY <1>3, <3>1, LoopFacts
    <3>3. QED
        BY <2>1, <3>2 DEF NextBehind
  <2>5. QED
      BY <1>1, <1>3, <2>1, <2>3, <2>4, EndedTogether
<1>4. CASE PanicWith("auto_advance") /\ ahead
  <2>1. Kept /\ panic' = "auto_advance" /\ panic' # "none"
      BY <1>4, PanicKept
  <2>2. ahead'
      BY <1>1, <1>4, <2>1, Zenon
  <2>3. QED
      BY <1>1, <2>1, <2>2, LoopFacts DEF LoopStep, Kept
<1>5. QED
    BY <1>2, <1>3, <1>4, EndIsAdvance

\* The worker steps, or the domain advances.
LEMMA StepAndAdvanceStep ==
  ASSUME NaturalTimes, LoopInv, StepAndAdvance
  PROVE  LoopStep
<1>1. phase = "commands" /\ UNCHANGED <<build, clock, phase, ahead, ended>>
    BY DEF StepAndAdvance
<1>2. CASE WorkerStep
  <2>1. /\ UNCHANGED <<now_at, inputs, session, source, probed_source_count,
                       panic, streams>>
        /\ domain_probe' = source /\ panic = "none"
      BY <1>2 DEF WorkerStep, configVars, dataVars, Idle
  <2>2. InputsInLockstep' /\ NextBehind(clock)
      BY <1>1, <2>1, LoopFacts DEF InputsInLockstep, InputsBehind, NextBehind
  <2>3. \A t \in source' \cup domain_probe' : t <= clock
      BY <2>1, SourceBehind
  <2>4. QED
      BY <1>1, <2>1, <2>2, <2>3, LoopFacts, SourceBehind DEF LoopStep
<1>3. CASE Advance
  <2>1. panic = "none"
      BY <1>3 DEF Advance, AdvanceToEpoch, AdvanceToSources, CatchUpWithSources, Idle
  <2>2. /\ NextBehind(clock) /\ InputsInLockstep' /\ now_at <= now_at'
        /\ ~ RealTime => now_at' = now_at
        /\ UNCHANGED <<source, domain_probe, probed_source_count, streams, panic>>
      BY <1>1, <1>3, <2>1, AdvanceKeepsStep
  <2>3. now_at' \in Nat
    <3>1. DomainInv'
        BY NextDomainInv, <1>3 DEF LoopInv, Next
    <3>2. now_at' \in T
        BY <3>1 DEF DomainInv, TypeOK
    <3>3. QED
        BY <3>2 DEF NaturalTimes
  <2>4. ended' <= now_at' /\ now_at' <= clock
      BY <1>1, <2>1, <2>2, <2>3, LoopFacts DEF NextBehind
  <2>5. QED
      BY <1>1, <2>1, <2>2, <2>4, LoopFacts, SourceBehind DEF LoopStep
<1>4. QED
    BY <1>2, <1>3 DEF StepAndAdvance

\* A source reads the clock.
LEMMA SourceProgressStep ==
  ASSUME NaturalTimes, LoopInv, SourceProgress
  PROVE  LoopStep
<1>1. PICK G \in {{}, {clock}} : SourceDowngrade(G)
    BY DEF SourceProgress
<1>2. /\ UNCHANGED <<now_at, inputs, session, domain_probe, probed_source_count,
                     panic, streams, build, clock, phase, ahead, ended>>
      /\ source' = G
    BY <1>1 DEF SourceProgress, SourceDowngrade, configVars, dataVars
<1>3. \A t \in source' \cup domain_probe' : t <= clock
    BY <1>2, SourceBehind, LoopFacts
<1>4. /\ InputsInLockstep' <=> InputsInLockstep
      /\ NextBehind(clock) <=> InputsBehind(clock)
    BY <1>2 DEF InputsInLockstep, NextBehind, InputsBehind
<1>5. QED
    BY <1>2, <1>3, <1>4, LoopFacts, SourceBehind DEF LoopStep

\* LoopInv is inductive.
LEMMA NextLoopInv ==
  ASSUME NaturalTimes, LoopInv, [LoopNext]_loopVars
  PROVE  LoopInv'
<1>1. DomainInv'
  <2>1. CASE [Next]_vars
      BY <2>1, NextDomainInv DEF LoopInv
  <2>2. CASE PanicWith("auto_advance")
    <3>1. "auto_advance" \in Panics
        BY DEF Panics
    <3>2. QED
        BY <2>2, <3>1, PanicDomainInv DEF LoopInv
  <2>3. QED
      BY <2>1, <2>2, LoopStepIsDomainStep
<1>2. CASE UNCHANGED loopVars \/ LoopDead
  <2>1. UNCHANGED loopVars
      BY <1>2 DEF LoopDead
  <2>2. /\ UNCHANGED vars /\ build' = build /\ ahead' = ahead /\ ended' = ended
        /\ clock' = clock /\ phase' = phase
      BY <2>1 DEF loopVars
  <2>3. ClockOnly
      BY <2>2, LoopFacts DEF ClockOnly
  <2>4. QED
      BY <1>1, <2>2, <2>3, ClockStep, LoopInvFrom
<1>3. CASE ClockRuns
  <2>1. clock' \in 0..MaxTime /\ clock' \in Nat /\ clock <= clock' /\ clock' > 0
      BY <1>3, CountWithin
  <2>2. ClockOnly
      BY <1>3, <2>1 DEF ClockRuns, ClockOnly
  <2>3. QED
      BY <1>1, <2>2, ClockStep, LoopInvFrom DEF ClockOnly
<1>4. CASE BeginCommand
  <2>1. clock' \in 0..MaxTime /\ clock' \in Nat /\ clock <= clock' /\ clock' > 0
    <3>1. CountCommand
        BY <1>4 DEF BeginCommand
    <3>2. QED
        BY <3>1, CountWithin
  <2>2. ClockOnly
      BY <1>4, <2>1 DEF BeginCommand, Idle, ClockOnly
  <2>3. QED
      BY <1>1, <2>2, ClockStep, LoopInvFrom DEF ClockOnly
<1>5. CASE HandleRequest
    BY <1>1, <1>5, HandleRequestStep, LoopInvFrom DEF HandleRequest
<1>6. CASE ContinueRequest
    BY <1>1, <1>6, ContinueRequestStep, LoopInvFrom DEF ContinueRequest
<1>7. CASE EndCommand
    BY <1>1, <1>7, EndCommandStep, LoopInvFrom DEF EndCommand
<1>8. CASE StepAndAdvance
    BY <1>1, <1>8, StepAndAdvanceStep, LoopInvFrom DEF StepAndAdvance
<1>9. CASE SourceProgress
    BY <1>1, <1>9, SourceProgressStep, LoopInvFrom DEF SourceProgress
<1>10. QED
    BY <1>2, <1>3, <1>4, <1>5, <1>6, <1>7, <1>8, <1>9 DEF LoopNext

\* The loop starts with an empty domain at the minimum.
LEMMA InitLoopInv == NaturalTimes /\ LoopInit => LoopInv
<1> SUFFICES ASSUME NaturalTimes, LoopInit PROVE LoopInv
    OBVIOUS
<1>1. DomainInv
    BY InitDomainInv DEF LoopInit
<1>2. /\ clock = (IF RealTime THEN 1 ELSE 0) /\ now_at = 0 /\ inputs = {} /\ source = {}
      /\ domain_probe = {} /\ probed_source_count = 0 /\ streams = {} /\ panic = "none"
      /\ MaxTime \in Nat \ {0} /\ phase = "commands" /\ ended = 0
    BY DEF LoopInit, Init, NaturalTimes
<1>3. /\ clock \in 0..MaxTime /\ now_at <= clock /\ ended <= now_at /\ ended \in Nat
      /\ (phase = "handling" \/ RealTime => clock > 0) /\ (~ RealTime => now_at = clock)
    BY <1>2
<1>4. QED
    BY <1>1, <1>2, <1>3
    DEF LoopInv, InputsBehind, LoopNeverPanics, LockstepBetweenCommands, EpochFollowsClock,
        InputsInLockstep
-----------------------------------------------------------------------------
\* LoopInv holds in every state of the command loop with automatic advance,
\* whatever requests its commands consist of.
THEOREM LoopInvariant == ASSUME NaturalTimes PROVE LoopSpec => []LoopInv
<1>1. LoopInit => LoopInv
    BY InitLoopInv
<1>2. LoopInv /\ [LoopNext]_loopVars => LoopInv'
    BY NextLoopInv
<1>3. QED
    BY <1>1, <1>2, PTL DEF LoopSpec

\* The expect around the automatic advance (server/src/main.rs) fails only if
\* a client has asked, in the same command, for an epoch past the current
\* time, and the one around Domain::advance never does, in either build and
\* however late attributes are composed.
THEOREM LoopStaysUp == ASSUME NaturalTimes PROVE LoopSpec => []LoopNeverPanics
<1>1. LoopInv => LoopNeverPanics
    BY DEF LoopInv
<1>2. QED
    BY <1>1, LoopInvariant, PTL

\* Between two commands every open input is at the epoch, flushed.
THEOREM LoopLockstep == ASSUME NaturalTimes PROVE LoopSpec => []LockstepBetweenCommands
<1>1. LoopInv => LockstepBetweenCommands
    BY DEF LoopInv
<1>2. QED
    BY <1>1, LoopInvariant, PTL

\* Between two commands the epoch is the current time (u64 build), or between
\* the end of the last command and the current time (real-time build).
THEOREM LoopEpoch == ASSUME NaturalTimes PROVE LoopSpec => []EpochFollowsClock
<1>1. LoopInv => EpochFollowsClock
    BY DEF LoopInv
<1>2. QED
    BY <1>1, LoopInvariant, PTL

\* As long as no client asks for an epoch past the current time, the loop
\* implements the domain's specification: its requests, automatic advances
\* and clock take the domain through steps that Domain allows clients, worker
\* and source in any order, so all that is proved of Domain holds in the loop.
THEOREM LoopImplementsDomain ==
  ASSUME NaturalTimes PROVE LoopSpec /\ [](~ ahead) => Spec
<1>1. LoopInit => Init
    BY DEF LoopInit
<1>2. LoopInv /\ ~ ahead /\ [LoopNext]_loopVars => [Next]_vars
    BY LoopStepIsDomainStep
<1>3. QED
    BY <1>1, <1>2, LoopInvariant, PTL DEF LoopSpec, Spec
=============================================================================
