-------------------------------- MODULE Domain --------------------------------
(***************************************************************************)
(* A worker's domain (domain/mod.rs): attributes that share a timestamp    *)
(* semantics, fed by clients through input sessions or by one probed       *)
(* external source, and read through traces that are compacted up to a     *)
(* frontier.  Requests reach it one at a time through the server's command *)
(* loop (server/mod.rs, server/src/main.rs); the source and the timely     *)
(* worker that reports its progress run beside it.                         *)
(***************************************************************************)
EXTENDS UnorderedSession, Sequences

CONSTANTS
  Attrs,            \* attribute names
  None,             \* Option::None
  Slacks,           \* trace slacks clients configure, a subset of T
  MaxUpdates,       \* bound: datoms transacted in a behaviour
  MaxBatch,         \* bound: datoms in one Transact request
  LateComposition   \* may attributes be added once time has moved?

ASSUME DomainAssumption ==
  /\ None \notin T
  /\ Slacks \subseteq T
  /\ MaxUpdates \in Nat /\ MaxBatch \in Nat
  /\ BufferCapacity \in Nat \ {0}
  /\ LateComposition \in BOOLEAN

VARIABLES
  attributes,           \* names with an installed AttributeConfig
  slack,                \* AttributeConfig.trace_slack of each of them
  now_at,               \* current input epoch
  last_advance,         \* frontier of the last trace advance
  inputs,               \* attributes with an entry in input_sessions
  session,              \* that entry
  probed_source_count,  \* number of probed sources
  domain_probe,         \* frontier the domain's probe reports
  trace,                \* compaction frontier of each attribute's traces
  streams,              \* streams of the running RegisterSource request
  tx,                   \* datoms of the running Transact request still to apply
  panic                 \* the assertion that ended the process, or "none"

\* The world around the domain.
VARIABLES
  source,    \* frontier of the capabilities the probed source still holds
  sourced,   \* attributes fed by that source
  updates,   \* history: every datom accepted, [attr, time], indexed by id
  shipped    \* history: every message given to the timely inputs

dataVars == <<streams, tx, updates, shipped>>
sourceVars == <<probed_source_count, domain_probe, source, sourced>>
configVars == <<attributes, slack, inputs>>
vars == <<attributes, slack, now_at, last_advance, inputs, session,
          probed_source_count, domain_probe, trace, streams, tx, panic,
          source, sourced, updates, shipped>>

\* Reasons to panic: the assertions of the code, by the operation they guard.
Panics ==
  {"none", "clash", "two sources", "update_at", "advance_to", "advance", "auto_advance"}

Datom == [attr : Attrs, time : T \cup {None}]

\* Domain::new(Default::default()), as Server::new_at creates it.
Init ==
  /\ attributes = {} /\ slack = [a \in Attrs |-> None]
  /\ now_at = Minimum /\ last_advance = {Minimum}
  /\ inputs = {} /\ session = [a \in Attrs |-> NewSession]
  /\ probed_source_count = 0 /\ domain_probe = {}
  /\ trace = [a \in Attrs |-> {Minimum}]
  /\ streams = {} /\ tx = <<>> /\ panic = "none"
  /\ source = {} /\ sourced = {}
  /\ updates = <<>> /\ shipped = {}

\* The worker is alive and between two requests.
Idle == panic = "none" /\ tx = <<>> /\ streams = {}

\* An assertion failed: the worker is gone and nothing changes any more.
PanicWith(reason) ==
  /\ panic' = reason
  /\ UNCHANGED <<configVars, now_at, last_advance, session, sourceVars, trace, dataVars>>
-----------------------------------------------------------------------------
(***************************************************************************)
(* Composition: `internal += singleton`, where the singleton was built at  *)
(* the minimal time by as_singleton_domain.                                *)
(***************************************************************************)

\* Environment: late composition can be excluded.
MayCompose == LateComposition \/ (now_at = Minimum /\ last_advance = {Minimum})

\* The epoch of a composed domain, for a singleton at the minimum.
ComposedEpoch == Meet(now_at, Minimum)

\* The part of add_assign that is the same for every kind of attribute.
AddAttribute(a, s) ==
  /\ attributes' = attributes \cup {a}
  /\ slack' = [slack EXCEPT ![a] = s]
  /\ trace' = [trace EXCEPT ![a] = {Minimum}]
  /\ now_at' = ComposedEpoch
  /\ UNCHANGED <<last_advance, panic, tx, updates, shipped>>

\* A probe handle that is connected to nothing replaces the domain's own
\* one as long as the domain has no sources.
TakeOverIdleProbe ==
  /\ domain_probe' = IF probed_source_count = 0 THEN {} ELSE domain_probe
  /\ UNCHANGED <<probed_source_count, source, sourced, streams>>

\* CreateAttribute: an attribute with an input session.
CreateAttribute(a, s) ==
  /\ Idle /\ MayCompose /\ a \notin attributes
  /\ AddAttribute(a, s)
  /\ TakeOverIdleProbe
  /\ inputs' = inputs \cup {a}
  /\ session' = [session EXCEPT ![a] = NewSession]

\* An external stream without timestamps: neither a session nor a probe.
AddTimelessStream(a, s) ==
  /\ Idle /\ MayCompose /\ a \notin attributes
  /\ AddAttribute(a, s)
  /\ TakeOverIdleProbe
  /\ UNCHANGED <<inputs, session>>

\* RegisterSource of a source that publishes the attributes aids; its streams
\* are then composed one by one.
RegisterSource(aids) ==
  /\ Idle /\ MayCompose
  /\ aids # {} /\ aids \cap attributes = {}
  /\ streams' = aids
  /\ UNCHANGED <<configVars, now_at, last_advance, session, sourceVars, trace,
                 tx, updates, shipped, panic>>

\* One stream of the source.  The probe reports the source's initial
\* capability once the worker has stepped, which the command loop does
\* before it reads the probe.
ComposeStream(a, s) ==
  /\ probed_source_count = 0
  /\ AddAttribute(a, s)
  /\ probed_source_count' = 1
  /\ domain_probe' = {Minimum} /\ source' = {Minimum}
  /\ sourced' = sourced \cup {a}
  /\ streams' = IF streams = {a} THEN {} ELSE streams
  /\ UNCHANGED <<inputs, session>>

\* assert!(... "Domain composition not supported for two domains with
\* external sources.")
ComposeAnotherSource == probed_source_count > 0 /\ PanicWith("two sources")

RegisterStream ==
  /\ panic = "none"
  /\ \E a \in streams \ sourced :
       \/ \E s \in Slacks \cup {None} : ComposeStream(a, s)
       \/ ComposeAnotherSource

\* assert!(... "Domain attributes clash.")
AttributeClash(a) ==
  /\ Idle /\ MayCompose /\ a \in attributes
  /\ PanicWith("clash")

Compose ==
  \/ \E a \in Attrs :
       \/ \E s \in Slacks \cup {None} : CreateAttribute(a, s) \/ AddTimelessStream(a, s)
       \/ AttributeClash(a)
  \/ \E aids \in SUBSET Attrs : RegisterSource(aids)
  \/ RegisterStream
-----------------------------------------------------------------------------
(***************************************************************************)
(* Transact.  The datoms of a request are applied in order, one per step;  *)
(* nothing else runs on the worker until the request is done.              *)
(***************************************************************************)
Transact(batch) ==
  /\ Idle
  /\ Len(updates) + Len(batch) <= MaxUpdates
  /\ tx' = batch
  /\ UNCHANGED <<configVars, now_at, last_advance, session, sourceVars, trace,
                 panic, streams, updates, shipped>>

\* Accept datom d at time t into its session.
AcceptAt(d, t) ==
  LET s == session[d.attr]
      u == [id |-> Len(updates) + 1, time |-> t]
  IN /\ session' = [session EXCEPT ![d.attr] = Pushed(s, u)]
     /\ shipped' = shipped \cup ShippedByPush(s)
     /\ updates' = Append(updates, [attr |-> d.attr, time |-> t])
     /\ tx' = Tail(tx)
     /\ UNCHANGED <<configVars, now_at, last_advance, sourceVars, trace, streams, panic>>

TransactUpdate(d) == d.attr \in inputs /\ d.time = None /\ AcceptAt(d, UpdateTime(session[d.attr]))

TransactUpdateAt(d) ==
  /\ d.attr \in inputs /\ d.time # None
  /\ MayUpdateAt(session[d.attr], d.time)
  /\ AcceptAt(d, d.time)

\* assert!(self.cap.time().less_equal(&time)) fails.
TransactTooEarly(d) ==
  /\ d.attr \in inputs /\ d.time # None
  /\ ~MayUpdateAt(session[d.attr], d.time)
  /\ PanicWith("update_at")

\* Unknown attribute: the request fails, what was applied before it stays.
TransactNotFound(d) ==
  /\ d.attr \notin inputs
  /\ tx' = <<>>
  /\ UNCHANGED <<configVars, now_at, last_advance, session, sourceVars, trace,
                 panic, streams, updates, shipped>>

TransactDatom ==
  /\ panic = "none" /\ tx # <<>>
  /\ LET d == Head(tx)
     IN TransactUpdate(d) \/ TransactUpdateAt(d) \/ TransactTooEarly(d) \/ TransactNotFound(d)

\* CloseInput: the session is removed; dropping it flushes it.
CloseInput(a) ==
  /\ Idle /\ a \in inputs
  /\ inputs' = inputs \ {a}
  /\ shipped' = shipped \cup ShippedByFlush(session[a])
  /\ session' = [session EXCEPT ![a] = Flushed(@)]
  /\ UNCHANGED <<attributes, slack, now_at, last_advance, sourceVars, trace,
                 streams, tx, panic, updates>>
-----------------------------------------------------------------------------
(***************************************************************************)
(* Advancing.                                                              *)
(***************************************************************************)

\* advance_epoch past its guard: every session is advanced and flushed.
Forwarded(s, next) == Flushed(AdvancedTo(s, next))

ForwardInputs(next) ==
  /\ now_at' = next
  /\ session' = [a \in Attrs |-> IF a \in inputs THEN Forwarded(session[a], next)
                                                 ELSE session[a]]
  /\ shipped' = shipped \cup
       UNION {ShippedByFlush(AdvancedTo(session[a], next)) : a \in inputs}

InputsMayAdvanceTo(next) == \A a \in inputs : MayAdvanceTo(session[a], next)

\* The guard of advance_epoch; a request that does not pass it is an error
\* (time cannot be rewound) or, for next = now_at, does nothing.
MayAdvanceEpoch(next) == LessEqual(now_at, next)

\* Faulty variant: the comparison with last_advance is missing.
AdvanceTracesUnguarded(frontier) ==
  /\ last_advance' = frontier
  /\ trace' = [a \in Attrs |->
       IF a \in attributes /\ slack[a] # None
       THEN {Rewind(t, slack[a]) : t \in frontier}
       ELSE trace[a]]

\* advance_traces.
AdvanceTraces(frontier) ==
  IF \E t \in frontier : FrontierLessThan(last_advance, t)
  THEN /\ last_advance' = frontier
       /\ trace' = [a \in Attrs |->
            IF a \in attributes /\ slack[a] # None
            THEN {Rewind(t, slack[a]) : t \in frontier}
            ELSE trace[a]]
  ELSE UNCHANGED <<last_advance, trace>>

\* AdvanceDomain request of a client.
AdvanceDomain(next) ==
  /\ Idle /\ MayAdvanceEpoch(next) /\ next # now_at
  /\ IF InputsMayAdvanceTo(next)
     THEN /\ ForwardInputs(next)
          /\ UNCHANGED <<configVars, last_advance, sourceVars, trace, streams, tx, panic, updates>>
     ELSE PanicWith("advance_to")

\* Faulty variant: sources that have ceased still hold the traces back.
AdvanceToEpochUnsourced ==
  /\ Idle /\ probed_source_count = 0
  /\ AdvanceTraces({now_at})
  /\ UNCHANGED <<configVars, now_at, session, sourceVars, dataVars, panic>>

\* advance() of a domain whose sources are absent or have ceased.
AdvanceToEpoch ==
  /\ Idle /\ (probed_source_count = 0 \/ domain_probe = {})
  /\ AdvanceTraces({now_at})
  /\ UNCHANGED <<configVars, now_at, session, sourceVars, dataVars, panic>>

\* Faulty variant: the traces follow the largest element of the frontier,
\* instead of the whole frontier.
AdvanceToSourcesAtMax ==
  /\ Idle /\ probed_source_count > 0
  /\ FrontierLessEqual(domain_probe, now_at)
  /\ AdvanceTraces({OrdMax(domain_probe)})
  /\ UNCHANGED <<configVars, now_at, session, sourceVars, dataVars, panic>>

\* advance() when the inputs keep up with the sources.
AdvanceToSources ==
  /\ Idle /\ probed_source_count > 0
  /\ FrontierLessEqual(domain_probe, now_at)
  /\ AdvanceTraces(domain_probe)
  /\ UNCHANGED <<configVars, now_at, session, sourceVars, dataVars, panic>>

\* Faulty variant: the inputs are left behind.
CatchUpTracesOnly ==
  /\ Idle /\ probed_source_count > 0 /\ domain_probe # {}
  /\ ~FrontierLessEqual(domain_probe, now_at)
  /\ AdvanceTraces(domain_probe)
  /\ UNCHANGED <<configVars, now_at, session, sourceVars, dataVars, panic>>

\* advance() when the inputs have fallen behind the sources.  The command
\* loop expects it to succeed.
CatchUpWithSources ==
  /\ Idle /\ probed_source_count > 0 /\ domain_probe # {}
  /\ ~FrontierLessEqual(domain_probe, now_at)
  /\ LET next == OrdMax(domain_probe)
     IN IF ~MayAdvanceEpoch(next) THEN PanicWith("advance")
        ELSE IF ~InputsMayAdvanceTo(next) THEN PanicWith("advance_to")
        ELSE /\ ForwardInputs(next)
             /\ AdvanceTraces(domain_probe)
             /\ UNCHANGED <<configVars, sourceVars, streams, tx, panic, updates>>

Advance == AdvanceToEpoch \/ AdvanceToSources \/ CatchUpWithSources
-----------------------------------------------------------------------------
(***************************************************************************)
(* The source and the timely worker.                                       *)
(***************************************************************************)
IsAntichain(F) == \A f, g \in F : LessEqual(f, g) => f = g

\* The source downgrades its capabilities, or drops them (G = {}).
SourceDowngrade(G) ==
  /\ panic = "none" /\ sourced # {}
  /\ G # source /\ IsAntichain(G) /\ FrontierReached(source, G)
  /\ source' = G
  /\ UNCHANGED <<configVars, now_at, last_advance, session, probed_source_count,
                 domain_probe, trace, dataVars, sourced, panic>>

\* worker.step() lets the source's progress reach the probe.
WorkerStep ==
  /\ Idle /\ probed_source_count > 0
  /\ domain_probe' = source
  /\ UNCHANGED <<configVars, now_at, last_advance, session, probed_source_count,
                 trace, dataVars, source, sourced, panic>>

\* A panicked process stays as it is.
Dead == panic # "none" /\ UNCHANGED vars

Batches == UNION {[1..n -> Datom] : n \in 1..MaxBatch}

Next ==
  \/ Compose
  \/ \E batch \in Batches : Transact(batch)
  \/ TransactDatom
  \/ \E a \in Attrs : CloseInput(a)
  \/ \E next \in T : AdvanceDomain(next)
  \/ Advance
  \/ \E G \in SUBSET T : SourceDowngrade(G)
  \/ WorkerStep
  \/ Dead

Spec == Init /\ [][Next]_vars
-----------------------------------------------------------------------------
(***************************************************************************)
(* Properties.                                                             *)
(***************************************************************************)

\* Every variable of the domain has its type.
TypeOK ==
  /\ attributes \in SUBSET Attrs
  /\ slack \in [Attrs -> T \cup {None}]
  /\ now_at \in T /\ last_advance \in SUBSET T
  /\ inputs \in SUBSET attributes
  /\ session \in [Attrs -> Session]
  /\ probed_source_count \in {0, 1}
  /\ domain_probe \in SUBSET T /\ source \in SUBSET T
  /\ sourced \in SUBSET attributes
  /\ trace \in [Attrs -> SUBSET T]
  /\ streams \in SUBSET Attrs /\ tx \in Seq(Datom) /\ panic \in Panics
  /\ updates \in Seq([attr : Attrs, time : T])
  /\ shipped \in SUBSET Message

\* The messages update id was shipped in, and the attributes whose session
\* still buffers it.
MessagesOf(id) == {m \in shipped : m.id = id}
BufferedIn(id) == {a \in Attrs : \E u \in session[a].buffer : u.id = id}

\* Every datom that Transact accepted is in exactly one place: in the buffer
\* of its attribute's open session, or in one message shipped to the dataflow,
\* with the time it was accepted at.  Full buffers, flushes and closed inputs
\* neither lose an update nor send it twice.
NoUpdateLostOrDuplicated ==
  \A id \in DOMAIN updates :
    LET u == updates[id]
        mine == [id |-> id, time |-> u.time]
    IN \/ /\ u.attr \in inputs /\ mine \in session[u.attr].buffer
          /\ BufferedIn(id) = {u.attr} /\ MessagesOf(id) = {}
       \/ /\ BufferedIn(id) = {}
          /\ \E m \in shipped : m.time = u.time /\ MessagesOf(id) = {m}

\* flush() ships the buffer before it delays the capability: no update enters
\* the dataflow under a capability that is not at or before its time, however
\* update, update_at and advance_epoch interleave.
ShippedUnderValidCapability == \A m \in shipped : LessEqual(m.cap, m.time)

\* advance_traces never compacts past what can still arrive: whatever an open
\* session may still send, and whatever the probed source may still send, is
\* distinguishable in the attribute's traces, although the probe lags behind
\* the source and the epoch moves independently of both.
CompactionBehindInputs ==
  /\ \A a \in inputs :
       /\ FrontierLessEqual(trace[a], session[a].cap)
       /\ \A u \in session[a].buffer : FrontierLessEqual(trace[a], u.time)
  /\ \A a \in sourced : FrontierReached(trace[a], source)

\* The inductive strengthening of the two properties above.  Between requests
\* every open session is flushed and at or past the epoch (composition only
\* takes the epoch back), what it buffers is not before its capability, the
\* probe never runs ahead of the source it watches, and a source that is being
\* registered publishes new attributes only.
DomainInv ==
  /\ TypeOK
  /\ \A a \in inputs :
       /\ session[a].time = session[a].cap
       /\ LessEqual(now_at, session[a].cap)
       /\ \A u \in session[a].buffer : LessEqual(session[a].cap, u.time)
       /\ FrontierLessEqual(trace[a], session[a].cap)
  /\ \A a \in sourced : FrontierReached(trace[a], source)
  /\ probed_source_count = 0 => sourced = {}
  /\ probed_source_count # 0 => FrontierReached(domain_probe, source)
  /\ streams \cap attributes \subseteq sourced
  /\ ShippedUnderValidCapability

\* The traces of an attribute are never advanced to a frontier behind the one
\* they were advanced to before (what compaction merged stays merged), although
\* composition takes the epoch back.  The exception is the first advances of
\* a domain that is younger than the slack, which rewind() does not subtract.
TracesNeverMoveBack ==
  [][\A a \in attributes :
       \/ FrontierReached(trace[a], trace'[a])
       \/ slack[a] # None /\ ~FrontierReached({slack[a]}, last_advance)]_vars

\* What TracesNeverMoveBack needs of the timestamps: they are totally ordered,
\* as u64 and Duration are, and rewind() keeps the order of times it can subtract
\* from.
LinearTimes ==
  /\ \A s, t \in T : LessEqual(s, t) \/ LessEqual(t, s)
  /\ \A s, t, k \in T :
       LessEqual(k, s) /\ LessEqual(s, t) => LessEqual(Rewind(s, k), Rewind(t, k))

\* Its inductive strengthening: the traces of an attribute have not been advanced
\* since it was composed, or are where the last advance put them, and the probe
\* reports an antichain.
TracesAtLastAdvance ==
  /\ IsAntichain(source) /\ IsAntichain(domain_probe)
  /\ \A a \in attributes :
       \/ trace[a] = {Minimum}
       \/ slack[a] # None /\ trace[a] = {Rewind(t, slack[a]) : t \in last_advance}

\* All open inputs are exactly at the domain epoch, flushed ("timeless
\* attributes must be automatically advanced in lockstep").
InputsInLockstep ==
  \A a \in inputs : session[a].time = now_at /\ session[a].cap = now_at

\* The assertions in UnorderedSession::advance_to hold whenever the domain
\* forwards its sessions.
SessionsNeverRewind == panic # "advance_to"
=============================================================================
