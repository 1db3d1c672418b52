----------------------------- MODULE CommandLoop -----------------------------
(***************************************************************************)
(* The domain inside the server's command loop (server/src/main.rs) with   *)
(* automatic advance: a command is a list of requests, whatever they ask   *)
(* for, and ends with one advance_epoch to the current time, which the     *)
(* loop expects to work.  In the u64 build the current time is the number  *)
(* of commands so far; in the real-time build it is the worker's clock,    *)
(* and sources are available, which stamp what they read with the same     *)
(* clock.                                                                  *)
(***************************************************************************)
EXTENDS Domain

CONSTANTS
  MaxTime,         \* bound: commands, or readings of the clock
  Builds           \* feature "real-time" or the default, "u64"

VARIABLES
  build,   \* which of the builds it is
  clock,   \* next_tx, or Instant::now() - worker.timer()
  phase,   \* "commands": between two commands; "handling": in the middle of one
  ahead,   \* history: has the running command asked for a later epoch?
  ended    \* history: the current time at the end of the last command

loopVars == <<vars, build, clock, phase, ahead, ended>>

RealTime == build = "real-time"

\* The first command is handled after the worker's timer was started.
LoopInit ==
  /\ Init /\ build \in Builds /\ phase = "commands"
  /\ clock = (IF RealTime THEN 1 ELSE 0)
  /\ ahead = FALSE /\ ended = 0

\* next_tx += 1 at the start of a command.  The real-time clock runs by itself.
CountCommand ==
  IF RealTime THEN UNCHANGED clock ELSE clock < MaxTime /\ clock' = clock + 1

ClockRuns ==
  /\ RealTime /\ clock < MaxTime /\ clock' = clock + 1
  /\ UNCHANGED <<vars, build, phase, ahead, ended>>

BeginCommand ==
  /\ phase = "commands" /\ Idle /\ phase' = "handling"
  /\ CountCommand
  /\ UNCHANGED <<vars, build, ahead, ended>>

\* A request of a client that advances the domain, as far as it likes.
AdvanceRequest ==
  \E next \in T : AdvanceDomain(next) /\ ahead' = (ahead \/ next > clock)

\* The requests that change the domain.
HandleRequest ==
  /\ phase = "handling"
  /\ \/ AdvanceRequest
     \/ /\ \/ \E a \in Attrs, s \in Slacks \cup {None} : CreateAttribute(a, s)
           \/ RealTime /\ probed_source_count = 0 /\ \E a \in Attrs : RegisterSource({a})
           \/ \E batch \in Batches : batch[1].time = None /\ Transact(batch)
           \/ \E a \in Attrs : CloseInput(a)
           \/ \E a \in Attrs : AttributeClash(a)
        /\ UNCHANGED ahead
  /\ UNCHANGED <<build, clock, phase, ended>>

\* The rest of a request that takes several steps.
ContinueRequest ==
  /\ phase = "handling" /\ (TransactDatom \/ RegisterStream)
  /\ UNCHANGED <<build, clock, phase, ahead, ended>>

\* Faulty variant: the epoch moves and the inputs stay.
AdvanceEpochAlone(next) ==
  /\ now_at' = next
  /\ UNCHANGED <<configVars, last_advance, session, sourceVars, trace, dataVars, panic>>

\* Faulty variant: a domain with sources is left to follow them.
AdvanceEpochUnsourced(next) ==
  IF probed_source_count > 0 \/ ~ MayAdvanceEpoch(next) \/ ~ InputsMayAdvanceTo(next)
  THEN UNCHANGED vars
  ELSE ForwardInputs(next) /\ UNCHANGED <<configVars, last_advance, sourceVars, trace,
                                           streams, tx, panic, updates>>

\* Domain::advance_epoch(next).expect(...): time would be rewound, or an input
\* is already past it.
AdvanceEpochTo(next) ==
  IF ~ MayAdvanceEpoch(next) THEN PanicWith("auto_advance")
  ELSE IF next = now_at THEN UNCHANGED vars
  ELSE IF ~ InputsMayAdvanceTo(next) THEN PanicWith("auto_advance")
  ELSE ForwardInputs(next) /\ UNCHANGED <<configVars, last_advance, sourceVars, trace,
                                           streams, tx, panic, updates>>

EndCommand ==
  /\ phase = "handling" /\ Idle /\ phase' = "commands"
  /\ AdvanceEpochTo(clock)
  /\ ended' = clock
  /\ ahead' = (ahead /\ panic' # "none")
  /\ UNCHANGED <<build, clock>>

\* The rest of an iteration: the worker steps, and the domain advances.
StepAndAdvance ==
  /\ phase = "commands" /\ (WorkerStep \/ Advance)
  /\ UNCHANGED <<build, clock, phase, ahead, ended>>

\* Faulty variant: a source runs ahead of the clock.
SourceProgressAhead ==
  /\ \E G \in SUBSET T : SourceDowngrade(G)
  /\ UNCHANGED <<build, clock, phase, ahead, ended>>

\* Sources downgrade their capabilities to the time they read off the clock.
SourceProgress ==
  /\ \E G \in {{}, {clock}} : SourceDowngrade(G)
  /\ UNCHANGED <<build, clock, phase, ahead, ended>>

LoopDead == panic # "none" /\ UNCHANGED loopVars

LoopNext ==
  \/ ClockRuns \/ BeginCommand \/ HandleRequest \/ ContinueRequest \/ EndCommand
  \/ StepAndAdvance \/ SourceProgress \/ LoopDead

LoopSpec == LoopInit /\ [][LoopNext]_loopVars

\* A command has finitely many requests, so it ends.  The loop steps the
\* worker and calls advance() in every iteration, and an iteration always
\* ends: only worker.step() feeds the sequencer, so the inner loop drains
\* finitely many commands.  However many arrive, both are therefore taken again and again
\* (strong fairness, as a running command disables them).  The clock, clients
\* and the source owe nothing.
LoopFairness ==
  /\ WF_loopVars(ContinueRequest) /\ SF_loopVars(EndCommand)
  /\ SF_loopVars(phase = "commands" /\ Advance /\ UNCHANGED <<build, clock, phase, ahead, ended>>)
  /\ SF_loopVars(phase = "commands" /\ WorkerStep /\ UNCHANGED <<build, clock, phase, ahead, ended>>)

LoopFairSpec == LoopSpec /\ LoopFairness
-----------------------------------------------------------------------------
\* The loop's `expect`s hold: the domain's own advance never fails, and the
\* automatic one that ends a command only if a client has asked, in that very
\* command, for an epoch past the current time.  Any other sequence of
\* requests is survived, although attributes composed late take the epoch
\* back and sources push it forward.  (What a client's own AdvanceDomain may
\* run into while it is handled is another matter: SessionsNeverRewind.)
LoopNeverPanics ==
  /\ panic # "advance" /\ (panic = "advance_to" => phase = "handling")
  /\ panic = "auto_advance" => ahead

\* Whatever the requests of a command did, afterwards all open inputs are at
\* the epoch again, so that the next datom without a time is not accepted in
\* the past of another input ("advanced in lockstep", also after a late
\* composition).
LockstepBetweenCommands ==
  phase = "commands" /\ panic = "none" => InputsInLockstep

\* Between commands the epoch lies between the end of the last command and the
\* current time, so it has not been taken back by what the command composed;
\* in the u64 build it is the number of the last command.
EpochFollowsClock ==
  phase = "commands" /\ panic = "none" =>
    /\ ended <= now_at /\ now_at <= clock
    /\ ~ RealTime => now_at = clock

\* Timeless attributes never block overall progress: once the source has
\* passed t, or may not send at t any more, every open input gets past t too,
\* unless the process died of a request that breaks an assertion.
InputsFollowSource ==
  \A t \in T :
    (source # {} /\ ~FrontierLessEqual(source, t))
      ~> (panic # "none" \/ source = {}
            \/ \A a \in inputs : ~LessEqual(session[a].cap, t))

\* Composed when the traces had already been advanced to the current epoch.
AwaitsAdvance(a) == trace[a] = {Minimum} /\ last_advance = {now_at}

\* Traces follow the domain: once the epoch is past t and there are no sources,
\* or all of them have ceased, every attribute with a slack is compacted up to
\* an epoch past t, less its slack ("we still want to advance all traces to
\* the current epoch"), also where attributes are composed late; only such an
\* attribute may have to wait for the next epoch.
TracesFollowEpoch ==
  \A t \in T :
    (phase = "commands" /\ source = {} /\ LessThan(t, now_at))
      ~> (panic # "none" \/ source # {}
            \/ \E e \in T :
                 /\ LessThan(t, e)
                 /\ \A a \in attributes :
                      slack[a] # None => trace[a] = {Rewind(e, slack[a])} \/ AwaitsAdvance(a))

\* The times of both builds: a total order that starts at 0, of which the
\* current time is a member.
NaturalTimes ==
  /\ MaxTime \in Nat \ {0} /\ T = 0..MaxTime /\ Minimum = 0
  /\ \A s, t \in T : LessEqual(s, t) <=> s <= t

\* No epoch and no input is past time c.
InputsBehind(c) == now_at <= c /\ \A a \in inputs : session[a].cap <= c

\* The inductive strengthening of the first three properties above.  In the
\* middle of a command the epoch may have been taken back to the minimum, the
\* inputs may then be out of step, and a client may have pushed them past the
\* current time.  An epoch past the minimum means that the inputs are at it:
\* this is why the advance that ends the command, if it succeeds, brings all
\* of them together, even where it finds the epoch at the current time and
\* does nothing.
LoopInv ==
  /\ DomainInv
  /\ clock \in 0..MaxTime /\ ended \in Nat
  /\ phase = "handling" \/ RealTime => clock > 0
  /\ now_at # 0 => InputsInLockstep
  /\ panic = "none" /\ (phase = "commands" \/ ~ ahead) => InputsBehind(clock)
  /\ \A t \in source \cup domain_probe : t <= clock
  /\ ~ RealTime => probed_source_count = 0 /\ streams = {}
  /\ LoopNeverPanics /\ LockstepBetweenCommands /\ EpochFollowsClock
=============================================================================
