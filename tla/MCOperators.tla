------------------------------ MODULE MCOperators ------------------------------
(***************************************************************************)
(* The stateful parts that share nothing with one another: an index under  *)
(* compaction, an extender, the last_write_wins operator, the AssocIn      *)
(* sink, the sources fed from logs, the frontier scheduler and the loop    *)
(* with its timer.  A behaviour picks one of them and the others stay as   *)
(* they start, so that what is explored is each of them alone.             *)
(***************************************************************************)
EXTENDS TraceCompaction, Extender, LastWriteWins, AssocIn, LogSources, FrontierScheduling,
        Polling, Timestamp, TLC

CONSTANTS
  MaxUpdates,    \* bound on the updates in the indexes
  MaxRequests,   \* bound on the requests of an extender
  NS             \* nanoseconds, which the clock counts, in a second

VARIABLE part

\* Bitemporal times with coordinates up to 1.
Pairs == {Pair(s, t) : s, t \in 0 .. 1}
Origin == Pair(0, 0)

\* Clients tick where the interval is the shorter one.
SomeTicks == 1 :> 1 @@ 2 :> 0

AsDuration(t) == Duration(0, t, NS)
CoarsenNanos(t, w) ==
  LET d == DurationCoarsen(AsDuration(t), AsDuration(w), NS) IN d.secs * NS + d.nanos

\* Attributes of two entities, one of them nested.
PullPaths == {<<"e", "name">>, <<"e", "friend", "f", "name">>}

\* The attribute of the nested one may have several values.
NestedPaths == {<<"e", "friend", "f", "name">>}

allVars ==
  <<part, vars, lastWriteVars, assocVars, logVars, extenderVars, schedulerVars, pollingVars>>

\* What stays as it is while one part runs.
InTrace ==
  /\ part = "trace"
  /\ UNCHANGED <<part, lastWriteVars, assocVars, logVars, extenderVars, schedulerVars, pollingVars>>
InLastWrite ==
  /\ part = "last_write_wins"
  /\ UNCHANGED <<part, vars, assocVars, logVars, extenderVars, schedulerVars, pollingVars>>
InAssoc ==
  /\ part = "assoc_in"
  /\ UNCHANGED <<part, vars, lastWriteVars, logVars, extenderVars, schedulerVars, pollingVars>>
InLogs ==
  /\ part = "logs"
  /\ UNCHANGED <<part, vars, lastWriteVars, assocVars, extenderVars, schedulerVars, pollingVars>>
InExtender ==
  /\ part = "extender"
  /\ UNCHANGED <<part, vars, lastWriteVars, assocVars, logVars, schedulerVars, pollingVars>>
InFrontier ==
  /\ part = "frontier"
  /\ UNCHANGED <<part, vars, lastWriteVars, assocVars, logVars, extenderVars, pollingVars>>
InPolling ==
  /\ part = "polling"
  /\ UNCHANGED <<part, vars, lastWriteVars, assocVars, logVars, extenderVars, schedulerVars>>

OperatorsInit ==
  /\ part \in {"trace", "last_write_wins", "assoc_in", "logs", "extender", "frontier", "polling"}
  /\ Init /\ LastWriteInit /\ AssocInit /\ LogsInit /\ ExtenderInit /\ SchedulerInit
  /\ PollingInit /\ (part # "polling" => tick = 1)

OperatorsNext ==
  \/ InTrace /\ Next /\ Cardinality(DOMAIN rep') <= MaxUpdates
  \/ InLastWrite /\ LastWriteNext
  \/ InAssoc /\ AssocNext
  \/ InLogs /\ LogsNext
  \/ /\ InExtender /\ ExtenderNext
     /\ Cardinality(Requested') <= MaxRequests /\ Cardinality(DOMAIN index') <= MaxUpdates
  \/ InFrontier /\ SchedulerNext
  \/ InPolling /\ PollingNext

\* The worker of an extender keeps stepping: as long as its index can make
\* progress or it can be activated, one of the two happens.
ExtenderFairness == WF_extenderVars(InExtender /\ (SealNext \/ Activate(requests, sealed)))

\* The clock runs, the server's loop goes on, and each round of it triggers
\* what is due.
PollingFairness ==
  /\ WF_pollingVars(InPolling /\ ClockRuns)
  /\ WF_pollingVars(InPolling /\ LoopStep)
  /\ SF_pollingVars(InPolling /\ TriggerNext)

OperatorsSpec ==
  OperatorsInit /\ [][OperatorsNext]_allVars /\ ExtenderFairness /\ PollingFairness
=============================================================================
