------------------------------ MODULE LogSources ------------------------------
(***************************************************************************)
(* The sources that turn the events logged by the running computation into *)
(* attributes: sources/timely_logging.rs, which describes the operators,   *)
(* the channels and their scopes, and sources/differential_logging.rs,     *)
(* which describes the sizes of the operators' traces.                     *)
(***************************************************************************)
EXTENDS Integers, Sequences, FiniteSets

CONSTANTS
  MaxNodes, MaxDepth,        \* bounds on the dataflow graph
  MaxLength, MaxBatches,     \* bounds on a batch and on the batches logged
  Introspect                 \* which sources there are: "timely", "differential"

ASSUME LogAssumption ==
  MaxNodes \in Nat /\ MaxDepth \in Nat /\ MaxLength \in Nat /\ MaxBatches \in Nat

VARIABLES
  graph,         \* operators and channels, whose identifiers are their indices
  traces,        \* for every identifier, the lengths of its batches by their numbers
  merging,       \* for every identifier, the batches under merge
  minted,        \* batches minted so far
  events,        \* logged, not yet read by the sources
  scope,         \* the attribute timely/scope, distinct: a set of pairs
  size           \* the attribute differential.event/size, raw: all its pairs

logVars == <<graph, traces, merging, minted, events, scope, size>>

Ids == 1 .. MaxNodes
BatchNumbers == 1 .. MaxBatches

LogsInit ==
  /\ graph = <<>> /\ minted = 0 /\ events = <<>>
  /\ traces = [o \in Ids |-> [b \in {} |-> 0]]
  /\ merging = [o \in Ids |-> {}]
  /\ scope = {} /\ size = <<>>

Logged(e) == events' = Append(events, e)
-----------------------------------------------------------------------------
(* The computation.  The address of an operator is that of its scope with  *)
(* its index in there; dataflows are numbered from 0, the operators of a   *)
(* scope from 1.  Channels have identifiers and a scope but no address.    *)

Operators == {i \in DOMAIN graph : graph[i].kind = "Operates"}
Address(n) == Append(n.scope, n.index)
IndexIn(address) ==
  LET siblings == {i \in Operators : graph[i].scope = address}
  IN IF address = <<>> THEN Cardinality(siblings) ELSE Cardinality(siblings) + 1

\* A new operator or channel in an existing scope, or a new dataflow.
NewNode(kind, in) ==
  /\ Len(graph) < MaxNodes /\ Len(in) < MaxDepth
  /\ graph' = Append(graph, [kind |-> kind, scope |-> in,
                             index |-> IF kind = "Operates" THEN IndexIn(in) ELSE 0])
  /\ Logged([kind |-> kind, id |-> Len(graph) + 1, scope |-> in])
  /\ UNCHANGED <<traces, merging, minted, scope, size>>

Mint(o, length) ==
  /\ minted < MaxBatches /\ minted' = minted + 1
  /\ traces' = [traces EXCEPT ![o] = [b \in DOMAIN @ \cup {minted'} |->
                                        IF b = minted' THEN length ELSE @[b]]]
  /\ Logged([kind |-> "Batch", operator |-> o, length |-> length])
  /\ UNCHANGED <<graph, merging, scope, size>>

\* Two batches are to be merged; the event says that they are not yet.
BeginMerge(o, a, b) ==
  /\ a < b /\ merging[o] = {}
  /\ merging' = [merging EXCEPT ![o] = {a, b}]
  /\ Logged([kind |-> "Merge", operator |-> o, before |-> traces[o][a] + traces[o][b],
             complete |-> FALSE])
  /\ UNCHANGED <<graph, traces, minted, scope, size>>

\* Updates may have cancelled or been compacted together.
CompleteMerge(o, a, b, length) ==
  /\ a < b /\ merging[o] = {a, b}
  /\ traces' = [traces EXCEPT ![o] = [c \in DOMAIN @ \ {b} |-> IF c = a THEN length ELSE @[c]]]
  /\ merging' = [merging EXCEPT ![o] = {}]
  /\ Logged([kind |-> "Merge", operator |-> o, before |-> traces[o][a] + traces[o][b],
             complete |-> TRUE, size |-> length])
  /\ UNCHANGED <<graph, minted, scope, size>>
-----------------------------------------------------------------------------
(* The sources *)

Final(s) == s[Len(s)]
Above(s) == SubSeq(s, 1, Len(s) - 1)

\* The edges given for an operator: to its scope, and from there to the
\* parent; for a channel, to its scope.  The scopes are named by their index
\* among their siblings, where operators and channels have their identifier.
ScopeEdges(e) ==
  CASE e.kind = "Operates" /\ e.scope = <<>> -> {<<e.id, 0>>}
    [] e.kind = "Channels" \/ Len(e.scope) = 1 -> {<<e.id, Final(e.scope)>>}
    [] OTHER -> {<<e.id, Final(e.scope)>>, <<Final(e.scope), Final(Above(e.scope))>>}

\* Faulty variant: a merge counts in full.
SizeChangeWhole(e) ==
  CASE e.kind = "Batch" -> <<<<e.operator, e.length>>>>
    [] e.kind = "Merge" /\ e.complete -> <<<<e.operator, e.size>>>>
    [] OTHER -> <<>>

SizeChange(e) ==
  CASE e.kind = "Batch" -> <<<<e.operator, e.length>>>>
    [] e.kind = "Merge" /\ e.complete -> <<<<e.operator, e.size - e.before>>>>
    [] OTHER -> <<>>

\* A source reads the next event, in the order of the log.
ReadLog ==
  /\ events # <<>>
  /\ events' = Tail(events)
  /\ LET e == Head(events)
     IN /\ scope' = IF e.kind \in {"Operates", "Channels"} /\ "timely" \in Introspect
                    THEN scope \cup ScopeEdges(e) ELSE scope
        /\ size' = IF "differential" \in Introspect THEN size \o SizeChange(e) ELSE size
  /\ UNCHANGED <<graph, traces, merging, minted>>

LogsNext ==
  \/ NewNode("Operates", <<>>)
  \/ \E o \in Operators, kind \in {"Operates", "Channels"} : NewNode(kind, Address(graph[o]))
  \/ \E o \in Operators :
       \/ \E n \in 1 .. MaxLength : Mint(o, n)
       \/ \E a, b \in DOMAIN traces[o] :
            \/ BeginMerge(o, a, b)
            \/ \E n \in 0 .. traces[o][a] + traces[o][b] : CompleteMerge(o, a, b, n)
  \/ ReadLog

LogsSpec == LogsInit /\ [][LogsNext]_logVars
-----------------------------------------------------------------------------
\* f[1] + ... + f[n]
SumTo(f, n) ==
  LET sum[i \in 0 .. n] == IF i = 0 THEN 0 ELSE sum[i - 1] + f[i] IN sum[n]

\* The number of updates in the trace of an operator.
TraceSize(o) ==
  SumTo([b \in BatchNumbers |-> IF b \in DOMAIN traces[o] THEN traces[o][b] ELSE 0], MaxBatches)

\* What the attribute says of an operator.
ReportedSize(o) ==
  SumTo([i \in DOMAIN size |-> IF size[i][1] = o THEN size[i][2] ELSE 0], Len(size))

\* Once the log is read, the values of differential.event/size of an operator
\* add up to the number of updates in its trace, however its batches were
\* merged meanwhile (differential_logging.rs).
SizesAddUp ==
  "differential" \in Introspect /\ events = <<>> =>
    \A o \in Ids : ReportedSize(o) = TraceSize(o)
=============================================================================
