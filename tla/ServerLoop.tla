------------------------------ MODULE ServerLoop ------------------------------
(***************************************************************************)
(* The server (server/src/main.rs): workers that accept clients, push      *)
(* their requests to a sequencer, handle the sequenced commands in the     *)
(* same order each, and forward outputs.  The loop's phases are separate   *)
(* actions: any phase may find nothing to do, so every interleaving of     *)
(* them is one of the loop's.  The sequencer and timely's exchange of      *)
(* results are external: the first is a log from which every worker reads  *)
(* at its own pace, the second delivers to the owner of a dataflow.        *)
(***************************************************************************)
EXTENDS Server

CONSTANTS
  MaxWorkers,   \* workers are numbered from 0
  MaxLog,       \* bound: commands sequenced
  MaxResults,   \* bound: batches of results and malformed frames
  Kinds         \* kinds of requests the clients send

ASSUME ServerAssumption ==
  /\ MaxWorkers \in Nat /\ MaxTokens \in Nat /\ MaxLog \in Nat /\ MaxResults \in Nat
  /\ NoClient \notin Clients /\ Names # {}

Workers == 0 .. MaxWorkers - 1

VARIABLES
  io,        \* [Workers -> IO]
  server,    \* [Workers -> ServerState]
  log,       \* the sequencer: every command pushed, in the agreed order
  handled,   \* how many of them each worker has handled
  inflight,  \* dataflows with results on their way to the owner
  status,    \* "running", "shutdown" (requested) or "down", of each worker
  produced,  \* batches of results and malformed frames so far
  received   \* history: outputs each client was sent

vars == <<io, server, log, handled, inflight, status, produced, received>>

Requests == {"Register", "CreateAttribute", "Interest", "Uninterest", "Subscribe",
             "Status", "Disconnect", "Shutdown"}

\* `from` is the client behind the token when the command was pushed.
Command == [owner : Workers, client : Tokens, from : Clients \cup {NoClient},
            req : Requests, name : Names]

Init ==
  /\ io = [w \in Workers |-> NewIO]
  /\ server = [w \in Workers |-> NewServer]
  /\ log = <<>> /\ handled = [w \in Workers |-> 0]
  /\ inflight = {} /\ produced = 0 /\ received = {}
  /\ status = [w \in Workers |-> "running"]

Up(w) == status[w] # "down"

CommandFrom(w, t, req, n) ==
  [owner |-> w, client |-> t, from |-> io[w].connections[t], req |-> req, name |-> n]

\* The request concerns all names; the one in the record is not looked at.
DisconnectFrom(w, t) == CommandFrom(w, t, "Disconnect", CHOOSE n \in Names : TRUE)
-----------------------------------------------------------------------------
(* I/O events of a worker. *)

Known == UNION {{io[w].connections[t] : t \in Tokens} : w \in Workers}

Accept(w, c) ==
  /\ Up(w) /\ io[w].vacant # <<>>
  /\ c \notin Known
  /\ \A i \in DOMAIN log : log[i].from # c
  /\ \A r \in received : r[1] # c
  /\ io' = [io EXCEPT ![w] = Accepted(@, c)]
  /\ UNCHANGED <<server, log, handled, inflight, status, produced, received>>

ReceiveRequest(w, t) ==
  /\ Up(w) /\ Connected(io[w], t) /\ Len(log) < MaxLog
  /\ \E req \in Kinds \cap Requests, n \in Names :
       log' = Append(log, CommandFrom(w, t, req, n))
  /\ UNCHANGED <<io, server, handled, inflight, status, produced, received>>

ReceiveMalformed(w, t) ==
  /\ Up(w) /\ Connected(io[w], t) /\ "Malformed" \in Kinds /\ produced < MaxResults
  /\ io' = [io EXCEPT ![w] = Malformed(@, t)]
  /\ produced' = produced + 1
  /\ UNCHANGED <<server, log, handled, inflight, status, received>>

\* Faulty variant: the connection is removed without telling the server.
CloseConnectionSilently(w, t) ==
  /\ Up(w) /\ Connected(io[w], t) /\ Len(log) < MaxLog
  /\ io' = [io EXCEPT ![w] = Removed(@, t)]
  /\ UNCHANGED <<log, server, handled, inflight, status, produced, received>>

\* The connection is no longer active.
CloseConnection(w, t) ==
  /\ Up(w) /\ Connected(io[w], t) /\ Len(log) < MaxLog
  /\ log' = Append(log, DisconnectFrom(w, t))
  /\ io' = [io EXCEPT ![w] = Removed(@, t)]
  /\ UNCHANGED <<server, handled, inflight, status, produced, received>>

\* The RESULTS event, and the commands pushed for clients it finds gone.
ForwardOutputs(w) ==
  /\ Up(w) /\ io[w].channel # <<>>
  /\ \E gone \in GoneOrders(io[w], server[w].interests) :
       log' = log \o [i \in DOMAIN gone |-> DisconnectFrom(w, gone[i][2])]
  /\ received' = received \cup Deliveries(io[w], server[w].interests)
  /\ io' = [io EXCEPT ![w] = Drained(@)]
  /\ UNCHANGED <<server, handled, inflight, status, produced>>
-----------------------------------------------------------------------------
(* Commands.  Every worker handles each of them once, in the log's order. *)

Current(w) == log[handled[w] + 1]

Handling(w, req) ==
  /\ Up(w) /\ handled[w] < Len(log) /\ Current(w).req = req
  /\ handled' = [handled EXCEPT ![w] = @ + 1]
  /\ UNCHANGED <<log, inflight, produced, received>>

ServerBecomes(w, s) == server' = [server EXCEPT ![w] = s]

\* Outputs for the client that issued the command are left in the channel of
\* whichever worker handles it, and every worker does.
Reply(w, kind) ==
  io' = [io EXCEPT ![w] = Sent(@, [kind |-> kind, token |-> Current(w).client,
                                   to |-> Current(w).from])]

HandleRegister(w) ==
  /\ Handling(w, "Register")
  /\ ServerBecomes(w, Register(server[w], Current(w).name))
  /\ UNCHANGED <<io, status>>

HandleCreateAttribute(w) ==
  /\ Handling(w, "CreateAttribute")
  /\ ServerBecomes(w, CreateAttribute(server[w], Current(w).name))
  /\ UNCHANGED <<io, status>>

\* Faulty variant: only the owner of the request sets up the dataflow.
HandleInterestAtOwner(w) ==
  LET c == Current(w)
  IN /\ Handling(w, "Interest")
     /\ ServerBecomes(w, IF w = c.owner
                         THEN Interest(server[w], c.name, c.client, handled[w] + 1, c.owner)
                         ELSE AddInterest(server[w], c.name, c.client))
     /\ UNCHANGED <<io, status>>

HandleInterest(w) ==
  LET c == Current(w)
  IN /\ Handling(w, "Interest")
     /\ ServerBecomes(w, Interest(server[w], c.name, c.client, handled[w] + 1, c.owner))
     /\ IF InterestFails(server[w], c.name) THEN Reply(w, "Error") ELSE UNCHANGED io
     /\ UNCHANGED status

\* Subscribing to an attribute without a propose trace ends the process.
HandleSubscribe(w) ==
  LET c == Current(w)
  IN /\ Handling(w, "Subscribe")
     /\ IF SubscribePanics(server[w], c.name, c.client)
        THEN /\ status' = [status EXCEPT ![w] = "down"]
             /\ UNCHANGED server
        ELSE /\ ServerBecomes(w, Subscribe(server[w], c.name, c.client, handled[w] + 1, c.owner))
             /\ UNCHANGED status
     /\ UNCHANGED io

HandleUninterest(w) ==
  /\ Handling(w, "Uninterest")
  /\ ServerBecomes(w, Uninterest(server[w], Current(w).name, Current(w).client))
  /\ UNCHANGED <<io, status>>

HandleDisconnect(w) ==
  /\ Handling(w, "Disconnect")
  /\ ServerBecomes(w, DisconnectClient(server[w], Current(w).client))
  /\ UNCHANGED <<io, status>>

HandleStatus(w) ==
  /\ Handling(w, "Status")
  /\ Reply(w, "Message")
  /\ UNCHANGED <<server, status>>

HandleShutdown(w) ==
  /\ Handling(w, "Shutdown")
  /\ status' = [status EXCEPT ![w] = "shutdown"]
  /\ UNCHANGED <<io, server>>

\* Faulty variant: the loop waits for its clients to leave first.
LeaveLoopAfterClients(w) ==
  /\ status[w] = "shutdown"
  /\ \A t \in Tokens : ~ Connected(io[w], t)
  /\ status' = [status EXCEPT ![w] = "down"]
  /\ UNCHANGED <<io, server, log, handled, inflight, produced, received>>

\* The loop ends once the commands at hand are handled, and the steps and
\* the final park that follow are over.
LeaveLoop(w) ==
  /\ status[w] = "shutdown"
  /\ status' = [status EXCEPT ![w] = "down"]
  /\ UNCHANGED <<io, server, log, handled, inflight, produced, received>>
-----------------------------------------------------------------------------
(* Timely: dataflows that are live on some worker produce results, which   *)
(* the exchange pact brings to the owner of the dataflow.                  *)

BuiltAt(w) == {server[w].built[i] : i \in DOMAIN server[w].built}

ProduceResults(w) ==
  /\ Up(w) /\ produced < MaxResults
  /\ \E id \in server[w].live \ inflight :
       inflight' = inflight \cup {id} /\ produced' = produced + 1
  /\ UNCHANGED <<io, server, log, handled, status, received>>

\* Faulty variant: without the exchange any worker takes the results.
ResultsRecvPipeline(w) ==
  /\ Up(w)
  /\ \E df \in BuiltAt(w) :
       /\ df.id \in inflight
       /\ inflight' = inflight \ {df.id}
       /\ io' = [io EXCEPT ![w] = Sent(@, [kind |-> "QueryDiff", name |-> df.name])]
  /\ UNCHANGED <<server, log, handled, status, produced, received>>

ResultsRecv(w) ==
  /\ Up(w)
  /\ \E df \in BuiltAt(w) :
       /\ df.owner = w /\ df.id \in inflight
       /\ inflight' = inflight \ {df.id}
       /\ io' = [io EXCEPT ![w] = Sent(@, [kind |-> "QueryDiff", name |-> df.name])]
  /\ UNCHANGED <<server, log, handled, status, produced, received>>
-----------------------------------------------------------------------------
HandleCommand(w) ==
  \/ HandleRegister(w) \/ HandleCreateAttribute(w)
  \/ HandleInterest(w) \/ HandleSubscribe(w) \/ HandleUninterest(w)
  \/ HandleDisconnect(w) \/ HandleStatus(w) \/ HandleShutdown(w)

ClientStep(w) ==
  \/ \E c \in Clients : Accept(w, c)
  \/ \E t \in Tokens : ReceiveRequest(w, t) \/ ReceiveMalformed(w, t) \/ CloseConnection(w, t)

Next ==
  \E w \in Workers :
    \/ ClientStep(w) \/ ForwardOutputs(w) \/ HandleCommand(w) \/ LeaveLoop(w)
    \/ ProduceResults(w) \/ ResultsRecv(w)

Spec == Init /\ [][Next]_vars

\* As long as there is a command to handle, an output to forward or a result
\* to receive, or the loop is told to end, the loop does one of these.  Nothing
\* is assumed of clients or of the data.
Fairness ==
  \A w \in Workers :
    WF_vars(HandleCommand(w) \/ ForwardOutputs(w) \/ ResultsRecv(w) \/ LeaveLoop(w))

FairSpec == Spec /\ Fairness
-----------------------------------------------------------------------------
TypeOK ==
  /\ io \in [Workers -> IO]
  /\ server \in [Workers -> ServerState]
  /\ log \in Seq(Command)
  /\ handled \in [Workers -> Nat] /\ \A w \in Workers : handled[w] <= Len(log)
  /\ status \in [Workers -> {"running", "shutdown", "down"}]
  /\ inflight \subseteq Nat /\ produced \in Nat

\* A command that says something about the interest in n of who issues it.
Concerns(cmd, n) ==
  \/ cmd.req = "Disconnect"
  \/ cmd.name = n /\ cmd.req \in {"Interest", "Subscribe", "Uninterest"}

\* What client c last said about name n, among the commands w has handled.
Wants(w, c, n) ==
  LET said == {i \in 1 .. handled[w] : log[i].from = c /\ Concerns(log[i], n)}
  IN \E i \in said : /\ log[i].req \in {"Interest", "Subscribe"}
                     /\ \A j \in said : j <= i

\* Workers that have handled the same commands are in the same state: timely
\* requires every worker to construct the same dataflows in the same order
\* (main.rs: all handlers run on all workers, whoever owns the command).
ReplicasAgree ==
  \A v, w \in Workers :
    Up(v) /\ Up(w) /\ handled[v] = handled[w] => server[v] = server[w]

\* A connected client's interest is never dropped: it stays recorded on every
\* worker that handled it until the client says otherwise
\* (Server::interests, "Mapping from query names to interested client tokens").
InterestKept ==
  \A v, w \in Workers, t \in Tokens, n \in Names :
    Up(w) /\ Connected(io[v], t) /\ Wants(w, io[v].connections[t], n)
      => t \in server[w].interests[n]

\* Conversely a recorded token belongs to a connection whose client wants the
\* name, or a command that removes it is on its way (Disconnect pushed by
\* networking.rs before the token can be handed out again).
TokensAccountedFor ==
  \A w \in Workers, n \in Names : \A t \in server[w].interests[n] :
    \/ \E v \in Workers : Connected(io[v], t) /\ Wants(w, io[v].connections[t], n)
    \/ \E i \in handled[w] + 1 .. Len(log) : log[i].req = "Disconnect" /\ log[i].client = t

\* Interests and clients agree, both ways.
InterestsFollowClients == InterestKept /\ TokensAccountedFor

\* The live dataflows of queries, as opposed to those of Subscribe requests,
\* which nothing shuts down.
LiveQueries(w) == {d \in BuiltAt(w) : d.id \in server[w].live /\ log[d.id].req = "Interest"}

\* The dataflow of a query is set up on the first interest only: no name has
\* two live ones (main.rs: "We only want to setup the dataflow on the first
\* interest").
SingleDataflow ==
  \A w \in Workers : \A d, e \in LiveQueries(w) : d.name = e.name => d = e

\* The dataflow of a query nobody is interested in is shut down
\* (Request::Uninterest: "Once all interested clients have sent this, the
\* dataflow can be cleaned up").
NoOrphanDataflow ==
  \A w \in Workers : \A d \in LiveQueries(w) : server[w].interests[d.name] # {}

\* A name has at most one live dataflow of its query, and none without an
\* interest.
DataflowsTidy == SingleDataflow /\ NoOrphanDataflow

\* Results that a worker is sent for a query reach every client connected to
\* it whose interest is recorded, unless the interest or the connection goes
\* first (the Exchange pact routes all results to the owner of the dataflow).
ResultsArrive ==
  \A w \in Workers, c \in Clients, n \in Names :
    LET wanted == \E t \in server[w].interests[n] : io[w].connections[t] = c /\ Up(w)
        ready == \E d \in BuiltAt(w) : d.name = n /\ d.owner = w /\ d.id \in inflight
    IN (wanted /\ ready) ~> (~ wanted \/ \E r \in received : r[1] = c /\ r[2].kind = "QueryDiff"
                                                              /\ r[2].name = n)

\* Once every client has gone, the dataflows of their queries are shut down
\* (disconnect_client: "Cleans up all bookkeeping state").
EventuallyCleanedUp ==
  LET idle == \A w \in Workers, t \in Tokens : ~ Connected(io[w], t)
      clean == \A w \in Workers : Up(w) => LiveQueries(w) = {}
  IN idle ~> (clean \/ ~ idle)

\* A Shutdown request stops every worker, however far behind it is.
ShutdownCompletes ==
  (\E i \in DOMAIN log : log[i].req = "Shutdown") ~> (\A w \in Workers : ~ Up(w))
=============================================================================
