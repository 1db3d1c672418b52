----------------------------- MODULE ServerProofs -----------------------------
(***************************************************************************)
(* Theorems about the server for any number of workers, clients, names and *)
(* tokens, and for logs of any length: its types, the agreement of its     *)
(* replicas and the dataflows of its queries.                              *)
(***************************************************************************)
EXTENDS ServerLoop, FiniteSetTheorems, TLAPS

USE DEF Tokens, Workers
-----------------------------------------------------------------------------
(* The operators on a worker's I/O state, and on its server state.         *)

\* What is left of a queue after its first element is a queue.
LEMMA HeadTail ==
  ASSUME NEW S, NEW q \in Seq(S), q # <<>>
  PROVE  Head(q) \in S /\ Tail(q) \in Seq(S)
OBVIOUS

\* A new worker has no connections, and every token to hand out (IO::new).
LEMMA NewIOType ==
  ASSUME MaxTokens \in Nat
  PROVE  NewIO \in IO
BY DEF NewIO, IO

\* Accepting a client takes a token off the slab's vacant entries.
LEMMA AcceptedType ==
  ASSUME NEW x \in IO, NEW c \in Clients, x.vacant # <<>>
  PROVE  Accepted(x, c) \in IO
<1>1. x.vacant \in Seq(Tokens) /\ x.connections \in [Tokens -> Clients \cup {NoClient}]
      /\ x.channel \in Seq(Output)
  BY DEF IO
<1>2. Head(x.vacant) \in Tokens /\ Tail(x.vacant) \in Seq(Tokens)
  BY <1>1, HeadTail, Zenon
<1> QED
  BY <1>1, <1>2, Zenon DEF Accepted, VacantToken, IO

\* A connection that is removed gives its token back.
LEMMA RemovedType ==
  ASSUME NEW x \in IO, NEW t \in Tokens
  PROVE  Removed(x, t) \in IO
<1>1. x.vacant \in Seq(Tokens) /\ x.connections \in [Tokens -> Clients \cup {NoClient}]
      /\ x.channel \in Seq(Output)
  BY DEF IO
<1>2. <<t>> \o x.vacant \in Seq(Tokens)
  BY <1>1
<1> QED
  BY <1>1, <1>2, Zenon DEF Removed, IO

\* An output that is sent waits in the channel.
LEMMA SentType ==
  ASSUME NEW x \in IO, NEW out \in Output
  PROVE  Sent(x, out) \in IO
<1>1. x.channel \in Seq(Output)
  BY DEF IO
<1>2. Append(x.channel, out) \in Seq(Output)
  BY <1>1
<1> QED
  BY <1>1, <1>2, Zenon DEF Sent, IO

\* The RESULTS event leaves the channel empty.
LEMMA DrainedType ==
  ASSUME NEW x \in IO
  PROVE  Drained(x) \in IO
<1>1. <<>> \in Seq(Output)
  OBVIOUS
<1> QED
  BY <1>1, Zenon DEF Drained, IO

\* A new server knows no rules and no interests (Server::new).
LEMMA NewServerType == NewServer \in ServerState
BY DEF NewServer, ServerState

\* Registering a rule or creating an attribute adds one name.
LEMMA RegisterType ==
  ASSUME NEW s \in ServerState, NEW n \in Names
  PROVE  Register(s, n) \in ServerState /\ CreateAttribute(s, n) \in ServerState
BY Zenon DEF Register, CreateAttribute, ServerState

\* Recording an interest (Server::interests) keeps the types.
LEMMA AddInterestType ==
  ASSUME NEW s \in ServerState, NEW n \in Names, NEW t \in Tokens
  PROVE  AddInterest(s, n, t) \in ServerState
BY Zenon DEF AddInterest, ServerState

\* Adding a dataflow keeps the types.
LEMMA BuildType ==
  ASSUME NEW s \in ServerState, NEW df \in Dataflow
  PROVE  Build(s, df) \in ServerState
<1>1. s.built \in Seq(Dataflow) /\ df.id \in Nat
  BY DEF ServerState, Dataflow
<1>2. Append(s.built, df) \in Seq(Dataflow)
  BY <1>1
<1> QED
  BY <1>1, <1>2, Zenon DEF Build, ServerState

\* shutdown_query keeps the types.
LEMMA ShutdownQueryType ==
  ASSUME NEW s \in ServerState, NEW n \in Names
  PROVE  ShutdownQuery(s, n) \in ServerState
BY Zenon DEF ShutdownQuery, ServerState

\* Interest and Subscribe build at most one dataflow, named by the command.
LEMMA InterestType ==
  ASSUME NEW s \in ServerState, NEW n \in Names, NEW t \in Tokens,
         NEW id \in Nat, NEW owner \in Nat
  PROVE  /\ Interest(s, n, t, id, owner) \in ServerState
         /\ Subscribe(s, n, t, id, owner) \in ServerState
<1> DEFINE t1 == AddInterest(s, n, t)
           df == [id |-> id, name |-> n, owner |-> owner]
           b == Build(ShutdownQuery(t1, n), df)
<1>1. t1 \in ServerState /\ df \in Dataflow
  BY AddInterestType DEF Dataflow
<1>2. b \in ServerState
  BY <1>1, ShutdownQueryType, BuildType
<1>3. Build(t1, df) \in ServerState
  BY <1>1, BuildType
<1>4. [b EXCEPT !.shutdown_handles[n] = id] \in ServerState
  <2> HIDE DEF b
  <2> QED
    BY <1>2, Zenon DEF ServerState
<1>5. Interest(s, n, t, id, owner) \in {[b EXCEPT !.shutdown_handles[n] = id], t1}
  BY DEF Interest
<1>6. Subscribe(s, n, t, id, owner) \in {Build(t1, df), t1}
  BY DEF Subscribe
<1> HIDE DEF t1, b, df
<1> QED
  BY <1>1, <1>3, <1>4, <1>5, <1>6

\* Uninterest, for one name or for all of them.
LEMMA UninterestType ==
  ASSUME NEW s \in ServerState, NEW ns \in SUBSET Names, NEW t \in Tokens
  PROVE  UninterestIn(s, ns, t) \in ServerState
<1> DEFINE unused == {n \in ns : s.interests[n] # {} /\ s.interests[n] \subseteq {t}}
           i1 == [n \in Names |-> IF n \in ns THEN s.interests[n] \ {t} ELSE s.interests[n]]
           l1 == s.live \ {s.shutdown_handles[n] : n \in unused}
           h1 == [n \in Names |-> IF n \in unused THEN 0 ELSE s.shutdown_handles[n]]
<1>1. i1 \in [Names -> SUBSET Tokens] /\ l1 \in SUBSET Nat /\ h1 \in [Names -> Nat]
  BY DEF ServerState
<1>2. UninterestIn(s, ns, t) =
        [s EXCEPT !.interests = i1, !.live = l1, !.shutdown_handles = h1]
  BY DEF UninterestIn
<1> HIDE DEF i1, l1, h1
<1> QED
  BY <1>1, <1>2, Zenon DEF ServerState
-----------------------------------------------------------------------------
(* Types.                                                                  *)

\* Requests come from a client; only a Disconnect may come from nobody, when
\* networking.rs finds that a client "has gone away undetected".
Senders == \A i \in DOMAIN log : log[i].req # "Disconnect" => log[i].from \in Clients

TypeInv == TypeOK /\ Senders

\* The commands pushed for clients that went away form a sequence: there are
\* finitely many of them.
LEMMA GoneOrdersType ==
  ASSUME MaxTokens \in Nat, NEW x \in IO, NEW f, NEW s \in GoneOrders(x, f)
  PROVE  \E k \in Nat : DOMAIN s = 1 .. k /\ \A i \in 1 .. k : s[i][2] \in Tokens
<1> DEFINE pairs == (DOMAIN x.channel) \X Tokens
           gone == {p \in pairs : p[2] \in Recipients(x.channel[p[1]], f) /\ ~ Connected(x, p[2])}
<1>1. x.channel \in Seq(Output)
  BY DEF IO
<1>2. IsFiniteSet(DOMAIN x.channel) /\ IsFiniteSet(Tokens)
  <2>1. DOMAIN x.channel = 1 .. Len(x.channel) /\ Len(x.channel) \in Nat
    BY <1>1
  <2> QED
    BY <2>1, FS_Interval
<1>3. IsFiniteSet(pairs)
  BY <1>2, FS_Product
<1>4. IsFiniteSet(gone)
  BY <1>3, FS_Subset
<1>5. Cardinality(gone) \in Nat
  BY <1>4, FS_CardinalityType
<1>6. s \in [1 .. Cardinality(gone) -> gone]
  BY DEF GoneOrders
<1>7. \A p \in gone : p[2] \in Tokens
  OBVIOUS
<1> HIDE DEF gone
<1> QED
  BY <1>5, <1>6, <1>7

\* Appending leaves what is there in its place.
LEMMA AppendType ==
  ASSUME NEW S, NEW q \in Seq(S), NEW x \in S
  PROVE  /\ Append(q, x) \in Seq(S) /\ Len(Append(q, x)) = Len(q) + 1
         /\ \A i \in 1 .. Len(q) : Append(q, x)[i] = q[i]
         /\ Append(q, x)[Len(q) + 1] = x
OBVIOUS

\* Appending adds one element to those of a sequence.
LEMMA AppendRange ==
  ASSUME NEW S, NEW q \in Seq(S), NEW x \in S
  PROVE  {Append(q, x)[i] : i \in DOMAIN Append(q, x)} = {q[i] : i \in DOMAIN q} \cup {x}
<1>1. /\ DOMAIN Append(q, x) = 1 .. Len(q) + 1 /\ Append(q, x)[Len(q) + 1] = x
      /\ \A i \in 1 .. Len(q) : Append(q, x)[i] = q[i]
      /\ DOMAIN q = 1 .. Len(q) /\ Len(q) \in Nat
  OBVIOUS
<1>2. \A i : i \in 1 .. Len(q) + 1 <=> i \in 1 .. Len(q) \/ i = Len(q) + 1
  BY <1>1
<1> QED
  BY <1>1, <1>2, Zenon

\* Appending several elements leaves what is there in its place.
LEMMA ConcatType ==
  ASSUME NEW S, NEW q \in Seq(S), NEW k \in Nat, NEW d \in [1 .. k -> S]
  PROVE  /\ q \o d \in Seq(S) /\ Len(q \o d) = Len(q) + k
         /\ \A i \in 1 .. Len(q) : (q \o d)[i] = q[i]
         /\ \A i \in Len(q) + 1 .. Len(q) + k : (q \o d)[i] = d[i - Len(q)]
<1>1. d \in Seq(S) /\ Len(d) = k
  OBVIOUS
<1> QED
  BY <1>1

\* How the log changes: it only ever grows, by requests of clients and by
\* Disconnects (domain_events.push_back).
Grows ==
  /\ log' \in Seq(Command) /\ Len(log) <= Len(log')
  /\ \A i \in 1 .. Len(log) : log'[i] = log[i]
  /\ \A i \in Len(log) + 1 .. Len(log') : log'[i].req # "Disconnect" => log'[i].from \in Clients

\* What a client asks for is a command (DomainEvent::Requests in main.rs).
LEMMA CommandFromType ==
  ASSUME TypeInv, NEW w \in Workers, NEW t \in Tokens, NEW req \in Requests, NEW n \in Names
  PROVE  CommandFrom(w, t, req, n) \in Command
<1>1. io[w] \in IO
  BY DEF TypeInv, TypeOK
<1>2. io[w].connections[t] \in Clients \cup {NoClient}
  BY <1>1, Zenon DEF IO
<1> HIDE DEF Tokens, Workers
<1> QED
  BY <1>2 DEF CommandFrom, Command

\* What networking.rs pushes for a lost client is a Disconnect command.
LEMMA DisconnectFromType ==
  ASSUME TypeInv, NEW w \in Workers, NEW t \in Tokens
  PROVE  DisconnectFrom(w, t) \in Command /\ DisconnectFrom(w, t).req = "Disconnect"
<1>1. (CHOOSE n \in Names : TRUE) \in Names
  BY ServerAssumption
<1>2. "Disconnect" \in Requests
  BY DEF Requests
<1> QED
  BY <1>1, <1>2, CommandFromType DEF DisconnectFrom, CommandFrom

\* Every step lets the log grow or leaves it alone.
LEMMA LogGrows == TypeInv /\ [Next]_vars => Grows
<1> SUFFICES ASSUME TypeInv, [Next]_vars PROVE Grows
  OBVIOUS
<1>0. log \in Seq(Command) /\ io \in [Workers -> IO]
  BY DEF TypeInv, TypeOK
<1>1. CASE UNCHANGED log
  BY <1>0, <1>1 DEF Grows
<1>2. ASSUME NEW w \in Workers, NEW t \in Tokens, ReceiveRequest(w, t)
      PROVE  Grows
  <2>1. PICK req \in Kinds \cap Requests, n \in Names : log' = Append(log, CommandFrom(w, t, req, n))
    BY <1>2 DEF ReceiveRequest
  <2>2. CommandFrom(w, t, req, n) \in Command
    BY CommandFromType
  <2>3. CommandFrom(w, t, req, n).from \in Clients
    BY <1>0, <1>2, ZenonT(30) DEF ReceiveRequest, Connected, CommandFrom, IO
  <2> HIDE DEF Tokens, Workers
  <2> QED
    BY <1>0, <2>1, <2>2, <2>3, AppendType DEF Grows
<1>3. ASSUME NEW w \in Workers, NEW t \in Tokens, CloseConnection(w, t)
      PROVE  Grows
  <2>1. log' = Append(log, DisconnectFrom(w, t))
    BY <1>3 DEF CloseConnection
  <2> QED
    BY <1>0, <2>1, DisconnectFromType, AppendType DEF Grows
<1>4. ASSUME NEW w \in Workers, ForwardOutputs(w)
      PROVE  Grows
  <2>1. PICK gone \in GoneOrders(io[w], server[w].interests) :
               log' = log \o [i \in DOMAIN gone |-> DisconnectFrom(w, gone[i][2])]
    BY <1>4, Zenon DEF ForwardOutputs
  <2>2. PICK k \in Nat : DOMAIN gone = 1 .. k /\ \A i \in 1 .. k : gone[i][2] \in Tokens
    BY <1>0, GoneOrdersType, ServerAssumption
  <2> DEFINE d == [i \in 1 .. k |-> DisconnectFrom(w, gone[i][2])]
  <2>3. d \in [1 .. k -> Command] /\ \A i \in 1 .. k : d[i].req = "Disconnect"
    BY <2>2, DisconnectFromType
  <2>4. log' = log \o d
    BY <2>1, <2>2
  <2> HIDE DEF d
  <2> QED
    BY <1>0, <2>3, <2>4, ConcatType DEF Grows
<1>5. CASE Next
  <2>1. PICK w \in Workers :
          \/ ClientStep(w) \/ ForwardOutputs(w) \/ HandleCommand(w) \/ LeaveLoop(w)
          \/ ProduceResults(w) \/ ResultsRecv(w)
    BY <1>5 DEF Next
  <2>2. CASE ClientStep(w)
    BY <2>2, <1>1, <1>2, <1>3 DEF ClientStep, Accept, ReceiveMalformed
  <2>3. CASE HandleCommand(w)
    BY <2>3, <1>1 DEF HandleCommand, Handling, HandleRegister, HandleCreateAttribute,
       HandleInterest, HandleSubscribe, HandleUninterest, HandleDisconnect, HandleStatus,
       HandleShutdown
  <2> QED
    BY <2>1, <2>2, <2>3, <1>1, <1>4 DEF LeaveLoop, ProduceResults, ResultsRecv
<1> QED
  BY <1>1, <1>5 DEF vars

\* What a handler may assume of the command it handles.
LEMMA CurrentType ==
  ASSUME TypeInv, NEW w \in Workers, NEW req, Handling(w, req)
  PROVE  /\ Current(w) \in Command /\ handled[w] + 1 \in 1 .. Len(log)
         /\ Current(w).client \in Tokens /\ Current(w).name \in Names /\ Current(w).owner \in Nat
         /\ req # "Disconnect" => Current(w).from \in Clients
         /\ server[w] \in ServerState /\ io[w] \in IO
<1>1. log \in Seq(Command) /\ handled[w] \in Nat /\ server[w] \in ServerState /\ io[w] \in IO
  BY DEF TypeInv, TypeOK
<1>2. handled[w] < Len(log) /\ Current(w).req = req
  BY DEF Handling
<1>3. handled[w] + 1 \in 1 .. Len(log) /\ Len(log) \in Nat
  BY <1>1, <1>2
<1>4. Current(w) \in Command
  <2> HIDE DEF Tokens, Workers
  <2> QED
    BY <1>1, <1>3 DEF Current
<1>5. req # "Disconnect" => Current(w).from \in Clients
  BY <1>1, <1>2, <1>3 DEF TypeInv, Senders, Current
<1>6. Current(w).client \in Tokens /\ Current(w).name \in Names /\ Current(w).owner \in Workers
  <2> HIDE DEF Tokens, Workers
  <2> QED
    BY <1>4 DEF Command
<1> QED
  BY <1>1, <1>3, <1>4, <1>5, <1>6, ServerAssumption

\* A reply names the client that issued the command, and its token.
LEMMA ReplyType ==
  ASSUME NEW t \in Tokens, NEW c \in Clients, NEW kind \in {"Message", "Error"}
  PROVE  [kind |-> kind, token |-> t, to |-> c] \in Output
BY DEF Output

\* The state of the server, the channel and the connections keep their types.
LEMMA StateType == TypeInv /\ [Next]_vars => /\ io' \in [Workers -> IO]
                                             /\ server' \in [Workers -> ServerState]
<1> SUFFICES ASSUME TypeInv, [Next]_vars
             PROVE  io' \in [Workers -> IO] /\ server' \in [Workers -> ServerState]
  OBVIOUS
<1>0. io \in [Workers -> IO] /\ server \in [Workers -> ServerState]
  BY DEF TypeInv, TypeOK
<1> HIDE DEF Tokens, Workers
<1>1. CASE UNCHANGED <<io, server>>
  BY <1>0, <1>1
<1>2. ASSUME NEW w \in Workers, NEW x \in IO, UNCHANGED server, io' = [io EXCEPT ![w] = x]
      PROVE  io' \in [Workers -> IO] /\ server' \in [Workers -> ServerState]
  BY <1>0, <1>2
<1>3. ASSUME NEW w \in Workers, NEW s \in ServerState, UNCHANGED io, ServerBecomes(w, s)
      PROVE  io' \in [Workers -> IO] /\ server' \in [Workers -> ServerState]
  BY <1>0, <1>3 DEF ServerBecomes
<1>4. ASSUME NEW w \in Workers, ClientStep(w)
      PROVE  io' \in [Workers -> IO] /\ server' \in [Workers -> ServerState]
  <2>1. ASSUME NEW c \in Clients, Accept(w, c)
        PROVE  io' \in [Workers -> IO] /\ server' \in [Workers -> ServerState]
    <3>1. Accepted(io[w], c) \in IO
      BY <1>0, <2>1, AcceptedType DEF Accept
    <3> QED
      BY <3>1, <2>1, <1>2, Zenon DEF Accept
  <2>2. ASSUME NEW t \in Tokens, ReceiveMalformed(w, t)
        PROVE  io' \in [Workers -> IO] /\ server' \in [Workers -> ServerState]
    <3>1. io[w].connections[t] \in Clients
      BY <1>0, <2>2 DEF ReceiveMalformed, Connected, IO
    <3>2. Malformed(io[w], t) \in IO
      BY <1>0, <3>1, ReplyType, SentType, Zenon DEF Malformed
    <3> QED
      BY <3>2, <2>2, <1>2, Zenon DEF ReceiveMalformed
  <2>3. ASSUME NEW t \in Tokens, CloseConnection(w, t)
        PROVE  io' \in [Workers -> IO] /\ server' \in [Workers -> ServerState]
    <3>1. Removed(io[w], t) \in IO
      BY <1>0, RemovedType
    <3> QED
      BY <3>1, <2>3, <1>2, Zenon DEF CloseConnection
  <2> QED
    BY <1>4, <2>1, <2>2, <2>3, <1>1 DEF ClientStep, ReceiveRequest
<1>5. ASSUME NEW w \in Workers, HandleCommand(w)
      PROVE  io' \in [Workers -> IO] /\ server' \in [Workers -> ServerState]
  <2>1. CASE HandleRegister(w)
    BY <2>1, <1>3, CurrentType, RegisterType DEF HandleRegister
  <2>2. CASE HandleCreateAttribute(w)
    BY <2>2, <1>3, CurrentType, RegisterType DEF HandleCreateAttribute
  <2>3. CASE HandleInterest(w)
    <3> DEFINE s == Interest(server[w], Current(w).name, Current(w).client, handled[w] + 1,
                             Current(w).owner)
    <3>1. Handling(w, "Interest") /\ ServerBecomes(w, s) /\ (Reply(w, "Error") \/ UNCHANGED io)
      BY <2>3 DEF HandleInterest
    <3>2. Current(w).from \in Clients /\ Current(w).client \in Tokens /\ io[w] \in IO
      BY <3>1, CurrentType
    <3>3. s \in ServerState
      BY <3>1, CurrentType, InterestType
    <3>4. server' \in [Workers -> ServerState]
      BY <3>1, <3>3, <1>0 DEF ServerBecomes
    <3>5. Sent(io[w], [kind |-> "Error", token |-> Current(w).client, to |-> Current(w).from]) \in IO
      BY <3>2, ReplyType, SentType, Zenon
    <3> QED
      BY <3>1, <3>4, <3>5, <1>0 DEF Reply
  <2>4. CASE HandleSubscribe(w)
    <3> DEFINE s == Subscribe(server[w], Current(w).name, Current(w).client, handled[w] + 1,
                              Current(w).owner)
    <3>1. Handling(w, "Subscribe") /\ (ServerBecomes(w, s) \/ UNCHANGED server) /\ UNCHANGED io
      BY <2>4 DEF HandleSubscribe
    <3>2. s \in ServerState
      BY <3>1, CurrentType, InterestType
    <3> QED
      BY <3>1, <3>2, <1>0 DEF ServerBecomes
  <2>5. CASE HandleUninterest(w)
    BY <2>5, <1>3, CurrentType, UninterestType DEF HandleUninterest, Uninterest
  <2>6. CASE HandleDisconnect(w)
    BY <2>6, <1>3, CurrentType, UninterestType DEF HandleDisconnect, DisconnectClient
  <2>7. CASE HandleStatus(w)
    <3>1. Current(w).from \in Clients /\ Current(w).client \in Tokens /\ io[w] \in IO
      BY <2>7, CurrentType DEF HandleStatus
    <3>2. Sent(io[w], [kind |-> "Message", token |-> Current(w).client, to |-> Current(w).from]) \in IO
      BY <3>1, ReplyType, SentType, Zenon
    <3> QED
      BY <2>7, <3>2, <1>2, Zenon DEF HandleStatus, Reply
  <2>8. CASE HandleShutdown(w)
    BY <2>8, <1>1 DEF HandleShutdown
  <2> QED
    BY <1>5, <2>1, <2>2, <2>3, <2>4, <2>5, <2>6, <2>7, <2>8 DEF HandleCommand
<1>6. ASSUME NEW w \in Workers, ForwardOutputs(w)
      PROVE  io' \in [Workers -> IO] /\ server' \in [Workers -> ServerState]
  BY <1>6, <1>0, <1>2, DrainedType DEF ForwardOutputs
<1>7. ASSUME NEW w \in Workers, ResultsRecv(w)
      PROVE  io' \in [Workers -> IO] /\ server' \in [Workers -> ServerState]
  <2>1. PICK df \in BuiltAt(w) :
          /\ io' = [io EXCEPT ![w] = Sent(@, [kind |-> "QueryDiff", name |-> df.name])]
          /\ UNCHANGED server
    BY <1>7, Zenon DEF ResultsRecv
  <2>2. server[w].built \in Seq(Dataflow)
    BY <1>0 DEF ServerState
  <2>3. df \in Dataflow
    BY <2>2 DEF BuiltAt
  <2>4. [kind |-> "QueryDiff", name |-> df.name] \in Output
    BY <2>3 DEF Dataflow, Output
  <2> QED
    BY <2>1, <2>4, <1>0, <1>2, SentType
<1> QED
  BY <1>1, <1>4, <1>5, <1>6, <1>7 DEF Next, LeaveLoop, ProduceResults, vars

\* The state after handling the command at position i of the log, whichever
\* worker handles it (the match over requests in main.rs).
After(s, c, i) ==
  CASE c.req = "Register"        -> Register(s, c.name)
    [] c.req = "CreateAttribute" -> CreateAttribute(s, c.name)
    [] c.req = "Interest"        -> Interest(s, c.name, c.client, i, c.owner)
    [] c.req = "Subscribe"       -> IF SubscribePanics(s, c.name, c.client) THEN s
                                    ELSE Subscribe(s, c.name, c.client, i, c.owner)
    [] c.req = "Uninterest"      -> Uninterest(s, c.name, c.client)
    [] c.req = "Disconnect"      -> DisconnectClient(s, c.client)
    [] OTHER                     -> s

\* A worker handles the next command, or no worker handles any.
HandlesNext(w) ==
  /\ handled[w] < Len(log)
  /\ handled' = [handled EXCEPT ![w] = @ + 1]
  /\ server' = [server EXCEPT ![w] = After(server[w], Current(w), handled[w] + 1)]

\* A server changes only by handling the next command of the log.
LEMMA HandledSteps ==
  TypeInv /\ [Next]_vars => \/ UNCHANGED <<server, handled>>
                            \/ \E w \in Workers : HandlesNext(w)
<1> SUFFICES ASSUME TypeInv, [Next]_vars, ~ UNCHANGED <<server, handled>>
             PROVE  \E w \in Workers : HandlesNext(w)
  OBVIOUS
<1> HIDE DEF Workers, Tokens
<1>0. server \in [Workers -> ServerState]
  BY DEF TypeInv, TypeOK
<1>1. PICK w \in Workers : HandleCommand(w)
  BY DEF Next, vars, ClientStep, Accept, ReceiveRequest, ReceiveMalformed, CloseConnection,
     ForwardOutputs, LeaveLoop, ProduceResults, ResultsRecv
<1>2. CASE HandleRegister(w)
  BY <1>2, Zenon DEF HandleRegister, Handling, ServerBecomes, HandlesNext, After
<1>3. CASE HandleCreateAttribute(w)
  BY <1>3, Zenon DEF HandleCreateAttribute, Handling, ServerBecomes, HandlesNext, After
<1>4. CASE HandleInterest(w)
  BY <1>4, Zenon DEF HandleInterest, Handling, ServerBecomes, HandlesNext, After
<1>5. CASE HandleSubscribe(w)
  BY <1>5, <1>0, Zenon DEF HandleSubscribe, Handling, ServerBecomes, HandlesNext, After
<1>6. CASE HandleUninterest(w)
  BY <1>6, Zenon DEF HandleUninterest, Handling, ServerBecomes, HandlesNext, After
<1>7. CASE HandleDisconnect(w)
  BY <1>7, Zenon DEF HandleDisconnect, Handling, ServerBecomes, HandlesNext, After
<1>8. CASE HandleStatus(w)
  BY <1>8, <1>0, Zenon DEF HandleStatus, Handling, HandlesNext, After
<1>9. CASE HandleShutdown(w)
  BY <1>9, <1>0, Zenon DEF HandleShutdown, Handling, HandlesNext, After
<1> QED
  BY <1>1, <1>2, <1>3, <1>4, <1>5, <1>6, <1>7, <1>8, <1>9 DEF HandleCommand

\* The types of the whole state are preserved by every step.
LEMMA TypeStep == TypeInv /\ [Next]_vars => TypeInv'
<1> SUFFICES ASSUME TypeInv, [Next]_vars PROVE TypeInv'
  OBVIOUS
<1>0. /\ log \in Seq(Command) /\ Len(log) \in Nat /\ inflight \subseteq Nat /\ produced \in Nat
      /\ handled \in [Workers -> Nat] /\ \A w \in Workers : handled[w] <= Len(log)
      /\ server \in [Workers -> ServerState]
      /\ status \in [Workers -> {"running", "shutdown", "down"}]
  <2> HIDE DEF Workers, Tokens
  <2> QED
    BY DEF TypeInv, TypeOK
<1>1. Grows
  BY LogGrows
<1>2. io' \in [Workers -> IO] /\ server' \in [Workers -> ServerState]
  BY StateType
<1>3. Senders'
  <2>1. Len(log') \in Nat /\ DOMAIN log' = 1 .. Len(log') /\ DOMAIN log = 1 .. Len(log)
    BY <1>0, <1>1 DEF Grows
  <2> SUFFICES ASSUME NEW i \in 1 .. Len(log'), log'[i].req # "Disconnect"
               PROVE  log'[i].from \in Clients
    BY <2>1 DEF Senders
  <2>2. CASE i <= Len(log)
    BY <1>0, <1>1, <2>1, <2>2 DEF Grows, TypeInv, Senders
  <2>3. CASE i > Len(log)
    BY <1>0, <1>1, <2>1, <2>3 DEF Grows
  <2> QED
    BY <1>0, <2>2, <2>3
<1>4. /\ handled' \in [Workers -> Nat]
      /\ \A w \in Workers : handled'[w] <= Len(log')
  <2> HIDE DEF Workers, Tokens
  <2>1. Len(log') \in Nat /\ Len(log) <= Len(log')
    BY <1>1 DEF Grows
  <2>2. CASE UNCHANGED handled
    BY <2>1, <2>2, <1>0
  <2>3. ASSUME NEW w \in Workers, HandlesNext(w)
        PROVE  handled' \in [Workers -> Nat] /\ \A v \in Workers : handled'[v] <= Len(log')
    BY <2>1, <2>3, <1>0 DEF HandlesNext
  <2> QED
    BY <2>2, <2>3, HandledSteps
<1>5. status' \in [Workers -> {"running", "shutdown", "down"}]
  <2> HIDE DEF Workers, Tokens
  <2>1. \/ UNCHANGED status
        \/ \E w \in Workers, x \in {"shutdown", "down"} : status' = [status EXCEPT ![w] = x]
    <3>1. CASE UNCHANGED vars
      BY <3>1 DEF vars
    <3>2. CASE Next
      <4>1. PICK w \in Workers :
              \/ ClientStep(w) \/ ForwardOutputs(w) \/ HandleCommand(w) \/ LeaveLoop(w)
              \/ ProduceResults(w) \/ ResultsRecv(w)
        BY <3>2 DEF Next
      <4>2. CASE ClientStep(w)
        BY <4>2, Zenon DEF ClientStep, Accept, ReceiveRequest, ReceiveMalformed, CloseConnection
      <4>3. CASE HandleCommand(w)
        BY <4>3, Zenon DEF HandleCommand, HandleRegister, HandleCreateAttribute, HandleInterest,
           HandleSubscribe, HandleUninterest, HandleDisconnect, HandleStatus, HandleShutdown
      <4> QED
        BY <4>1, <4>2, <4>3, Zenon DEF ForwardOutputs, LeaveLoop, ProduceResults, ResultsRecv
    <3> QED
      BY <3>1, <3>2
  <2> QED
    BY <1>0, <2>1
<1>6. inflight' \subseteq Nat /\ produced' \in Nat
  <2> HIDE DEF Workers, Tokens
  <2>1. \A w \in Workers : server[w].live \subseteq Nat
    BY <1>0 DEF ServerState
  <2>2. \/ UNCHANGED <<inflight, produced>>
        \/ inflight' = inflight /\ produced' = produced + 1
        \/ \E w \in Workers : ProduceResults(w) \/ ResultsRecv(w)
    <3>1. CASE UNCHANGED vars
      BY <3>1 DEF vars
    <3>2. CASE Next
      <4>1. PICK w \in Workers :
              \/ ClientStep(w) \/ ForwardOutputs(w) \/ HandleCommand(w) \/ LeaveLoop(w)
              \/ ProduceResults(w) \/ ResultsRecv(w)
        BY <3>2 DEF Next
      <4>2. CASE ClientStep(w)
        BY <4>2, Zenon DEF ClientStep, Accept, ReceiveRequest, ReceiveMalformed, CloseConnection
      <4>3. CASE HandleCommand(w)
        BY <4>3, Zenon DEF HandleCommand, HandleRegister, HandleCreateAttribute, HandleInterest,
           HandleSubscribe, HandleUninterest, HandleDisconnect, HandleStatus, HandleShutdown, Handling
      <4> QED
        BY <4>1, <4>2, <4>3, Zenon DEF ForwardOutputs, LeaveLoop
    <3> QED
      BY <3>1, <3>2
  <2>3. ASSUME NEW w \in Workers, ProduceResults(w)
        PROVE  inflight' \subseteq Nat /\ produced' \in Nat
    <3>1. PICK id \in server[w].live \ inflight :
            inflight' = inflight \cup {id} /\ produced' = produced + 1
      BY <2>3 DEF ProduceResults
    <3>2. id \in Nat
      BY <2>1
    <3>3. inflight \subseteq Nat /\ produced \in Nat
      BY <1>0
    <3>4. inflight' \subseteq Nat
      BY <3>1, <3>2, <3>3, Zenon
    <3>5. produced' \in Nat
      BY <3>1, <3>3
    <3> QED
      BY <3>4, <3>5
  <2>4. ASSUME NEW w \in Workers, ResultsRecv(w)
        PROVE  inflight' \subseteq Nat /\ produced' \in Nat
    <3>1. inflight' \subseteq inflight /\ produced' = produced
      BY <2>4 DEF ResultsRecv
    <3> QED
      BY <1>0, <3>1
  <2> QED
    <3>1. ASSUME inflight' = inflight, produced' = produced + 1
          PROVE  inflight' \subseteq Nat /\ produced' \in Nat
      BY <1>0, <3>1
    <3> QED
      BY <1>0, <2>2, <2>3, <2>4, <3>1, Zenon
<1> HIDE DEF Workers, Tokens
<1> QED
  BY <1>1, <1>2, <1>3, <1>4, <1>5, <1>6 DEF TypeInv, TypeOK, Grows

\* The server starts with its types.
LEMMA TypeInit == Init => TypeInv
<1> SUFFICES ASSUME Init PROVE TypeInv
  OBVIOUS
<1>1. io \in [Workers -> IO] /\ server \in [Workers -> ServerState]
  BY NewIOType, NewServerType, ServerAssumption DEF Init
<1>2. log = <<>> /\ log \in Seq(Command) /\ Len(log) = 0
  BY DEF Init
<1>3. Senders
  BY <1>2 DEF Senders
<1>4. handled \in [Workers -> Nat] /\ \A w \in Workers : handled[w] <= Len(log)
  BY <1>2 DEF Init
<1> HIDE DEF Workers, Tokens
<1> QED
  BY <1>1, <1>2, <1>3, <1>4 DEF TypeInv, TypeOK, Init

\* Every state of the server has its type: in particular every reply names
\* the client that asked, for only Disconnect is ever pushed on behalf of a
\* connection that is gone (networking.rs, main.rs).
THEOREM ServerTypeCorrect == Spec => []TypeOK
<1>1. TypeInv => TypeOK
  BY DEF TypeInv
<1> QED
  BY TypeInit, TypeStep, <1>1, PTL DEF Spec
-----------------------------------------------------------------------------
(* Agreement of the replicas.                                              *)

\* The states that handling the first n commands one by one goes through.
History(n, h) ==
  /\ h[0] = NewServer
  /\ \A i \in 1 .. n : h[i] = After(h[i - 1], log[i], i)

\* All workers are somewhere along one such history: what a worker's state
\* is depends on how many commands it has handled, and on nothing else.
OneHistory ==
  \E n \in 0 .. Len(log) : \E h \in [0 .. n -> ServerState] :
    /\ History(n, h)
    /\ \A w \in Workers : handled[w] \in 0 .. n /\ server[w] = h[handled[w]]

\* At the start the history is that of no command.
LEMMA OneHistoryInit == Init => OneHistory
<1> SUFFICES ASSUME Init PROVE OneHistory
  OBVIOUS
<1> HIDE DEF Workers, Tokens
<1> DEFINE h == [i \in 0 .. 0 |-> NewServer]
<1>1. Len(log) = 0 /\ handled = [w \in Workers |-> 0] /\ server = [w \in Workers |-> NewServer]
  BY DEF Init
<1>2. h \in [0 .. 0 -> ServerState]
  BY NewServerType
<1>3. History(0, h)
  BY DEF History
<1>4. \A w \in Workers : handled[w] \in 0 .. 0 /\ server[w] = h[handled[w]]
  BY <1>1
<1>5. 0 \in 0 .. Len(log)
  BY <1>1
<1> HIDE DEF h
<1> QED
  BY <1>2, <1>3, <1>4, <1>5, Zenon DEF OneHistory

\* Handlers are functions of the state and the command, so a worker that
\* handles its next command stays on the history, or extends it.
LEMMA OneHistoryStep == TypeInv /\ OneHistory /\ [Next]_vars => OneHistory'
<1> SUFFICES ASSUME TypeInv, OneHistory, [Next]_vars PROVE OneHistory'
  OBVIOUS
<1> HIDE DEF Workers, Tokens
<1>0. /\ Len(log) \in Nat /\ handled \in [Workers -> Nat] /\ server \in [Workers -> ServerState]
      /\ server' \in [Workers -> ServerState]
  BY StateType DEF TypeInv, TypeOK
<1>9. PICK n \in 0 .. Len(log) : \E h \in [0 .. n -> ServerState] :
        /\ History(n, h)
        /\ \A w \in Workers : handled[w] \in 0 .. n /\ server[w] = h[handled[w]]
  BY DEF OneHistory
<1>1. PICK h \in [0 .. n -> ServerState] :
        /\ History(n, h)
        /\ \A w \in Workers : handled[w] \in 0 .. n /\ server[w] = h[handled[w]]
  BY <1>9
<1>2. /\ Len(log') \in Nat /\ Len(log) <= Len(log')
      /\ \A i \in 1 .. Len(log) : log'[i] = log[i]
  BY LogGrows DEF Grows
<1>3. n \in 0 .. Len(log') /\ n \in Nat
  BY <1>0, <1>1, <1>2
<1>4. History(n, h)'
  BY <1>0, <1>1, <1>2 DEF History
<1>5. CASE UNCHANGED <<server, handled>>
  BY <1>1, <1>3, <1>4, <1>5 DEF OneHistory
<1>6. ASSUME NEW w \in Workers, HandlesNext(w), handled[w] < n
      PROVE  OneHistory'
  <2>1. h[handled[w] + 1] = After(h[handled[w]], log[handled[w] + 1], handled[w] + 1)
    BY <1>0, <1>1, <1>3, <1>6 DEF History
  <2>2. server'[w] = h[handled[w] + 1] /\ handled'[w] = handled[w] + 1
    BY <1>0, <1>1, <1>6, <2>1 DEF HandlesNext, Current
  <2>3. \A v \in Workers \ {w} : server'[v] = server[v] /\ handled'[v] = handled[v]
    BY <1>0, <1>6 DEF HandlesNext
  <2>4. \A v \in Workers : handled'[v] \in 0 .. n /\ server'[v] = h[handled'[v]]
    BY <1>0, <1>1, <1>3, <1>6, <2>2, <2>3
  <2> QED
    BY <1>1, <1>3, <1>4, <2>4 DEF OneHistory
<1>7. ASSUME NEW w \in Workers, HandlesNext(w), handled[w] = n
      PROVE  OneHistory'
  <2>1. /\ server'[w] = After(h[n], log[n + 1], n + 1) /\ handled'[w] = n + 1
        /\ n + 1 \in 1 .. Len(log)
    BY <1>0, <1>1, <1>3, <1>7 DEF HandlesNext, Current
  <2>2. \A v \in Workers \ {w} : server'[v] = server[v] /\ handled'[v] = handled[v]
    BY <1>0, <1>7 DEF HandlesNext
  <2>3. server'[w] \in ServerState
    BY <1>0
  <2>4. \E g \in [0 .. n + 1 -> ServerState] : /\ g[n + 1] = server'[w]
                                               /\ \A i \in 0 .. n : g[i] = h[i]
    <3> DEFINE e == [i \in 0 .. n + 1 |-> IF i = n + 1 THEN server'[w] ELSE h[i]]
    <3>1. e \in [0 .. n + 1 -> ServerState]
      BY <1>1, <1>3, <2>3
    <3>2. e[n + 1] = server'[w] /\ \A i \in 0 .. n : e[i] = h[i]
      BY <1>3
    <3> QED
      BY <3>1, <3>2
  <2>5. PICK g \in [0 .. n + 1 -> ServerState] : /\ g[n + 1] = server'[w]
                                                 /\ \A i \in 0 .. n : g[i] = h[i]
    BY <2>4
  <2>6. g[n] = h[n]
    BY <2>5, <1>3
  <2>7. g[n + 1] = After(g[n], log'[n + 1], n + 1)
    BY <1>2, <2>1, <2>5, <2>6
  <2>8. History(n + 1, g)'
    <3>1. g[0] = NewServer
      BY <1>1, <1>3, <2>5 DEF History
    <3>2. ASSUME NEW i \in 1 .. n + 1
          PROVE  g[i] = After(g[i - 1], log'[i], i)
      <4>1. CASE i = n + 1
        BY <2>7, <4>1, <1>3
      <4>2. CASE i # n + 1
        <5>1. i \in 1 .. n /\ i \in 0 .. n /\ i - 1 \in 0 .. n
          BY <4>2, <1>3
        <5>2. h[i] = After(h[i - 1], log'[i], i)
          BY <5>1, <1>4 DEF History
        <5> QED
          BY <5>1, <5>2, <2>5
      <4> QED
        BY <4>1, <4>2
    <3> QED
      BY <3>1, <3>2 DEF History
  <2>9. \A v \in Workers : handled'[v] \in 0 .. n + 1 /\ server'[v] = g[handled'[v]]
    BY <1>0, <1>1, <1>3, <2>1, <2>2, <2>5
  <2>10. n + 1 \in 0 .. Len(log')
    BY <1>0, <1>2, <2>1
  <2> QED
    BY <2>8, <2>9, <2>10 DEF OneHistory
<1>8. \A w \in Workers : handled[w] < n \/ handled[w] = n
  BY <1>1, <1>3
<1> QED
  BY <1>5, <1>6, <1>7, <1>8, HandledSteps

\* Workers that handled the same commands are in the same state, however many
\* workers there are, however their loops interleave, and whatever clients
\* ask: no handler looks at who handles a command.
THEOREM ReplicasAlwaysAgree == Spec => []ReplicasAgree
<1>1. OneHistory => ReplicasAgree
  BY DEF OneHistory, ReplicasAgree
<1>2. TypeInv /\ OneHistory /\ [Next]_vars => (TypeInv /\ OneHistory)'
  BY TypeStep, OneHistoryStep
<1>3. Init => TypeInv /\ OneHistory
  BY TypeInit, OneHistoryInit
<1> QED
  BY <1>1, <1>2, <1>3, PTL DEF Spec
-----------------------------------------------------------------------------
(* The dataflows of queries.                                               *)

Dataflows(s) == {s.built[i] : i \in DOMAIN s.built}

Running(s, cmds) == {d \in Dataflows(s) : d.id \in s.live /\ cmds[d.id].req = "Interest"}

\* After k commands: a dataflow is named by one of them; and one that a query
\* still runs on is the one whose shutdown handle is kept, for a name that
\* somebody is interested in.
Tidy(s, cmds, k) ==
  /\ \A d \in Dataflows(s) : d.id \in 1 .. k
  /\ \A d, e \in Dataflows(s) : d.id = e.id => d = e
  /\ \A d \in Running(s, cmds) : s.shutdown_handles[d.name] = d.id /\ s.interests[d.name] # {}

\* In a tidy server a running query has interests and one dataflow.
LEMMA TidyRunning ==
  ASSUME NEW s, NEW cmds, NEW k, Tidy(s, cmds, k),
         NEW d \in Running(s, cmds), NEW e \in Running(s, cmds)
  PROVE  s.interests[d.name] # {} /\ (d.name = e.name => d = e)
<1>1. d \in Dataflows(s) /\ e \in Dataflows(s)
  BY DEF Running
<1>2. /\ s.interests[d.name] # {}
      /\ s.shutdown_handles[d.name] = d.id /\ s.shutdown_handles[e.name] = e.id
  BY DEF Tidy
<1>3. d.name = e.name => d.id = e.id
  BY <1>2
<1> QED
  BY <1>1, <1>2, <1>3 DEF Tidy

\* What a server has built are dataflows.
LEMMA DataflowsType ==
  ASSUME NEW s \in ServerState
  PROVE  Dataflows(s) \subseteq Dataflow
<1>1. s.built \in Seq(Dataflow)
  BY DEF ServerState
<1> QED
  BY <1>1 DEF Dataflows

\* Building adds one dataflow.
LEMMA DataflowsBuild ==
  ASSUME NEW s \in ServerState, NEW df \in Dataflow, NEW r, r.built = Append(s.built, df)
  PROVE  Dataflows(r) = Dataflows(s) \cup {df}
<1>1. s.built \in Seq(Dataflow)
  BY DEF ServerState
<1>2. {Append(s.built, df)[i] : i \in DOMAIN Append(s.built, df)}
        = {s.built[i] : i \in DOMAIN s.built} \cup {df}
  BY <1>1, AppendRange
<1> QED
  BY <1>2, Zenon DEF Dataflows

\* Two states that differ in nothing Tidy looks at but a smaller `live`.
LEMMA TidyMonotone ==
  ASSUME NEW s \in ServerState, NEW r \in ServerState, NEW cmds, NEW k \in Nat, Tidy(s, cmds, k),
         r.built = s.built, r.live \subseteq s.live,
         \A d \in Running(r, cmds) : /\ r.shutdown_handles[d.name] = s.shutdown_handles[d.name]
                                     /\ s.interests[d.name] # {} => r.interests[d.name] # {}
  PROVE  Tidy(r, cmds, k)
<1>1. Dataflows(r) = Dataflows(s)
  BY DEF Dataflows
<1>2. Running(r, cmds) \subseteq Running(s, cmds)
  BY <1>1 DEF Running
<1> QED
  BY <1>1, <1>2, Zenon DEF Tidy

\* One more command does not hurt.
LEMMA TidyLater ==
  ASSUME NEW s, NEW cmds, NEW k \in Nat, Tidy(s, cmds, k)
  PROVE  Tidy(s, cmds, k + 1)
<1>1. \A d \in Dataflows(s) : d.id \in 1 .. k + 1
  BY DEF Tidy
<1> QED
  BY <1>1 DEF Tidy

\* The record of a dataflow that a command builds.
LEMMA NewDataflow ==
  ASSUME NEW k \in Nat, NEW n \in Names, NEW owner \in Nat
  PROVE  [id |-> k + 1, name |-> n, owner |-> owner] \in Dataflow
BY DEF Dataflow

\* A dataflow that is built is named by the command at hand.
LEMMA TidyBuild ==
  ASSUME NEW s \in ServerState, NEW cmds, NEW k \in Nat, Tidy(s, cmds, k),
         NEW n \in Names, NEW owner \in Nat,
         NEW r \in ServerState, NEW df, df = [id |-> k + 1, name |-> n, owner |-> owner],
         r.built = Append(s.built, df), r.live \subseteq s.live \cup {k + 1},
         \A d \in Running(s, cmds) : d.id \in r.live =>
           /\ r.shutdown_handles[d.name] = s.shutdown_handles[d.name]
           /\ s.interests[d.name] # {} => r.interests[d.name] # {},
         cmds[k + 1].req = "Interest" => r.shutdown_handles[n] = k + 1 /\ r.interests[n] # {}
  PROVE  Tidy(r, cmds, k + 1)
<1>1. Dataflows(r) = Dataflows(s) \cup {df}
  <2>1. df \in Dataflow
    BY NewDataflow, Zenon
  <2> QED
    BY <2>1, DataflowsBuild, Zenon
<1>2. df.id = k + 1 /\ df.name = n
  OBVIOUS
<1>3. \A d \in Dataflows(s) : d.id \in 1 .. k /\ d.id \in Nat /\ d.id # k + 1
  <2>1. \A d \in Dataflows(s) : d.id \in 1 .. k
    BY Zenon DEF Tidy
  <2>2. \A i \in 1 .. k : i \in Nat /\ i # k + 1
    OBVIOUS
  <2> QED
    BY <2>1, <2>2, Zenon
<1>4. \A d \in Dataflows(r) : d.id \in 1 .. k + 1
  <2>1. k + 1 \in 1 .. k + 1 /\ \A i \in 1 .. k : i \in 1 .. k + 1
    OBVIOUS
  <2> QED
    BY <1>1, <1>2, <1>3, <2>1, Zenon
<1>5. \A d, e \in Dataflows(r) : d.id = e.id => d = e
  BY <1>1, <1>2, <1>3, Zenon DEF Tidy
<1>6. ASSUME NEW d \in Running(r, cmds)
      PROVE  r.shutdown_handles[d.name] = d.id /\ r.interests[d.name] # {}
  <2>1. CASE d = df
    BY <2>1, <1>2, <1>6 DEF Running
  <2>2. CASE d # df
    <3>1. d \in Running(s, cmds) /\ d.id \in r.live
      BY <2>2, <1>1, <1>3, <1>6, Zenon DEF Running
    <3> QED
      BY <3>1, Zenon DEF Tidy
  <2> QED
    BY <2>1, <2>2
<1> QED
  BY <1>4, <1>5, <1>6 DEF Tidy

\* An interest that is recorded leaves everything else alone.
LEMMA AddInterestFields ==
  ASSUME NEW s \in ServerState, NEW n \in Names, NEW t \in Tokens
  PROVE  LET r == AddInterest(s, n, t)
         IN /\ r.built = s.built /\ r.live = s.live /\ r.shutdown_handles = s.shutdown_handles
            /\ r.interests[n] = s.interests[n] \cup {t}
            /\ \A m \in Names \ {n} : r.interests[m] = s.interests[m]
<1>1. s.interests \in [Names -> SUBSET Tokens]
  BY DEF ServerState
<1> QED
  BY <1>1, Zenon DEF AddInterest, ServerState

\* Another interest leaves a server tidy.
LEMMA TidyAddInterest ==
  ASSUME NEW s \in ServerState, NEW cmds, NEW k \in Nat, Tidy(s, cmds, k),
         NEW n \in Names, NEW t \in Tokens
  PROVE  Tidy(AddInterest(s, n, t), cmds, k)
<1> DEFINE r == AddInterest(s, n, t)
<1>1. r \in ServerState
  BY AddInterestType
<1>2. /\ r.built = s.built /\ r.live = s.live /\ r.shutdown_handles = s.shutdown_handles
      /\ r.interests[n] = s.interests[n] \cup {t}
      /\ \A m \in Names \ {n} : r.interests[m] = s.interests[m]
  BY AddInterestFields
<1> HIDE DEF r
<1>3. \A d \in Running(r, cmds) : d.name \in Names
  BY <1>1, DataflowsType DEF Running, Dataflow
<1>4. \A m \in Names : s.interests[m] # {} => r.interests[m] # {}
  BY <1>2
<1>5. Tidy(r, cmds, k)
  BY <1>1, <1>2, <1>3, <1>4, TidyMonotone
<1> QED
  BY <1>5 DEF r

\* The request that sets up a query's dataflow keeps its shutdown handle.
LEMMA TidyInterest ==
  ASSUME NEW s \in ServerState, NEW cmds, NEW k \in Nat, Tidy(s, cmds, k),
         NEW n \in Names, NEW t \in Tokens, NEW owner \in Nat
  PROVE  Tidy(Interest(s, n, t, k + 1, owner), cmds, k + 1)
<1> DEFINE r == Interest(s, n, t, k + 1, owner)
           t1 == AddInterest(s, n, t)
           df == [id |-> k + 1, name |-> n, owner |-> owner]
<1>1. CASE r = t1
  BY <1>1, TidyAddInterest, TidyLater
<1>2. CASE r # t1
  <2>1. s.interests[n] = {} /\ r = [Build(ShutdownQuery(t1, n), df) EXCEPT !.shutdown_handles[n] = k + 1]
    BY <1>2 DEF Interest
  <2>2. /\ t1 \in ServerState /\ t1.built = s.built /\ t1.live = s.live
        /\ t1.shutdown_handles = s.shutdown_handles /\ t1.interests[n] = s.interests[n] \cup {t}
        /\ \A m \in Names \ {n} : t1.interests[m] = s.interests[m]
    BY AddInterestType, AddInterestFields
  <2>3. r \in ServerState
    BY InterestType
  <2> DEFINE b == Build(ShutdownQuery(t1, n), df)
  <2>10. /\ b \in ServerState /\ b.built = Append(t1.built, df)
         /\ b.live \subseteq t1.live \cup {k + 1}
         /\ b.interests = t1.interests
         /\ \A m \in Names \ {n} : b.shutdown_handles[m] = t1.shutdown_handles[m]
    <3> HIDE DEF t1
    <3>1. ShutdownQuery(t1, n) \in ServerState /\ df \in Dataflow /\ df.id = k + 1
      BY <2>2, ShutdownQueryType DEF Dataflow
    <3>2. b \in ServerState
      BY <3>1, BuildType
    <3>3. LET q == ShutdownQuery(t1, n)
          IN /\ q.built = t1.built /\ q.live \subseteq t1.live /\ q.interests = t1.interests
             /\ \A m \in Names \ {n} : q.shutdown_handles[m] = t1.shutdown_handles[m]
      BY <2>2, Zenon DEF ShutdownQuery, ServerState
    <3> HIDE DEF df
    <3>4. \A q \in ServerState : LET x == Build(q, df)
                                 IN /\ x.built = Append(q.built, df) /\ x.live = q.live \cup {df.id}
                                    /\ x.interests = q.interests
                                    /\ x.shutdown_handles = q.shutdown_handles
      BY Zenon DEF Build, ServerState
    <3> QED
      BY <3>1, <3>2, <3>3, <3>4, Zenon
  <2> HIDE DEF b, t1
  <2>11. /\ r.built = b.built /\ r.live = b.live /\ r.interests = b.interests
         /\ r.shutdown_handles[n] = k + 1
         /\ \A m \in Names \ {n} : r.shutdown_handles[m] = b.shutdown_handles[m]
    <3>1. r = [b EXCEPT !.shutdown_handles[n] = k + 1]
      BY <2>1 DEF b
    <3>2. b.shutdown_handles \in [Names -> Nat]
      BY <2>10 DEF ServerState
    <3> HIDE DEF r
    <3> QED
      BY <3>1, <3>2, <2>10, Zenon DEF ServerState
  <2> HIDE DEF r
  <2>4. /\ r.built = Append(s.built, df) /\ r.live \subseteq s.live \cup {k + 1}
        /\ r.interests[n] # {} /\ r.shutdown_handles[n] = k + 1
        /\ \A m \in Names \ {n} : /\ r.interests[m] = s.interests[m]
                                  /\ r.shutdown_handles[m] = s.shutdown_handles[m]
    BY <2>2, <2>10, <2>11
  <2>5. \A d \in Running(s, cmds) : d.name \in Names \ {n}
    BY <2>1, DataflowsType DEF Tidy, Running, Dataflow
  <2>6. Tidy(r, cmds, k + 1)
    <3> HIDE DEF df
    <3>1. df = [id |-> k + 1, name |-> n, owner |-> owner]
      BY DEF df
    <3>2. \A d \in Running(s, cmds) :
            /\ r.shutdown_handles[d.name] = s.shutdown_handles[d.name]
            /\ s.interests[d.name] # {} => r.interests[d.name] # {}
      BY <2>4, <2>5, Zenon
    <3>3. /\ r.built = Append(s.built, df) /\ r.live \subseteq s.live \cup {k + 1}
          /\ r.interests[n] # {} /\ r.shutdown_handles[n] = k + 1
      BY <2>4
    <3> QED
      BY <2>3, <3>1, <3>2, <3>3, TidyBuild, Zenon
  <2> QED
    BY <2>6 DEF r
<1> QED
  BY <1>1, <1>2

\* The dataflow of a Subscribe request is not one of a query.
LEMMA TidySubscribe ==
  ASSUME NEW s \in ServerState, NEW cmds, NEW k \in Nat, Tidy(s, cmds, k),
         NEW n \in Names, NEW t \in Tokens, NEW owner \in Nat, cmds[k + 1].req # "Interest"
  PROVE  Tidy(Subscribe(s, n, t, k + 1, owner), cmds, k + 1)
<1> DEFINE r == Subscribe(s, n, t, k + 1, owner)
           t1 == AddInterest(s, n, t)
           df == [id |-> k + 1, name |-> n, owner |-> owner]
<1>1. CASE r = t1
  BY <1>1, TidyAddInterest, TidyLater
<1>2. CASE r # t1
  <2>1. r = Build(t1, df)
    BY <1>2 DEF Subscribe
  <2>2. t1 \in ServerState /\ Tidy(t1, cmds, k)
    BY AddInterestType, TidyAddInterest
  <2>3. r \in ServerState
    BY InterestType
  <2> HIDE DEF t1, r
  <2>4. /\ r.built = Append(t1.built, df) /\ r.live = t1.live \cup {k + 1}
        /\ r.interests = t1.interests /\ r.shutdown_handles = t1.shutdown_handles
    BY <2>1, <2>2, Zenon DEF Build, ServerState
  <2>5. Tidy(r, cmds, k + 1)
    <3> HIDE DEF df
    <3>1. df = [id |-> k + 1, name |-> n, owner |-> owner]
      BY DEF df
    <3> QED
      BY <2>2, <2>3, <2>4, <3>1, TidyBuild
  <2> QED
    BY <2>5 DEF r
<1> QED
  BY <1>1, <1>2

\* A name that loses its last interest loses its dataflow in the same step.
LEMMA TidyUninterest ==
  ASSUME NEW s \in ServerState, NEW cmds, NEW k \in Nat, Tidy(s, cmds, k),
         NEW ns \in SUBSET Names, NEW t \in Tokens
  PROVE  Tidy(UninterestIn(s, ns, t), cmds, k)
<1> DEFINE r == UninterestIn(s, ns, t)
           unused == {n \in ns : s.interests[n] # {} /\ s.interests[n] \subseteq {t}}
<1>1. r \in ServerState
  BY UninterestType
<1>2. /\ r.built = s.built /\ r.live = s.live \ {s.shutdown_handles[n] : n \in unused}
      /\ r.interests = [n \in Names |-> IF n \in ns THEN s.interests[n] \ {t} ELSE s.interests[n]]
      /\ r.shutdown_handles = [n \in Names |-> IF n \in unused THEN 0 ELSE s.shutdown_handles[n]]
  BY Zenon DEF UninterestIn, ServerState
<1> HIDE DEF r
<1>3. ASSUME NEW d \in Running(r, cmds)
      PROVE  /\ r.shutdown_handles[d.name] = s.shutdown_handles[d.name]
             /\ s.interests[d.name] # {} => r.interests[d.name] # {}
  <2>1. d \in Dataflows(r) /\ d.id \in r.live
    BY <1>3 DEF Running
  <2>2. d.name \in Names
    BY <2>1, <1>1, DataflowsType DEF Dataflow
  <2>3. d \in Running(s, cmds)
    BY <1>2, <1>3, Zenon DEF Running, Dataflows
  <2>4. s.shutdown_handles[d.name] = d.id /\ s.interests[d.name] # {}
    BY <2>3 DEF Tidy
  <2>5. d.name \notin unused
    BY <1>2, <2>1, <2>4, Zenon
  <2>6. r.shutdown_handles[d.name] = s.shutdown_handles[d.name]
    BY <1>2, <2>2, <2>5, Zenon
  <2>7. CASE d.name \in ns
    <3>1. ~ (s.interests[d.name] \subseteq {t})
      BY <2>4, <2>5, <2>7, Zenon
    <3>2. r.interests[d.name] = s.interests[d.name] \ {t}
      BY <1>2, <2>2, <2>7, Zenon
    <3> QED
      BY <2>6, <3>1, <3>2, Zenon
  <2>8. CASE d.name \notin ns
    BY <1>2, <2>2, <2>6, <2>8, Zenon
  <2> QED
    BY <2>7, <2>8
<1>4. Tidy(r, cmds, k)
  BY <1>1, <1>2, <1>3, TidyMonotone, Zenon
<1> QED
  BY <1>4 DEF r

\* Registering a rule or an attribute leaves a server tidy.
LEMMA TidyRegister ==
  ASSUME NEW s \in ServerState, NEW cmds, NEW k \in Nat, Tidy(s, cmds, k), NEW n \in Names
  PROVE  Tidy(Register(s, n), cmds, k) /\ Tidy(CreateAttribute(s, n), cmds, k)
<1>1. \A r \in {Register(s, n), CreateAttribute(s, n)} :
        /\ r.built = s.built /\ r.live = s.live /\ r.interests = s.interests
        /\ r.shutdown_handles = s.shutdown_handles
  BY Zenon DEF Register, CreateAttribute, ServerState
<1> QED
  BY <1>1, RegisterType, TidyMonotone, Zenon

\* Whatever the request is.
LEMMA TidyAfter ==
  ASSUME NEW s \in ServerState, NEW cmds, NEW k \in Nat, Tidy(s, cmds, k),
         NEW c \in Command, c = cmds[k + 1]
  PROVE  Tidy(After(s, c, k + 1), cmds, k + 1)
<1>1. c.name \in Names /\ c.client \in Tokens /\ c.owner \in Nat
  <2>1. c.name \in Names /\ c.client \in Tokens /\ c.owner \in Workers
    <3> HIDE DEF Tokens, Workers
    <3> QED
      BY DEF Command
  <2> QED
    BY <2>1, ServerAssumption
<1> HIDE DEF Tokens, Workers
<1>2. Tidy(s, cmds, k + 1)
  BY TidyLater
<1>3. /\ Tidy(Register(s, c.name), cmds, k + 1)
      /\ Tidy(CreateAttribute(s, c.name), cmds, k + 1)
  BY <1>1, TidyRegister, TidyLater
<1>4. Tidy(Interest(s, c.name, c.client, k + 1, c.owner), cmds, k + 1)
  BY <1>1, TidyInterest
<1>5. c.req # "Interest" => Tidy(Subscribe(s, c.name, c.client, k + 1, c.owner), cmds, k + 1)
  BY <1>1, TidySubscribe
<1>6. /\ Tidy(Uninterest(s, c.name, c.client), cmds, k + 1)
      /\ Tidy(DisconnectClient(s, c.client), cmds, k + 1)
  BY <1>1, TidyUninterest, TidyLater DEF Uninterest, DisconnectClient
<1> QED
  BY <1>2, <1>3, <1>4, <1>5, <1>6 DEF After

\* Every worker's dataflows are tidy.
AllTidy == \A w \in Workers : Tidy(server[w], log, handled[w])

\* Servers start tidy.
LEMMA AllTidyInit == Init => AllTidy
<1> SUFFICES ASSUME Init, NEW w \in Workers PROVE Tidy(server[w], log, handled[w])
  BY DEF AllTidy
<1>1. server[w] = NewServer /\ NewServer.built = <<>>
  BY DEF Init, NewServer
<1>2. Dataflows(server[w]) = {}
  BY <1>1 DEF Dataflows
<1> QED
  BY <1>2 DEF Tidy, Running

\* Every handler leaves its server tidy.
LEMMA AllTidyStep == TypeInv /\ AllTidy /\ [Next]_vars => AllTidy'
<1> SUFFICES ASSUME TypeInv, AllTidy, [Next]_vars, NEW w \in Workers
             PROVE  Tidy(server'[w], log', handled'[w])
  BY DEF AllTidy
<1> HIDE DEF Workers, Tokens
<1>0. /\ log \in Seq(Command) /\ Len(log) \in Nat /\ handled \in [Workers -> Nat]
      /\ server \in [Workers -> ServerState] /\ handled[w] <= Len(log)
      /\ Tidy(server[w], log, handled[w])
  BY DEF TypeInv, TypeOK, AllTidy
<1>1. /\ \A i \in 1 .. Len(log) : log'[i] = log[i]
      /\ Len(log) <= Len(log') /\ log' \in Seq(Command) /\ Len(log') \in Nat
  BY LogGrows DEF Grows
<1>2. Tidy(server[w], log', handled[w])
  <2>1. \A d \in Dataflows(server[w]) : log'[d.id] = log[d.id]
    <3>1. \A d \in Dataflows(server[w]) : d.id \in 1 .. handled[w]
      BY <1>0, Zenon DEF Tidy
    <3>2. handled[w] \in Nat
      BY <1>0
    <3>3. \A i \in 1 .. handled[w] : i \in 1 .. Len(log)
      BY <1>0, <3>2
    <3> QED
      BY <1>1, <3>1, <3>3, Zenon
  <2>2. Running(server[w], log') = Running(server[w], log)
    BY <2>1, Zenon DEF Running
  <2> QED
    BY <1>0, <2>2, Zenon DEF Tidy
<1>3. CASE server'[w] = server[w] /\ handled'[w] = handled[w]
  BY <1>2, <1>3
<1>4. CASE HandlesNext(w)
  <2>1. /\ server'[w] = After(server[w], log[handled[w] + 1], handled[w] + 1)
        /\ handled'[w] = handled[w] + 1 /\ handled[w] + 1 \in 1 .. Len(log)
    BY <1>0, <1>4 DEF HandlesNext, Current
  <2>3. \A i \in 1 .. Len(log) : log[i] \in Command
    BY <1>0
  <2>2. log[handled[w] + 1] \in Command /\ log[handled[w] + 1] = log'[handled[w] + 1]
    BY <1>1, <2>1, <2>3, Zenon
  <2> QED
    BY <1>0, <1>2, <2>1, <2>2, TidyAfter
<1>5. \/ server'[w] = server[w] /\ handled'[w] = handled[w]
      \/ HandlesNext(w)
  BY <1>0, HandledSteps DEF HandlesNext
<1> QED
  BY <1>3, <1>4, <1>5

\* On every worker, a query has at most one dataflow running, and one only
\* while somebody is interested in it (main.rs sets it up on the first
\* interest; Server::uninterest shuts it down with the last).
THEOREM QueryDataflowsTidy == Spec => []DataflowsTidy
<1> HIDE DEF Workers, Tokens
<1>1. ASSUME AllTidy PROVE DataflowsTidy
  <2>1. ASSUME NEW w \in Workers PROVE LiveQueries(w) = Running(server[w], log)
    BY Zenon DEF LiveQueries, BuiltAt, Running, Dataflows
  <2>2. ASSUME NEW w \in Workers, NEW d \in Running(server[w], log),
               NEW e \in Running(server[w], log)
        PROVE  server[w].interests[d.name] # {} /\ (d.name = e.name => d = e)
    <3>1. Tidy(server[w], log, handled[w])
      BY <1>1 DEF AllTidy
    <3> QED
      BY <3>1, TidyRunning
  <2> QED
    BY <2>1, <2>2 DEF DataflowsTidy, SingleDataflow, NoOrphanDataflow
<1>2. TypeInv /\ AllTidy /\ [Next]_vars => (TypeInv /\ AllTidy)'
  BY TypeStep, AllTidyStep
<1>3. Init => TypeInv /\ AllTidy
  BY TypeInit, AllTidyInit
<1> QED
  BY <1>1, <1>2, <1>3, PTL DEF Spec
=============================================================================
