---------------------------- MODULE InterestProofs ----------------------------
(***************************************************************************)
(* The interests that the server records for its clients.  What a worker   *)
(* has recorded is a function of the commands it handled.  With a single   *)
(* worker that is what the clients asked for; with several the tokens of   *)
(* two workers clash, and it is not.                                       *)
(***************************************************************************)
EXTENDS ServerProofs

Asks == {"Interest", "Subscribe"}

\* The command says something about the interest of token t in n.
Mentions(cmd, t, n) == cmd.client = t /\ Concerns(cmd, n)

\* Of the first k commands, the last one that mentions t and n asks for n.
LastAsks(cmds, k, t, n) ==
  \E i \in 1 .. k : /\ Mentions(cmds[i], t, n) /\ cmds[i].req \in Asks
                    /\ \A j \in 1 .. k : Mentions(cmds[j], t, n) => j <= i

\* One more command decides, if it mentions t and n at all.
LEMMA LastAsksNext ==
  ASSUME NEW cmds, NEW k \in Nat, NEW t, NEW n
  PROVE  LastAsks(cmds, k + 1, t, n)
           <=> IF Mentions(cmds[k + 1], t, n) THEN cmds[k + 1].req \in Asks
               ELSE LastAsks(cmds, k, t, n)
<1>1. CASE Mentions(cmds[k + 1], t, n)
  <2>1. ASSUME LastAsks(cmds, k + 1, t, n) PROVE cmds[k + 1].req \in Asks
    <3>1. PICK i \in 1 .. k + 1 : /\ cmds[i].req \in Asks
                                  /\ \A j \in 1 .. k + 1 : Mentions(cmds[j], t, n) => j <= i
      BY <2>1 DEF LastAsks
    <3>2. i = k + 1
      BY <1>1, <3>1
    <3> QED
      BY <3>1, <3>2
  <2>2. ASSUME cmds[k + 1].req \in Asks PROVE LastAsks(cmds, k + 1, t, n)
    <3>1. k + 1 \in 1 .. k + 1 /\ \A j \in 1 .. k + 1 : j <= k + 1
      OBVIOUS
    <3> QED
      BY <1>1, <2>2, <3>1 DEF LastAsks
  <2> QED
    BY <1>1, <2>1, <2>2
<1>2. CASE ~ Mentions(cmds[k + 1], t, n)
  <2>1. \A j : j \in 1 .. k + 1 <=> j \in 1 .. k \/ j = k + 1
    OBVIOUS
  <2> QED
    BY <1>2, <2>1, Zenon DEF LastAsks
<1> QED
  BY <1>1, <1>2

\* Only the commands handled matter.
LEMMA LastAsksPrefix ==
  ASSUME NEW cmds, NEW more, NEW k \in Nat, NEW t, NEW n,
         \A i \in 1 .. k : more[i] = cmds[i]
  PROVE  LastAsks(more, k, t, n) <=> LastAsks(cmds, k, t, n)
BY Zenon DEF LastAsks

\* What a handler does to the interests: the token of the command is added,
\* taken away from one name, or taken away from all of them.
LEMMA InterestsAfter ==
  ASSUME NEW s \in ServerState, NEW c \in Command, NEW i \in Nat, NEW t \in Tokens, NEW n \in Names,
         c.req = "Subscribe" => ~ SubscribePanics(s, c.name, c.client)
  PROVE  t \in After(s, c, i).interests[n]
           <=> IF Mentions(c, t, n) THEN c.req \in Asks ELSE t \in s.interests[n]
<1>0. c.name \in Names /\ c.client \in Tokens /\ c.req \in Requests
  BY DEF Command
<1>1. s.interests \in [Names -> SUBSET Tokens]
  BY DEF ServerState
<1> DEFINE r == After(s, c, i)
<1>2. CASE c.req \notin {"Interest", "Subscribe", "Uninterest", "Disconnect"}
  <2>1. r.interests = s.interests
    BY <1>2, Zenon DEF After, Register, CreateAttribute, ServerState
  <2> QED
    BY <1>2, <2>1 DEF Mentions, Concerns
<1>3. CASE c.req \in Asks
  <2>1. r.interests = AddInterest(s, c.name, c.client).interests
    <3> DEFINE t1 == AddInterest(s, c.name, c.client)
    <3>1. t1 \in ServerState
      BY <1>0, AddInterestType
    <3> HIDE DEF t1
    <3>2. \A df : Build(t1, df).interests = t1.interests
      BY <3>1, Zenon DEF Build, ServerState
    <3>3. \A df, m : [Build(ShutdownQuery(t1, m), df) EXCEPT !.shutdown_handles[m] = i].interests
                       = t1.interests
      BY <3>1, Zenon DEF Build, ShutdownQuery, ServerState
    <3>4. Interest(s, c.name, c.client, i, c.owner).interests = t1.interests
      BY <3>3 DEF Interest, t1
    <3>5. Subscribe(s, c.name, c.client, i, c.owner).interests = t1.interests
      BY <3>2 DEF Subscribe, t1
    <3>6. r \in {Interest(s, c.name, c.client, i, c.owner), Subscribe(s, c.name, c.client, i, c.owner)}
      BY <1>3 DEF After, Asks
    <3> QED
      BY <3>4, <3>5, <3>6 DEF t1
  <2>2. /\ r.interests[c.name] = s.interests[c.name] \cup {c.client}
        /\ \A m \in Names \ {c.name} : r.interests[m] = s.interests[m]
    BY <1>0, <2>1, AddInterestFields
  <2> HIDE DEF r
  <2>3. c.req # "Disconnect" /\ c.req \in {"Interest", "Subscribe", "Uninterest"}
    BY <1>3 DEF Asks
  <2>4. t \in r.interests[n] <=> (c.client = t /\ c.name = n) \/ t \in s.interests[n]
    BY <2>2
  <2> QED
    BY <1>3, <2>3, <2>4 DEF Mentions, Concerns, r
<1>4. CASE c.req = "Uninterest"
  <2>1. r.interests[n] = IF n = c.name THEN s.interests[n] \ {c.client} ELSE s.interests[n]
    BY <1>4, Zenon DEF After, Uninterest, UninterestIn, ServerState
  <2> HIDE DEF r
  <2> QED
    BY <1>4, <2>1 DEF Mentions, Concerns, Asks, r
<1>5. CASE c.req = "Disconnect"
  <2>1. r.interests[n] = s.interests[n] \ {c.client}
    BY <1>5, Zenon DEF After, DisconnectClient, UninterestIn, ServerState
  <2> HIDE DEF r
  <2> QED
    BY <1>5, <2>1 DEF Mentions, Concerns, Asks, r
<1> QED
  BY <1>2, <1>3, <1>4, <1>5 DEF Asks
-----------------------------------------------------------------------------
(* What is recorded, for any number of workers.                            *)

Panics(w) == Current(w).req = "Subscribe"
             /\ SubscribePanics(server[w], Current(w).name, Current(w).client)

\* A worker that is up has recorded exactly the tokens whose last command on
\* the name asks for it; one that is down has recorded no others.
Recorded ==
  \A w \in Workers, t \in Tokens, n \in Names :
    /\ t \in server[w].interests[n] => LastAsks(log, handled[w], t, n)
    /\ Up(w) /\ LastAsks(log, handled[w], t, n) => t \in server[w].interests[n]

\* A worker handles a command only while it is up, and is down for good once
\* a Subscribe has panicked.
LEMMA WorkerSteps ==
  ASSUME TypeInv, [Next]_vars, NEW w \in Workers
  PROVE  \/ server'[w] = server[w] /\ handled'[w] = handled[w] /\ (Up(w)' => Up(w))
         \/ HandlesNext(w) /\ Up(w) /\ (Panics(w) => ~ Up(w)')
<1>0. /\ server \in [Workers -> ServerState] /\ handled \in [Workers -> Nat]
      /\ status \in [Workers -> {"running", "shutdown", "down"}]
  BY DEF TypeInv, TypeOK
<1>1. CASE UNCHANGED <<server, handled, status>>
  BY <1>1 DEF Up
<1>2. ASSUME NEW v \in Workers, LeaveLoop(v)
      PROVE  server'[w] = server[w] /\ handled'[w] = handled[w] /\ (Up(w)' => Up(w))
  BY <1>0, <1>2 DEF LeaveLoop, Up
<1>3. ASSUME NEW v \in Workers, HandleCommand(v)
      PROVE  /\ HandlesNext(v) /\ Up(v) /\ (Panics(v) => status'[v] = "down")
             /\ \A u \in Workers \ {v} : status'[u] = status[u]
  <2>1. CASE HandleRegister(v)
    BY <2>1, Zenon DEF HandleRegister, Handling, ServerBecomes, HandlesNext, After, Panics
  <2>2. CASE HandleCreateAttribute(v)
    BY <2>2, Zenon DEF HandleCreateAttribute, Handling, ServerBecomes, HandlesNext, After, Panics
  <2>3. CASE HandleInterest(v)
    BY <2>3, Zenon DEF HandleInterest, Handling, ServerBecomes, HandlesNext, After, Panics
  <2>4. CASE HandleSubscribe(v)
    <3>1. Handling(v, "Subscribe")
      BY <2>4 DEF HandleSubscribe
    <3>2. CASE SubscribePanics(server[v], Current(v).name, Current(v).client)
      <4>1. status' = [status EXCEPT ![v] = "down"] /\ server' = server
        BY <2>4, <3>2 DEF HandleSubscribe
      <4>2. After(server[v], Current(v), handled[v] + 1) = server[v]
        BY <3>1, <3>2 DEF After, Handling
      <4> QED
        BY <1>0, <3>1, <4>1, <4>2 DEF Handling, HandlesNext
    <3>3. CASE ~ SubscribePanics(server[v], Current(v).name, Current(v).client)
      BY <2>4, <3>1, <3>3 DEF HandleSubscribe, Handling, ServerBecomes, HandlesNext, After, Panics
    <3> QED
      BY <3>2, <3>3
  <2>5. CASE HandleUninterest(v)
    BY <2>5, Zenon DEF HandleUninterest, Handling, ServerBecomes, HandlesNext, After, Panics
  <2>6. CASE HandleDisconnect(v)
    BY <2>6, Zenon DEF HandleDisconnect, Handling, ServerBecomes, HandlesNext, After, Panics
  <2>7. CASE HandleStatus(v)
    BY <2>7, <1>0, Zenon DEF HandleStatus, Handling, HandlesNext, After, Panics
  <2>8. CASE HandleShutdown(v)
    BY <2>8, <1>0, Zenon DEF HandleShutdown, Handling, HandlesNext, After, Panics
  <2> QED
    BY <1>3, <2>1, <2>2, <2>3, <2>4, <2>5, <2>6, <2>7, <2>8 DEF HandleCommand
<1>4. ASSUME NEW v \in Workers, HandleCommand(v), v # w
      PROVE  server'[w] = server[w] /\ handled'[w] = handled[w] /\ (Up(w)' => Up(w))
  BY <1>0, <1>3, <1>4 DEF HandlesNext, Up
<1>5. ASSUME HandleCommand(w)
      PROVE  HandlesNext(w) /\ Up(w) /\ (Panics(w) => ~ Up(w)')
  BY <1>3, <1>5 DEF Up
<1>6. \/ UNCHANGED <<server, handled, status>>
      \/ \E v \in Workers : LeaveLoop(v) \/ HandleCommand(v)
  BY Zenon DEF Next, vars, ClientStep, Accept, ReceiveRequest, ReceiveMalformed, CloseConnection,
     ForwardOutputs, ProduceResults, ResultsRecv
<1> QED
  BY <1>1, <1>2, <1>4, <1>5, <1>6

\* At the start nothing is recorded.
LEMMA RecordedInit == Init => Recorded
<1> SUFFICES ASSUME Init, NEW w \in Workers, NEW t \in Tokens, NEW n \in Names
             PROVE  ~ LastAsks(log, handled[w], t, n) /\ t \notin server[w].interests[n]
  BY Zenon DEF Recorded
<1>1. handled[w] = 0 /\ server[w] = NewServer
  BY DEF Init
<1>2. NewServer.interests[n] = {}
  BY Zenon DEF NewServer
<1> QED
  BY <1>1, <1>2 DEF LastAsks

\* Every handler records what its command asks for, and nothing else.
LEMMA RecordedStep == TypeInv /\ Recorded /\ [Next]_vars => Recorded'
<1> SUFFICES ASSUME TypeInv, Recorded, [Next]_vars,
                    NEW w \in Workers, NEW t \in Tokens, NEW n \in Names
             PROVE  /\ t \in server'[w].interests[n] => LastAsks(log', handled'[w], t, n)
                    /\ Up(w)' /\ LastAsks(log', handled'[w], t, n) => t \in server'[w].interests[n]
  BY DEF Recorded
<1>0. /\ log \in Seq(Command) /\ Len(log) \in Nat /\ handled[w] \in Nat
      /\ server[w] \in ServerState /\ handled[w] <= Len(log)
  BY DEF TypeInv, TypeOK
<1>1. /\ t \in server[w].interests[n] => LastAsks(log, handled[w], t, n)
      /\ Up(w) /\ LastAsks(log, handled[w], t, n) => t \in server[w].interests[n]
  BY DEF Recorded
<1>2. \A k \in 0 .. Len(log) : LastAsks(log', k, t, n) <=> LastAsks(log, k, t, n)
  <2> SUFFICES ASSUME NEW k \in 0 .. Len(log)
               PROVE  LastAsks(log', k, t, n) <=> LastAsks(log, k, t, n)
    OBVIOUS
  <2>1. \A i \in 1 .. k : log'[i] = log[i]
    BY <1>0, LogGrows DEF Grows
  <2> QED
    BY <2>1, LastAsksPrefix, <1>0
<1>3. CASE server'[w] = server[w] /\ handled'[w] = handled[w] /\ (Up(w)' => Up(w))
  <2>1. LastAsks(log', handled'[w], t, n) <=> LastAsks(log, handled[w], t, n)
    BY <1>0, <1>2, <1>3
  <2> QED
    BY <1>1, <1>3, <2>1, Zenon
<1>4. CASE HandlesNext(w) /\ Up(w) /\ (Panics(w) => ~ Up(w)')
  <2> DEFINE k == handled[w]
             c == log[k + 1]
  <2>0. c \in Command /\ c = Current(w) /\ k + 1 \in 1 .. Len(log) /\ k \in Nat
    BY <1>0, <1>4 DEF HandlesNext, Current
  <2>1. server'[w] = After(server[w], c, k + 1) /\ handled'[w] = k + 1
    <3>1. server \in [Workers -> ServerState] /\ handled \in [Workers -> Nat]
      BY DEF TypeInv, TypeOK
    <3> QED
      BY <3>1, <1>4 DEF HandlesNext, Current
  <2>2. LastAsks(log', handled'[w], t, n)
          <=> IF Mentions(c, t, n) THEN c.req \in Asks ELSE LastAsks(log, k, t, n)
    <3>1. LastAsks(log, k + 1, t, n)
            <=> IF Mentions(c, t, n) THEN c.req \in Asks ELSE LastAsks(log, k, t, n)
      BY <2>0, LastAsksNext
    <3>2. k + 1 \in 0 .. Len(log) /\ handled'[w] = k + 1
      BY <2>0, <2>1, <1>0
    <3> HIDE DEF c, k
    <3> QED
      BY <1>2, <3>1, <3>2
  <2> HIDE DEF c, k
  <2>3. CASE ~ Panics(w)
    <3>1. t \in server'[w].interests[n]
            <=> IF Mentions(c, t, n) THEN c.req \in Asks ELSE t \in server[w].interests[n]
      BY <1>0, <2>0, <2>1, <2>3, InterestsAfter DEF Panics
    <3> QED
      BY <1>1, <1>4, <2>2, <3>1, Zenon DEF k
  <2>4. CASE Panics(w)
    <3>1. ~ Up(w)' /\ server'[w] = server[w] /\ c.req = "Subscribe"
      BY <1>4, <2>0, <2>1, <2>4 DEF Panics, After
    <3>2. ASSUME t \in server[w].interests[n] PROVE LastAsks(log', handled'[w], t, n)
      <4>1. Mentions(c, t, n) => c.req \in Asks
        BY <3>1 DEF Asks
      <4> QED
        BY <4>1, <2>2, <1>1, <3>2 DEF k
    <3> QED
      BY <3>1, <3>2, Zenon
  <2> QED
    BY <2>3, <2>4
<1> QED
  BY <1>3, <1>4, WorkerSteps
-----------------------------------------------------------------------------
(* Tokens, connections and commands, for a single worker.                  *)

\* A vacant entry of the slab has no connection and is vacant once.
Slab(x) ==
  \A i, j \in DOMAIN x.vacant : /\ ~ Connected(x, x.vacant[i])
                                /\ x.vacant[i] = x.vacant[j] => i = j

\* conn: the clients behind the tokens; cmds: the first k commands.
\* A client has one token...
OneToken(conn) ==
  \A t, u \in Tokens : conn[t] # NoClient /\ conn[t] = conn[u] => t = u

\* ...which its commands carry...
Carried(conn, cmds, k) ==
  \A t \in Tokens, i \in 1 .. k :
    conn[t] # NoClient /\ cmds[i].from = conn[t] => cmds[i].client = t

\* ...and from its first command on every command with that token is its own.
Exclusive(conn, cmds, k) ==
  \A t \in Tokens, i, j \in 1 .. k :
    conn[t] # NoClient /\ i < j /\ cmds[i].from = conn[t] /\ cmds[j].client = t
      => cmds[j].from = conn[t]

\* A command of a client that has gone is followed by a Disconnect for its
\* token.
Closed(cmds, k, i) ==
  \E j \in 1 .. k : i < j /\ cmds[j].req = "Disconnect" /\ cmds[j].client = cmds[i].client

Followed(conn, cmds, k) ==
  \A i \in 1 .. k :
    cmds[i].req # "Disconnect" => conn[cmds[i].client] = cmds[i].from \/ Closed(cmds, k, i)

OwnedBy(conn, cmds, k) ==
  OneToken(conn) /\ Carried(conn, cmds, k) /\ Exclusive(conn, cmds, k) /\ Followed(conn, cmds, k)

\* A command is closed for good.
LEMMA StaysClosed ==
  ASSUME NEW cmds, NEW more, NEW k \in Nat, NEW m \in Nat, k <= m, NEW i \in 1 .. k,
         \A j \in 1 .. k : more[j] = cmds[j], Closed(cmds, k, i)
  PROVE  Closed(more, m, i)
<1>1. PICK j \in 1 .. k : i < j /\ cmds[j].req = "Disconnect" /\ cmds[j].client = cmds[i].client
  BY DEF Closed
<1>2. j \in 1 .. m
  OBVIOUS
<1> QED
  BY <1>1, <1>2 DEF Closed

\* A client that is accepted has issued no commands yet.
LEMMA OwnedAccept ==
  ASSUME NEW conn \in [Tokens -> Clients \cup {NoClient}], NEW cmds, NEW k \in Nat,
         OwnedBy(conn, cmds, k), NEW t \in Tokens, conn[t] = NoClient,
         NEW c \in Clients, \A u \in Tokens : conn[u] # c,
         \A i \in 1 .. k : cmds[i].from # c /\ cmds[i].client \in Tokens
                           /\ (cmds[i].req # "Disconnect" => cmds[i].from \in Clients),
         NoClient \notin Clients
  PROVE  OwnedBy([conn EXCEPT ![t] = c], cmds, k)
<1> DEFINE new == [conn EXCEPT ![t] = c]
<1>1. new[t] = c /\ \A u \in Tokens \ {t} : new[u] = conn[u]
  OBVIOUS
<1> HIDE DEF new
<1>2. OneToken(new)
  BY <1>1 DEF OneToken, OwnedBy
<1>3. Carried(new, cmds, k)
  BY <1>1 DEF Carried, OwnedBy
<1>4. Exclusive(new, cmds, k)
  <2> SUFFICES ASSUME NEW u \in Tokens, NEW i \in 1 .. k, NEW j \in 1 .. k,
                      new[u] # NoClient, i < j, cmds[i].from = new[u], cmds[j].client = u
               PROVE  cmds[j].from = new[u]
    BY DEF Exclusive
  <2>1. u # t /\ new[u] = conn[u]
    BY <1>1
  <2> QED
    BY <2>1 DEF Exclusive, OwnedBy
<1>5. Followed(new, cmds, k)
  <2> SUFFICES ASSUME NEW i \in 1 .. k, cmds[i].req # "Disconnect", ~ Closed(cmds, k, i)
               PROVE  new[cmds[i].client] = cmds[i].from
    BY DEF Followed
  <2>1. conn[cmds[i].client] = cmds[i].from
    BY DEF Followed, OwnedBy
  <2>2. cmds[i].client \in Tokens \ {t}
    BY <2>1
  <2> QED
    BY <2>1, <2>2, <1>1
<1>6. OwnedBy(new, cmds, k)
  BY <1>2, <1>3, <1>4, <1>5 DEF OwnedBy
<1> QED
  BY <1>6 DEF new

\* A request carries the token of its client.
LEMMA OwnedRequest ==
  ASSUME NEW conn, NEW cmds, NEW more, NEW k \in Nat, OwnedBy(conn, cmds, k),
         NEW t \in Tokens, conn[t] # NoClient,
         \A i \in 1 .. k : more[i] = cmds[i],
         more[k + 1].client = t, more[k + 1].from = conn[t]
  PROVE  OwnedBy(conn, more, k + 1)
<1>1. \A i \in 1 .. k + 1 : i \in 1 .. k \/ i = k + 1
  OBVIOUS
<1>3. Carried(conn, more, k + 1)
  <2> SUFFICES ASSUME NEW u \in Tokens, NEW i \in 1 .. k + 1,
                      conn[u] # NoClient, more[i].from = conn[u]
               PROVE  more[i].client = u
    BY DEF Carried
  <2>1. CASE i = k + 1
    BY <2>1 DEF OneToken, OwnedBy
  <2>2. CASE i \in 1 .. k
    BY <2>2 DEF Carried, OwnedBy
  <2> QED
    BY <1>1, <2>1, <2>2
<1>4. Exclusive(conn, more, k + 1)
  <2> SUFFICES ASSUME NEW u \in Tokens, NEW i \in 1 .. k + 1, NEW j \in 1 .. k + 1,
                      conn[u] # NoClient, i < j, more[i].from = conn[u], more[j].client = u
               PROVE  more[j].from = conn[u]
    BY DEF Exclusive
  <2>1. CASE j = k + 1
    BY <2>1
  <2>2. CASE j \in 1 .. k
    <3>0. i \in 1 .. k
      BY <2>2
    <3>1. more[i] = cmds[i] /\ more[j] = cmds[j]
      BY <2>2, <3>0, Zenon
    <3>2. Exclusive(conn, cmds, k)
      BY DEF OwnedBy
    <3> QED
      BY <2>2, <3>0, <3>1, <3>2 DEF Exclusive
  <2> QED
    BY <1>1, <2>1, <2>2
<1>5. Followed(conn, more, k + 1)
  <2> SUFFICES ASSUME NEW i \in 1 .. k + 1, more[i].req # "Disconnect", ~ Closed(more, k + 1, i)
               PROVE  conn[more[i].client] = more[i].from
    BY DEF Followed
  <2>1. CASE i = k + 1
    BY <2>1
  <2>2. CASE i \in 1 .. k
    <3>1. k + 1 \in Nat /\ k <= k + 1
      OBVIOUS
    <3>2. ~ Closed(cmds, k, i)
      BY <2>2, <3>1, StaysClosed, Zenon
    <3> QED
      BY <2>2, <3>2 DEF Followed, OwnedBy
  <2> QED
    BY <1>1, <2>1, <2>2
<1> QED
  BY <1>3, <1>4, <1>5 DEF OwnedBy

\* A connection that closes is followed by the Disconnect.
LEMMA OwnedClose ==
  ASSUME NEW conn \in [Tokens -> Clients \cup {NoClient}],
         NEW cmds, NEW more, NEW k \in Nat, OwnedBy(conn, cmds, k),
         NEW t \in Tokens, conn[t] # NoClient,
         \A i \in 1 .. k : more[i] = cmds[i] /\ cmds[i].client \in Tokens,
         more[k + 1].client = t, more[k + 1].from = conn[t], more[k + 1].req = "Disconnect"
  PROVE  OwnedBy([conn EXCEPT ![t] = NoClient], more, k + 1)
<1> DEFINE new == [conn EXCEPT ![t] = NoClient]
<1>0. \A i \in 1 .. k + 1 : i \in 1 .. k \/ i = k + 1
  OBVIOUS
<1>1. new[t] = NoClient /\ \A u \in Tokens \ {t} : new[u] = conn[u]
  OBVIOUS
<1> HIDE DEF new
<1>8. /\ OneToken(conn) /\ Carried(conn, cmds, k)
      /\ Exclusive(conn, cmds, k) /\ Followed(conn, cmds, k)
  BY DEF OwnedBy
<1>6. \A u \in Tokens : new[u] # NoClient => u # t /\ new[u] = conn[u] /\ conn[u] # conn[t]
  BY <1>1, <1>8 DEF OneToken
<1>2. OneToken(new)
  BY <1>6, <1>8 DEF OneToken
<1>3. Carried(new, more, k + 1)
  <2> SUFFICES ASSUME NEW u \in Tokens, NEW i \in 1 .. k + 1,
                      new[u] # NoClient, more[i].from = new[u]
               PROVE  more[i].client = u
    BY DEF Carried
  <2>1. new[u] = conn[u] /\ i # k + 1
    BY <1>6
  <2>2. i \in 1 .. k
    BY <1>0, <2>1
  <2> QED
    BY <1>8, <2>1, <2>2 DEF Carried
<1>4. Exclusive(new, more, k + 1)
  <2> SUFFICES ASSUME NEW u \in Tokens, NEW i \in 1 .. k + 1, NEW j \in 1 .. k + 1,
                      new[u] # NoClient, i < j, more[i].from = new[u], more[j].client = u
               PROVE  more[j].from = new[u]
    BY DEF Exclusive
  <2>1. new[u] = conn[u] /\ j # k + 1
    BY <1>6
  <2>2. i \in 1 .. k /\ j \in 1 .. k
    <3>1. j \in 1 .. k
      BY <1>0, <2>1
    <3> QED
      BY <3>1
  <2>3. more[i] = cmds[i] /\ more[j] = cmds[j]
    BY <2>2
  <2> QED
    BY <1>8, <2>1, <2>2, <2>3 DEF Exclusive
<1>5. Followed(new, more, k + 1)
  <2> SUFFICES ASSUME NEW i \in 1 .. k + 1, more[i].req # "Disconnect", ~ Closed(more, k + 1, i)
               PROVE  new[more[i].client] = more[i].from
    BY DEF Followed
  <2>1. i \in 1 .. k /\ more[i] = cmds[i] /\ cmds[i].client \in Tokens
    BY <1>0
  <2>2. ~ Closed(cmds, k, i)
    BY <2>1, StaysClosed
  <2>3. cmds[i].client # t
    BY <2>1 DEF Closed
  <2>4. conn[cmds[i].client] = cmds[i].from
    BY <1>8, <2>1, <2>2 DEF Followed
  <2> QED
    BY <2>1, <2>3, <2>4, <1>1
<1>7. OwnedBy(new, more, k + 1)
  BY <1>2, <1>3, <1>4, <1>5 DEF OwnedBy
<1> QED
  BY <1>7 DEF new

\* Disconnects for tokens without a connection concern no client that is left.
LEMMA OwnedGone ==
  ASSUME NEW conn, NEW cmds, NEW more, NEW k \in Nat, NEW m \in Nat, k <= m,
         OwnedBy(conn, cmds, k), \A i \in 1 .. k : more[i] = cmds[i],
         \A i \in k + 1 .. m : conn[more[i].client] = NoClient
                               /\ more[i].from = NoClient /\ more[i].req = "Disconnect"
  PROVE  OwnedBy(conn, more, m)
<1>0. \A i \in 1 .. m : i \in 1 .. k \/ i \in k + 1 .. m
  OBVIOUS
<1>3. Carried(conn, more, m)
  BY <1>0 DEF Carried, OwnedBy
<1>4. Exclusive(conn, more, m)
  <2> SUFFICES ASSUME NEW u \in Tokens, NEW i \in 1 .. m, NEW j \in 1 .. m,
                      conn[u] # NoClient, i < j, more[i].from = conn[u], more[j].client = u
               PROVE  more[j].from = conn[u]
    BY DEF Exclusive
  <2>1. i \in 1 .. k /\ j \in 1 .. k
    BY <1>0
  <2> QED
    BY <2>1 DEF Exclusive, OwnedBy
<1>5. Followed(conn, more, m)
  <2> SUFFICES ASSUME NEW i \in 1 .. m, more[i].req # "Disconnect", ~ Closed(more, m, i)
               PROVE  conn[more[i].client] = more[i].from
    BY DEF Followed
  <2>1. i \in 1 .. k
    BY <1>0
  <2>2. ~ Closed(cmds, k, i)
    BY <2>1, StaysClosed
  <2> QED
    BY <2>1, <2>2 DEF Followed, OwnedBy
<1> QED
  BY <1>3, <1>4, <1>5 DEF OwnedBy

\* A slab hands out a vacant entry, and takes back one that was not.
LEMMA SlabAccepted ==
  ASSUME NEW x \in IO, Slab(x), x.vacant # <<>>, NEW c \in Clients
  PROVE  /\ Slab(Accepted(x, c)) /\ Head(x.vacant) \in Tokens
         /\ x.connections[Head(x.vacant)] = NoClient
         /\ Accepted(x, c).connections = [x.connections EXCEPT ![Head(x.vacant)] = c]
<1> DEFINE t == Head(x.vacant)
           y == Accepted(x, c)
           q == x.vacant
<1>1. q \in Seq(Tokens) /\ x.connections \in [Tokens -> Clients \cup {NoClient}]
  BY DEF IO
<1>2. t \in Tokens
  BY <1>1, HeadTail
<1>3. y.vacant = Tail(q) /\ y.connections = [x.connections EXCEPT ![t] = c]
  BY Zenon DEF Accepted, VacantToken, IO
<1>4. /\ 1 \in DOMAIN q /\ q[1] = t
      /\ \A i \in DOMAIN Tail(q) : i + 1 \in DOMAIN q /\ i + 1 # 1 /\ Tail(q)[i] = q[i + 1]
      /\ \A i, j \in DOMAIN Tail(q) : i + 1 = j + 1 => i = j
  BY <1>1
<1>5. x.connections[t] = NoClient
  BY <1>4 DEF Slab, Connected
<1>6. \A i \in DOMAIN q : q[i] \in Tokens
  BY <1>1
<1> HIDE DEF y, q, t
<1>7. ASSUME NEW i \in DOMAIN y.vacant, NEW j \in DOMAIN y.vacant
      PROVE  ~ Connected(y, y.vacant[i]) /\ (y.vacant[i] = y.vacant[j] => i = j)
  <2>1. /\ i + 1 \in DOMAIN q /\ j + 1 \in DOMAIN q /\ i + 1 # 1
        /\ y.vacant[i] = q[i + 1] /\ y.vacant[j] = q[j + 1]
    BY <1>3, <1>4
  <2>6. \A k, l \in DOMAIN q : q[k] = q[l] => k = l
    BY DEF Slab, q
  <2>2. q[i + 1] # t /\ q[i + 1] \in Tokens
    BY <2>1, <2>6, <1>4, <1>6, Zenon
  <2>3. ~ Connected(x, q[i + 1]) /\ (q[i + 1] = q[j + 1] => i + 1 = j + 1)
    BY <2>1 DEF Slab, q
  <2>4. i + 1 = j + 1 => i = j
    BY <1>3, <1>4
  <2>5. y.connections[q[i + 1]] = x.connections[q[i + 1]]
    BY <1>1, <1>3, <2>2
  <2> QED
    BY <2>1, <2>3, <2>4, <2>5 DEF Connected
<1>8. Slab(y)
  BY <1>7 DEF Slab
<1> QED
  BY <1>2, <1>3, <1>5, <1>8 DEF y, t

\* A slab from which a connection was removed is a slab (slab.remove).
LEMMA SlabRemoved ==
  ASSUME NEW x \in IO, Slab(x), NEW t \in Tokens, Connected(x, t)
  PROVE  /\ Slab(Removed(x, t))
         /\ Removed(x, t).connections = [x.connections EXCEPT ![t] = NoClient]
<1> DEFINE y == Removed(x, t)
           q == x.vacant
           p == <<t>> \o q
<1>1. q \in Seq(Tokens) /\ x.connections \in [Tokens -> Clients \cup {NoClient}]
  BY DEF IO
<1>3. y.vacant = p /\ y.connections = [x.connections EXCEPT ![t] = NoClient]
  BY Zenon DEF Removed, IO
<1>4. /\ p[1] = t
      /\ \A i \in DOMAIN p : i = 1 \/ (i - 1 \in DOMAIN q /\ p[i] = q[i - 1])
      /\ \A i, j \in DOMAIN p : i - 1 = j - 1 => i = j
  BY <1>1
<1>9. \A i \in DOMAIN q : q[i] \in Tokens
  BY <1>1
<1>5. \A i \in DOMAIN q : q[i] \in Tokens /\ ~ Connected(x, q[i]) /\ q[i] # t
  BY <1>9, Zenon DEF Slab
<1> HIDE DEF y, q, p
<1>6. ASSUME NEW u \in Tokens, ~ Connected(x, u) \/ u = t PROVE ~ Connected(y, u)
  <2>1. y.connections[u] = IF u = t THEN NoClient ELSE x.connections[u]
    BY <1>1, <1>3
  <2> QED
    BY <1>6, <2>1 DEF Connected
<1>7. ASSUME NEW i \in DOMAIN p, NEW j \in DOMAIN p
      PROVE  ~ Connected(y, p[i]) /\ (p[i] = p[j] => i = j)
  <2>1. \A k \in DOMAIN p : (k = 1 /\ p[k] = t) \/ (k - 1 \in DOMAIN q /\ p[k] = q[k - 1])
    BY <1>4, Zenon
  <2>5. p[i] \in Tokens /\ (~ Connected(x, p[i]) \/ p[i] = t)
    BY <2>1, <1>5, Zenon
  <2>2. ~ Connected(y, p[i])
    BY <2>5, <1>6
  <2>3. \A k, l \in DOMAIN q : q[k] = q[l] => k = l
    BY DEF Slab, q
  <2>4. p[i] = p[j] => i = j
    BY <2>1, <2>3, <1>4, <1>5
  <2> QED
    BY <2>2, <2>4
<1>8. Slab(y)
  BY <1>3, <1>7 DEF Slab
<1> QED
  BY <1>3, <1>8 DEF y
-----------------------------------------------------------------------------
(* One worker.                                                             *)

Owned == Slab(io[0]) /\ OwnedBy(io[0].connections, log, Len(log))

\* At the start there is neither a connection nor a command.
LEMMA OwnedInit == ASSUME MaxWorkers = 1 PROVE Init => Owned
<1> SUFFICES ASSUME Init PROVE Owned
  OBVIOUS
<1>1. io[0] = NewIO /\ Len(log) = 0 /\ MaxTokens \in Nat
  <2>1. 0 \in Workers
    BY DEF Workers
  <2> QED
    BY <2>1, ServerAssumption DEF Init
<1>2. \A t \in Tokens : NewIO.connections[t] = NoClient
  BY Zenon DEF NewIO
<1>3. Slab(NewIO)
  <2>1. NewIO.vacant = [i \in 1 .. MaxTokens |-> i - 1]
    BY Zenon DEF NewIO
  <2>2. \A i \in 1 .. MaxTokens : i - 1 \in Tokens
    BY <1>1 DEF Tokens
  <2>3. \A i, j \in 1 .. MaxTokens : i - 1 = j - 1 => i = j
    OBVIOUS
  <2>4. \A i \in DOMAIN NewIO.vacant : i \in 1 .. MaxTokens /\ NewIO.vacant[i] = i - 1
    BY <2>1
  <2> QED
    BY <1>2, <2>2, <2>3, <2>4 DEF Slab, Connected
<1>4. OwnedBy(NewIO.connections, log, 0)
  BY <1>2 DEF OwnedBy, OneToken, Carried, Exclusive, Followed
<1> QED
  BY <1>1, <1>3, <1>4 DEF Owned

\* Outputs that come and go leave the slab alone.
LEMMA SlabKept ==
  ASSUME NEW x, NEW y, y.connections = x.connections, y.vacant = x.vacant, Slab(x)
  PROVE  Slab(y)
BY DEF Slab, Connected

\* Outputs, queued or sent, leave the connections alone.
LEMMA OutputsKeepSlab ==
  ASSUME NEW x \in IO, NEW out
  PROVE  /\ Sent(x, out).connections = x.connections /\ Sent(x, out).vacant = x.vacant
         /\ Drained(x).connections = x.connections /\ Drained(x).vacant = x.vacant
BY Zenon DEF Sent, Drained, IO

\* With one worker every step keeps commands and connections together.
LEMMA OwnedStep == ASSUME MaxWorkers = 1 PROVE TypeInv /\ Owned /\ [Next]_vars => Owned'
<1> SUFFICES ASSUME TypeInv, Owned, [Next]_vars PROVE Owned'
  OBVIOUS
<1>w. Workers = {0}
  BY DEF Workers
<1> DEFINE conn == io[0].connections
           k == Len(log)
<1>0. /\ io \in [Workers -> IO] /\ io[0] \in IO /\ log \in Seq(Command) /\ k \in Nat
      /\ DOMAIN log = 1 .. k /\ Slab(io[0]) /\ OwnedBy(conn, log, k)
  BY <1>w DEF TypeInv, TypeOK, Owned
<1>c. conn \in [Tokens -> Clients \cup {NoClient}]
  BY <1>0 DEF IO
<1>l. \A i \in 1 .. k : /\ log[i].client \in Tokens
                        /\ log[i].req # "Disconnect" => log[i].from \in Clients
  <2>1. \A i \in 1 .. k : log[i] \in Command
    BY <1>0
  <2> QED
    BY <1>0, <2>1 DEF Command, TypeInv, Senders
<1>n. NoClient \notin Clients
  BY ServerAssumption
<1> HIDE DEF conn, k
<1>1. ASSUME UNCHANGED log, io'[0].connections = conn, io'[0].vacant = io[0].vacant
      PROVE  Owned'
  BY <1>0, <1>1, SlabKept DEF Owned, conn, k
<1>2. ASSUME NEW c \in Clients, Accept(0, c) PROVE Owned'
  <2>1. /\ io'[0] = Accepted(io[0], c) /\ io[0].vacant # <<>> /\ log' = log
        /\ \A i \in 1 .. k : log[i].from # c
    BY <1>0, <1>2, <1>w DEF Accept
  <2>2. \A t \in Tokens : conn[t] # c
    BY <1>2, <1>w DEF Accept, Known, conn
  <2> DEFINE t == Head(io[0].vacant)
  <2>3. /\ Slab(io'[0]) /\ t \in Tokens /\ conn[t] = NoClient
        /\ io'[0].connections = [conn EXCEPT ![t] = c]
    BY <1>0, <2>1, SlabAccepted DEF conn
  <2> HIDE DEF t
  <2>4. OwnedBy([conn EXCEPT ![t] = c], log, k)
    BY <1>0, <1>c, <1>l, <1>n, <2>1, <2>2, <2>3, OwnedAccept
  <2> QED
    BY <2>1, <2>3, <2>4 DEF Owned, k
<1>3. ASSUME NEW t \in Tokens, ReceiveRequest(0, t) PROVE Owned'
  <2>1. PICK req \in Kinds \cap Requests, n \in Names : log' = Append(log, CommandFrom(0, t, req, n))
    BY <1>3 DEF ReceiveRequest
  <2> DEFINE c == CommandFrom(0, t, req, n)
  <2>2. c \in Command /\ c.client = t /\ c.from = conn[t]
    BY <1>w, CommandFromType DEF CommandFrom, conn
  <2>3. conn[t] # NoClient /\ io' = io
    BY <1>3 DEF ReceiveRequest, Connected, conn
  <2> HIDE DEF c
  <2>4. Len(log') = k + 1 /\ log'[k + 1] = c /\ \A i \in 1 .. k : log'[i] = log[i]
    BY <1>0, <2>1, <2>2, AppendType DEF k, c
  <2>5. OwnedBy(conn, log', k + 1)
    BY <1>0, <2>2, <2>3, <2>4, OwnedRequest
  <2> QED
    BY <1>0, <2>3, <2>4, <2>5 DEF Owned, conn
<1>4. ASSUME NEW t \in Tokens, CloseConnection(0, t) PROVE Owned'
  <2> DEFINE c == DisconnectFrom(0, t)
  <2>1. log' = Append(log, c) /\ io'[0] = Removed(io[0], t) /\ Connected(io[0], t)
    BY <1>0, <1>4, <1>w DEF CloseConnection
  <2>2. c \in Command /\ c.client = t /\ c.from = conn[t] /\ c.req = "Disconnect"
    BY <1>w, DisconnectFromType DEF DisconnectFrom, CommandFrom, conn
  <2>3. conn[t] # NoClient
    BY <2>1 DEF Connected, conn
  <2> HIDE DEF c
  <2>4. Len(log') = k + 1 /\ log'[k + 1] = c /\ \A i \in 1 .. k : log'[i] = log[i]
    BY <1>0, <2>1, <2>2, AppendType DEF k
  <2>5. Slab(io'[0]) /\ io'[0].connections = [conn EXCEPT ![t] = NoClient]
    BY <1>0, <2>1, SlabRemoved DEF conn
  <2>6. OwnedBy([conn EXCEPT ![t] = NoClient], log', k + 1)
    BY <1>0, <1>c, <1>l, <2>2, <2>3, <2>4, OwnedClose
  <2> QED
    BY <2>4, <2>5, <2>6 DEF Owned
<1>5. ASSUME ForwardOutputs(0) PROVE Owned'
  <2>1. PICK gone \in GoneOrders(io[0], server[0].interests) :
               log' = log \o [i \in DOMAIN gone |-> DisconnectFrom(0, gone[i][2])]
    BY <1>5 DEF ForwardOutputs
  <2>2. PICK g \in Nat : DOMAIN gone = 1 .. g /\ \A i \in 1 .. g : gone[i][2] \in Tokens
    BY <1>0, GoneOrdersType, ServerAssumption
  <2>3. \A i \in 1 .. g : conn[gone[i][2]] = NoClient
    <3>1. \A i \in DOMAIN gone : ~ Connected(io[0], gone[i][2])
      BY DEF GoneOrders
    <3> QED
      BY <2>2, <3>1 DEF Connected, conn
  <2> DEFINE d == [i \in 1 .. g |-> DisconnectFrom(0, gone[i][2])]
  <2>4. \A i \in 1 .. g : /\ d[i] \in Command /\ d[i].req = "Disconnect"
                          /\ d[i].client = gone[i][2] /\ d[i].from = NoClient
    BY <1>w, <2>2, <2>3, DisconnectFromType DEF DisconnectFrom, CommandFrom, conn
  <2>5. d \in [1 .. g -> Command] /\ log' = log \o d
    BY <2>1, <2>2, <2>4
  <2> HIDE DEF d
  <2>6. /\ Len(log') = k + g /\ \A i \in 1 .. k : log'[i] = log[i]
        /\ \A i \in k + 1 .. k + g : log'[i] = d[i - k]
    BY <1>0, <2>5, ConcatType DEF k
  <2>7. \A i \in k + 1 .. k + g : i - k \in 1 .. g
    BY <1>0
  <2>8. OwnedBy(conn, log', k + g)
    <3>1. \A i \in k + 1 .. k + g : conn[log'[i].client] = NoClient
                                    /\ log'[i].from = NoClient /\ log'[i].req = "Disconnect"
      BY <2>3, <2>4, <2>6, <2>7
    <3>2. k + g \in Nat /\ k <= k + g
      BY <1>0
    <3> QED
      BY <1>0, <2>6, <3>1, <3>2, OwnedGone
  <2>9. io'[0].connections = conn /\ io'[0].vacant = io[0].vacant
    BY <1>0, <1>5, <1>w, OutputsKeepSlab DEF ForwardOutputs, conn
  <2> QED
    BY <1>0, <2>6, <2>8, <2>9, SlabKept DEF Owned, conn
<1>6. ASSUME NEW out, io' = [io EXCEPT ![0] = Sent(@, out)], log' = log PROVE Owned'
  BY <1>0, <1>1, <1>6, <1>w, OutputsKeepSlab DEF conn
<1>7. ASSUME HandleCommand(0) PROVE Owned'
  <2>1. log' = log /\ (io' = io \/ \E kind : Reply(0, kind))
    BY <1>7, Zenon DEF HandleCommand, HandleRegister, HandleCreateAttribute, HandleInterest,
       HandleSubscribe, HandleUninterest, HandleDisconnect, HandleStatus, HandleShutdown, Handling
  <2> QED
    BY <2>1, <1>1, <1>6 DEF Reply, conn
<1>8. ASSUME NEW t \in Tokens, ReceiveMalformed(0, t) PROVE Owned'
  BY <1>6, <1>8 DEF ReceiveMalformed, Malformed
<1>9. ASSUME ResultsRecv(0) PROVE Owned'
  BY <1>6, <1>9 DEF ResultsRecv
<1>10. CASE UNCHANGED <<io, log>>
  BY <1>10, <1>1 DEF conn
<1>11. CASE Next
  <2>1. \/ ClientStep(0) \/ ForwardOutputs(0) \/ HandleCommand(0) \/ LeaveLoop(0)
        \/ ProduceResults(0) \/ ResultsRecv(0)
    BY <1>11, <1>w DEF Next
  <2>2. CASE ClientStep(0)
    BY <2>2, <1>2, <1>3, <1>4, <1>8 DEF ClientStep
  <2> QED
    BY <2>1, <2>2, <1>5, <1>7, <1>9, <1>10 DEF LeaveLoop, ProduceResults
<1> QED
  BY <1>10, <1>11 DEF vars

\* Of the first h commands, the last one of client c that concerns n asks for it.
LastWord(cmds, h, c, n) ==
  \E i \in 1 .. h : /\ cmds[i].from = c /\ Concerns(cmds[i], n) /\ cmds[i].req \in Asks
                    /\ \A j \in 1 .. h : cmds[j].from = c /\ Concerns(cmds[j], n) => j <= i

\* Clients send what is no Disconnect, and none for t is on its way.
FromClients(cmds, k) ==
  \A i \in 1 .. k : cmds[i].req # "Disconnect" => cmds[i].from \in Clients
Staying(cmds, h, k, t) ==
  ~ \E j \in h + 1 .. k : cmds[j].req = "Disconnect" /\ cmds[j].client = t

\* A client that is connected, and whose own last word on n asks for it, has
\* a token whose last mention asks for n.
LEMMA WantsLastAsks ==
  ASSUME NEW k \in Nat, NEW h \in 0 .. k, NEW conn, NEW cmds, OwnedBy(conn, cmds, k),
         NEW t \in Tokens, conn[t] # NoClient, NEW n, LastWord(cmds, h, conn[t], n)
  PROVE  LastAsks(cmds, h, t, n)
<1>0. PICK i \in 1 .. h :
        /\ cmds[i].from = conn[t] /\ Concerns(cmds[i], n) /\ cmds[i].req \in Asks
        /\ \A j \in 1 .. h : cmds[j].from = conn[t] /\ Concerns(cmds[j], n) => j <= i
  BY DEF LastWord
<1>1. i \in 1 .. k
  OBVIOUS
<1>2. cmds[i].client = t
  BY <1>0, <1>1 DEF OwnedBy, Carried
<1>3. ASSUME NEW j \in 1 .. h, Mentions(cmds[j], t, n) PROVE j <= i
  <2> SUFFICES ASSUME i < j PROVE FALSE
    OBVIOUS
  <2>1. cmds[j].from = conn[t]
    <3>1. j \in 1 .. k /\ cmds[j].client = t
      BY <1>3 DEF Mentions
    <3>2. Exclusive(conn, cmds, k)
      BY DEF OwnedBy
    <3> QED
      BY <1>0, <1>1, <3>1, <3>2 DEF Exclusive
  <2>2. Concerns(cmds[j], n)
    BY <1>3 DEF Mentions
  <2>3. j <= i
    BY <1>0, <2>1, <2>2
  <2> QED
    BY <2>3
<1> QED
  BY <1>0, <1>2, <1>3 DEF LastAsks, Mentions

\* Conversely a token whose last mention asks for n is that of a connected
\* client that wants n, or a Disconnect for it is yet to be handled.
LEMMA LastAsksWants ==
  ASSUME NEW k \in Nat, NEW h \in 0 .. k, NEW conn, NEW cmds, OwnedBy(conn, cmds, k),
         NEW t \in Tokens, NEW n, LastAsks(cmds, h, t, n),
         FromClients(cmds, k), NoClient \notin Clients, Staying(cmds, h, k, t)
  PROVE  conn[t] # NoClient /\ LastWord(cmds, h, conn[t], n)
<1>1. PICK i \in 1 .. h : /\ Mentions(cmds[i], t, n) /\ cmds[i].req \in Asks
                          /\ \A j \in 1 .. h : Mentions(cmds[j], t, n) => j <= i
  BY DEF LastAsks
<1>2. i \in 1 .. k /\ cmds[i].client = t /\ Concerns(cmds[i], n) /\ cmds[i].req # "Disconnect"
  BY <1>1 DEF Mentions, Asks
<1>3. ~ Closed(cmds, k, i)
  <2> SUFFICES ASSUME NEW j \in 1 .. k, i < j, cmds[j].req = "Disconnect", cmds[j].client = t
               PROVE  FALSE
    BY <1>2 DEF Closed
  <2>1. j \in 1 .. h
    BY DEF Staying
  <2>2. Mentions(cmds[j], t, n)
    BY DEF Mentions, Concerns
  <2>3. j <= i
    BY <1>1, <2>1, <2>2
  <2> QED
    BY <2>3
<1>4. conn[t] = cmds[i].from
  BY <1>2, <1>3 DEF OwnedBy, Followed
<1>5. conn[t] # NoClient
  BY <1>2, <1>4 DEF FromClients
<1>6. ASSUME NEW j \in 1 .. h, cmds[j].from = conn[t], Concerns(cmds[j], n) PROVE j <= i
  <2>1. j \in 1 .. k
    OBVIOUS
  <2>2. cmds[j].client = t
    BY <1>5, <1>6, <2>1 DEF OwnedBy, Carried
  <2> QED
    BY <1>1, <1>6, <2>2 DEF Mentions
<1> QED
  BY <1>1, <1>2, <1>4, <1>5, <1>6 DEF LastWord

\* A server with one worker records the interests its connected clients asked
\* for and no others: none is lost when tokens are handed out again, and what
\* is left of a client that has gone is removed by a Disconnect on its way
\* (networking.rs pushes it before the slab can reuse the token).
THEOREM OneWorkerInterests ==
  ASSUME MaxWorkers = 1
  PROVE  Spec => []InterestsFollowClients
<1>1. ASSUME TypeInv, Recorded, Owned PROVE InterestsFollowClients
  <2> DEFINE conn == io[0].connections
             k == Len(log)
             h == handled[0]
  <2>w. Workers = {0}
    BY DEF Workers
  <2>0. /\ log \in Seq(Command) /\ k \in Nat /\ h \in 0 .. k /\ DOMAIN log = 1 .. k
        /\ server[0] \in ServerState /\ OwnedBy(conn, log, k)
    BY <1>1, <2>w DEF TypeInv, TypeOK, Owned
  <2>1. FromClients(log, k)
    BY <1>1, <2>0 DEF TypeInv, Senders, FromClients
  <2>2. \A t \in Tokens, n \in Names :
          /\ t \in server[0].interests[n] => LastAsks(log, h, t, n)
          /\ Up(0) /\ LastAsks(log, h, t, n) => t \in server[0].interests[n]
    BY <1>1, <2>w DEF Recorded
  <2>t. \A n \in Names : server[0].interests[n] \subseteq Tokens
    BY <2>0 DEF ServerState
  <2>3. \A t \in Tokens, n \in Names :
          Wants(0, conn[t], n) <=> LastWord(log, h, conn[t], n)
    BY Zenon DEF Wants, LastWord, Asks
  <2>c. \A t : Connected(io[0], t) <=> conn[t] # NoClient
    BY DEF Connected
  <2> HIDE DEF conn, k, h
  <2>4. ASSUME NEW t \in Tokens, NEW n \in Names, Up(0), conn[t] # NoClient, Wants(0, conn[t], n)
        PROVE  t \in server[0].interests[n]
    <3>0. LastWord(log, h, conn[t], n)
      BY <2>3, <2>4
    <3>1. LastAsks(log, h, t, n)
      BY <2>0, <2>4, <3>0, WantsLastAsks
    <3> QED
      BY <2>2, <2>4, <3>1
  <2>5. ASSUME NEW n \in Names, NEW t \in server[0].interests[n],
               ~ \E j \in h + 1 .. k : log[j].req = "Disconnect" /\ log[j].client = t
        PROVE  conn[t] # NoClient /\ Wants(0, conn[t], n)
    <3>1. t \in Tokens /\ LastAsks(log, h, t, n)
      BY <2>t, <2>2
    <3>2. k \in Nat /\ h \in 0 .. k /\ OwnedBy(conn, log, k) /\ NoClient \notin Clients
      BY <2>0, ServerAssumption
    <3>3. Staying(log, h, k, t)
      BY <2>5, Zenon DEF Staying
    <3>4. conn[t] # NoClient /\ LastWord(log, h, conn[t], n)
      BY <2>1, <3>1, <3>2, <3>3, LastAsksWants
    <3> QED
      BY <2>3, <3>1, <3>4
  <2>6. InterestKept
    BY <2>4, <2>c, <2>w DEF InterestKept, conn
  <2>7. TokensAccountedFor
    BY <2>5, <2>c, <2>w DEF TokensAccountedFor, conn, k, h
  <2> QED
    BY <2>6, <2>7 DEF InterestsFollowClients
<1>2. TypeInv /\ Recorded /\ Owned /\ [Next]_vars => (TypeInv /\ Recorded /\ Owned)'
  BY TypeStep, RecordedStep, OwnedStep
<1>3. Init => TypeInv /\ Recorded /\ Owned
  BY TypeInit, RecordedInit, OwnedInit
<1> QED
  BY <1>1, <1>2, <1>3, PTL DEF Spec
=============================================================================
