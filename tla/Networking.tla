------------------------------ MODULE Networking ------------------------------
(***************************************************************************)
(* The I/O state of one worker (server/src/networking.rs): a slab of       *)
(* client connections, whose indices serve as client tokens, and the       *)
(* internal channel on which dataflows and command handlers leave outputs. *)
(* Each branch of IO::step is an operator on that state.                   *)
(***************************************************************************)
EXTENDS Naturals, Sequences, FiniteSets

CONSTANTS
  Clients,     \* connections made in a behaviour, each by a client of its own
  NoClient,    \* a vacant slab entry
  Names,       \* names of rules and attributes
  MaxTokens    \* bound: connections open at a time

Tokens == 0 .. MaxTokens - 1

\* Results of a query go to whoever is interested in its name; messages and
\* errors go to one token.  `to` records the client the reply is meant for.
Output == [kind : {"QueryDiff"}, name : Names]
          \cup [kind : {"Message", "Error"}, token : Tokens, to : Clients]

IO == [connections : [Tokens -> Clients \cup {NoClient}],
       vacant : Seq(Tokens), channel : Seq(Output)]

NewIO == [connections |-> [t \in Tokens |-> NoClient],
          vacant |-> [i \in 1 .. MaxTokens |-> i - 1], channel |-> <<>>]

Connected(io, t) == io.connections[t] # NoClient

\* The SERVER event.  A slab hands out the entry vacated last.
VacantToken(io) == Head(io.vacant)

Accepted(io, c) ==
  [io EXCEPT !.connections[VacantToken(io)] = c, !.vacant = Tail(@)]

\* A connection that went inactive leaves the slab.
Removed(io, t) ==
  [io EXCEPT !.connections[t] = NoClient, !.vacant = <<t>> \o @]

\* io.send.send(out)
Sent(io, out) == [io EXCEPT !.channel = Append(@, out)]

\* A text frame that does not parse is answered with an error.
Malformed(io, t) ==
  Sent(io, [kind |-> "Error", token |-> t, to |-> io.connections[t]])

\* The RESULTS event drains the channel: every output goes to its tokens...
Recipients(out, interests) ==
  IF out.kind = "QueryDiff" THEN interests[out.name] ELSE {out.token}

Deliveries(io, interests) ==
  UNION {{<<io.connections[t], io.channel[i]>> :
            t \in {u \in Recipients(io.channel[i], interests) : Connected(io, u)}} :
         i \in DOMAIN io.channel}

\* ...and one without a connection is reported as a client that went away:
\* output by output, in an order that a hash set leaves open.
GoneOrders(io, interests) ==
  LET gone == {p \in (DOMAIN io.channel) \X Tokens :
                 p[2] \in Recipients(io.channel[p[1]], interests) /\ ~ Connected(io, p[2])}
  IN {s \in [1 .. Cardinality(gone) -> gone] :
        \A j, k \in DOMAIN s : j < k => s[j] # s[k] /\ s[j][1] <= s[k][1]}

Drained(io) == [io EXCEPT !.channel = <<>>]
=============================================================================
