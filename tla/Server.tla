-------------------------------- MODULE Server --------------------------------
(***************************************************************************)
(* The part of a worker's server state (server/mod.rs) that concerns       *)
(* queries: registered rules, interests and dataflows.  Each request is an *)
(* operator returning the state afterwards; `id` is the position of the    *)
(* command in the sequence and names the dataflow it sets up.              *)
(***************************************************************************)
EXTENDS Networking

Dataflow == [id : Nat, name : Names, owner : Nat]

ServerState ==
  [rules : SUBSET Names,                 \* internal.rules
   attributes : SUBSET Names,            \* attributes with a propose trace
   interests : [Names -> SUBSET Tokens], \* {} stands for a missing entry
   shutdown_handles : [Names -> Nat],    \* the dataflow a handle closes, or 0
   built : Seq(Dataflow),                \* dataflows constructed, in order
   live : SUBSET Nat]                    \* those whose imports are not closed

NewServer ==
  [rules |-> {}, attributes |-> {}, interests |-> [n \in Names |-> {}],
   shutdown_handles |-> [n \in Names |-> 0], built |-> <<>>, live |-> {}]

Register(s, n) == [s EXCEPT !.rules = @ \cup {n}]

CreateAttribute(s, n) == [s EXCEPT !.attributes = @ \cup {n}]

AddInterest(s, n, t) == [s EXCEPT !.interests[n] = @ \cup {t}]

\* shutdown_query: dropping the handle closes the dataflow's imports.
ShutdownQuery(s, n) ==
  [s EXCEPT !.live = @ \ {s.shutdown_handles[n]}, !.shutdown_handles[n] = 0]

Build(s, df) == [s EXCEPT !.built = Append(@, df), !.live = @ \cup {df.id}]

\* Server::interest fails unless the name denotes a rule it can implement.
Implementable(s, n) == n \in s.rules

\* Faulty variant: every interest sets up a dataflow.
InterestAlways(s, n, t, id, owner) ==
  LET t1 == AddInterest(s, n, t)
  IN IF Implementable(s, n)
     THEN [Build(t1, [id |-> id, name |-> n, owner |-> owner])
             EXCEPT !.shutdown_handles[n] = id]
     ELSE t1

\* An Interest request: the token is recorded before the query is
\* implemented, and stays when that fails.
Interest(s, n, t, id, owner) ==
  LET t1 == AddInterest(s, n, t)
  IN IF s.interests[n] = {} /\ Implementable(s, n)
     THEN [Build(ShutdownQuery(t1, n), [id |-> id, name |-> n, owner |-> owner])
             EXCEPT !.shutdown_handles[n] = id]
     ELSE t1

InterestFails(s, n) == s.interests[n] = {} /\ ~ Implementable(s, n)

\* A Subscribe request streams a whole attribute.  Its shutdown button is
\* forgotten, so nothing ever closes the dataflow.
Subscribe(s, n, t, id, owner) ==
  LET t1 == AddInterest(s, n, t)
  IN IF Cardinality(t1.interests[n]) > 1 THEN t1
     ELSE Build(t1, [id |-> id, name |-> n, owner |-> owner])

\* `unwrap` on the attribute's propose trace.
SubscribePanics(s, n, t) ==
  Cardinality(s.interests[n] \cup {t}) = 1 /\ n \notin s.attributes

\* Faulty variant: dataflows are not shut down with their last interest.
UninterestLeaky(s, ns, t) ==
  [s EXCEPT !.interests = [n \in Names |-> IF n \in ns THEN @[n] \ {t} ELSE @[n]]]

\* Faulty variant: the entry goes away with the first client that leaves.
UninterestEntry(s, ns, t) ==
  [s EXCEPT !.interests = [n \in Names |-> IF n \in ns THEN {} ELSE @[n]],
            !.live = @ \ {s.shutdown_handles[n] : n \in ns},
            !.shutdown_handles = [n \in Names |-> IF n \in ns THEN 0 ELSE @[n]]]

\* Server::uninterest for each of the names: an entry that becomes empty is
\* removed, and its dataflow shut down.
UninterestIn(s, ns, t) ==
  LET unused == {n \in ns : s.interests[n] # {} /\ s.interests[n] \subseteq {t}}
  IN [s EXCEPT
        !.interests = [n \in Names |-> IF n \in ns THEN @[n] \ {t} ELSE @[n]],
        !.live = @ \ {s.shutdown_handles[n] : n \in unused},
        !.shutdown_handles = [n \in Names |-> IF n \in unused THEN 0 ELSE @[n]]]

Uninterest(s, n, t) == UninterestIn(s, {n}, t)

\* Faulty variant: a client that went away is taken for one without interests.
DisconnectClientNot(s, t) == s

DisconnectClient(s, t) == UninterestIn(s, Names, t)
=============================================================================
