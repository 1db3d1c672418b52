------------------------------ MODULE Extender ------------------------------
(***************************************************************************)
(* The operators of CollectionExtender in plan/hector.rs: count, propose   *)
(* and validate have one structure.  Prefixes arrive as requests on the    *)
(* first input, each at a time, under the capability of the message it     *)
(* came in.  They are stashed until the second input, the stream of the    *)
(* index, shows that the index is complete for their times, and are then   *)
(* answered from the trace of the index.  The trace is shared with the     *)
(* domain; it is compacted up to what both of them allow.                  *)
(*                                                                         *)
(* Requests are told apart by their times, updates of the index as well.   *)
(* An answer is the set of updates it is computed from.                    *)
(***************************************************************************)
EXTENDS Integers, Sequences

CONSTANTS
  MaxRequestTime,  \* bound on the times of requests and updates
  NeuIndex,        \* the index is entered at the neu half of its times
  MaxDomainSince   \* bound on what the domain allows; 0 without a trace slack

Times == 0 .. MaxRequestTime
Closed == MaxRequestTime + 1 \* the empty frontier

VARIABLES
  upstream,     \* what is promised of the first input
  requests,     \* requests on their way
  stash,        \* requests held by the operator
  index,        \* for every update of the index, the time it is kept at
  sealed,       \* the index is complete before this time
  known,        \* the frontier of the second input, as known to the operator
  domainSince,  \* what the domain allows to be compacted
  opSince,      \* what the operator allows to be compacted
  holding,      \* the operator holds the trace
  answers       \* for every time, the answers given

extenderVars ==
  <<upstream, requests, stash, index, sealed, known, domainSince, opSince, holding, answers>>

ExtenderInit ==
  /\ upstream = 0 /\ sealed = 0 /\ known = 0 /\ domainSince = 0 /\ opSince = 0
  /\ requests = {} /\ stash = {}
  /\ index = [t \in {} |-> t]
  /\ holding = TRUE
  /\ answers = [t \in Times |-> <<>>]

Requested == {r.time : r \in requests \cup stash} \cup {t \in Times : answers[t] # <<>>}
-----------------------------------------------------------------------------
(* The surroundings *)

\* A request is sent with a capability that may be earlier than its time.
Send(r) ==
  /\ upstream <= r.cap /\ r.cap <= r.time /\ r.time \notin Requested
  /\ requests' = requests \cup {r}
  /\ UNCHANGED <<upstream, stash, index, sealed, known, domainSince, opSince, holding, answers>>

Promise ==
  /\ upstream < Closed
  /\ upstream' = upstream + 1
  /\ UNCHANGED <<requests, stash, index, sealed, known, domainSince, opSince, holding, answers>>

\* The next batch of the index, with or without an update.
Seal(change) ==
  /\ sealed < Closed
  /\ index' = IF change THEN [t \in DOMAIN index \cup {sealed} |-> IF t = sealed THEN t ELSE index[t]]
                        ELSE index
  /\ sealed' = sealed + 1
  /\ UNCHANGED <<upstream, requests, stash, known, domainSince, opSince, holding, answers>>

\* advance_traces
AdvanceDomain ==
  /\ domainSince < MaxDomainSince
  /\ domainSince' = domainSince + 1
  /\ UNCHANGED <<upstream, requests, stash, index, sealed, known, opSince, holding, answers>>

\* What the holders of the trace allow to be compacted.
Since == IF holding /\ opSince < domainSince THEN opSince ELSE domainSince

\* Batches of the trace are merged.
MergeBatches ==
  /\ index' = [t \in DOMAIN index |-> IF index[t] < Since THEN Since ELSE index[t]]
  /\ UNCHANGED <<upstream, requests, stash, sealed, known, domainSince, opSince, holding, answers>>
-----------------------------------------------------------------------------
(* The operator *)

Visible(s, t) == IF NeuIndex THEN s < t ELSE s <= t

\* What is read from the trace for time t.
Read(t) == {s \in DOMAIN index : Visible(index[s], t)}

\* Faulty variant: trusts the capability.
CompleteAtCapability(r, frontier) == frontier > r.cap

\* Faulty variant: waits for the index to be past the time after.
CompleteLater(r, frontier) == frontier > r.cap /\ frontier > r.time + 1

\* Requests are answered once the index is complete at their own time.
Complete(r, frontier) == frontier > r.cap /\ frontier > r.time

\* Faulty variant: answered requests stay.
RemainingAll(held, ready) == held

\* Faulty variant: what is not ready is forgotten.
RemainingNone(held, ready) == {}

Remaining(held, ready) == held \ ready

\* The trace is dropped when no request is left and none can come.
StillHolding(frontier, left) == frontier # Closed \/ left # {}

\* One run of the operator: some requests have arrived, and news of the index
\* up to `frontier`.  The frontier of the first input, in1, is the least that
\* may still come.
Activate(arrived, frontier) ==
  LET held == stash \cup arrived
      ready == {r \in held : holding /\ Complete(r, frontier)}
      left == Remaining(held, ready)
  IN \E in1 \in {upstream} \cup {r.cap : r \in requests \ arrived} :
       /\ in1 <= upstream /\ \A r \in requests \ arrived : in1 <= r.cap
       /\ requests' = requests \ arrived
       /\ stash' = left
       /\ answers' = [t \in Times |-> IF \E r \in ready : r.time = t THEN Append(answers[t], Read(t))
                                                                     ELSE answers[t]]
       /\ opSince' = IF holding THEN in1 ELSE opSince
       /\ known' = frontier
       /\ holding' = (holding /\ StillHolding(in1, left))
       /\ UNCHANGED <<upstream, index, sealed, domainSince>>

SealNext == \E change \in BOOLEAN : Seal(change)

ExtenderNext ==
  \/ \E t, c \in Times : Send([time |-> t, cap |-> c])
  \/ Promise
  \/ SealNext
  \/ AdvanceDomain
  \/ MergeBatches
  \/ \E arrived \in SUBSET requests, frontier \in known .. sealed : Activate(arrived, frontier)

ExtenderSpec == ExtenderInit /\ [][ExtenderNext]_extenderVars
-----------------------------------------------------------------------------
\* A prefix is extended by what the index held at the time of the prefix, no
\* matter how long it was stashed and what was merged in the meantime (count,
\* propose and validate of CollectionExtender), as long as the holders of the
\* trace have not given up that time.
AnswersAsOf ==
  \A t \in Times : Visible(Since, t) =>
    \A i \in DOMAIN answers[t] : answers[t][i] = {s \in DOMAIN index : Visible(s, t)}

\* No prefix is extended twice (a diff that was given is set to zero).
AnsweredOnce == \A t \in Times : Len(answers[t]) <= 1

\* Each prefix is extended at most once, by what the index held at its time.
AnsweredOnceAsOf == AnsweredOnce /\ AnswersAsOf

\* Every prefix is extended eventually, even if the first input has ended: none
\* is dropped, and again and again none is left waiting.
EveryRequestAnswered ==
  /\ [][Requested \subseteq Requested']_extenderVars
  /\ []<>(\A t \in Requested : answers[t] # <<>>)
=============================================================================
