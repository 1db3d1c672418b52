------------------------------ MODULE LatestValue ------------------------------
(***************************************************************************)
(* What an attribute with LastWriteWins semantics promises its readers:    *)
(* as of any completed time every entity has the value written to it last, *)
(* or none if it was never written or has been retracted since.  Answers   *)
(* are published up to a frontier and never change.                        *)
(***************************************************************************)
EXTENDS Integers

CONSTANTS Eids, Vals, MaxTime, None

VARIABLES
  updates,  \* for every [e, v, t] what assertions and retractions add up to
  done,     \* answers as of times before this one are final
  answer    \* the answers, None where there is none or none yet

Times == 0 .. MaxTime
Update == [e : Eids, v : Vals, t : Times]

Init ==
  /\ updates = [u \in Update |-> 0] /\ done = 0
  /\ answer = [e \in Eids |-> [t \in Times |-> None]]

Send(u, diff) ==
  /\ u.t >= done
  /\ updates' = [updates EXCEPT ![u] = @ + diff]
  /\ UNCHANGED <<done, answer>>

Written(e, t) == {v \in Vals : updates[[e |-> e, v |-> v, t |-> t]] > 0}
Retracted(e, t) == \E v \in Vals : updates[[e |-> e, v |-> v, t |-> t]] < 0

\* Of several updates at one time any may come last.
Outcomes(e, t, before) ==
  IF Retracted(e, t) THEN Written(e, t) \cup {None}
  ELSE IF Written(e, t) # {} THEN Written(e, t)
  ELSE {before}

Publish(next) ==
  /\ done < next /\ next <= MaxTime + 1
  /\ done' = next /\ UNCHANGED updates
  /\ answer' \in [Eids -> [Times -> Vals \cup {None}]]
  /\ \A e \in Eids, t \in Times :
       IF t < done \/ t >= next THEN answer'[e][t] = answer[e][t]
       ELSE answer'[e][t] \in Outcomes(e, t, IF t = 0 THEN None ELSE answer'[e][t - 1])

Next ==
  \/ \E u \in Update, diff \in {1, -1} : Send(u, diff)
  \/ \E next \in 1 .. MaxTime + 1 : Publish(next)

Spec == Init /\ [][Next]_<<updates, done, answer>>
=============================================================================
