-------------------------------- MODULE Facts --------------------------------
(***************************************************************************)
(* A changing database of attributes with distinct input semantics, as the *)
(* queries over it see it: the complete pairs of every attribute.          *)
(***************************************************************************)
EXTENDS Collections

CONSTANTS Attributes, Values

VARIABLE db

Init == db = [a \in Attributes |-> NoRecords]

Add(a, pair) ==
  /\ Times(db[a], pair) = 0
  /\ db' = [db EXCEPT ![a] = Concat(@, OnceEach({pair}))]

Retract(a, pair) ==
  /\ Times(db[a], pair) = 1
  /\ db' = [db EXCEPT ![a] = Concat(@, Negated(OnceEach({pair})))]

Next == \E a \in Attributes, pair \in Values \X Values : Add(a, pair) \/ Retract(a, pair)

Spec == Init /\ [][Next]_db
=============================================================================
