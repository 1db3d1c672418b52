------------------------------ MODULE Relations ------------------------------
(* The relations that plans are implemented by (src/src/lib.rs): a         *)
(* collection of tuples with the variables its columns bind, or a binding  *)
(* of an attribute whose index is only imported when it is used.  `db`     *)
(* maps every attribute to the collection of its <<e, v>> pairs, which is  *)
(* what the forward propose index holds.                                   *)
EXTENDS Collections

CollectionRelation(variables, tuples) ==
  [kind |-> "Collection", variables |-> variables, tuples |-> tuples]

AttributeRelation(e, a, v) == [kind |-> "Attribute", variables |-> <<e, v>>, attribute |-> a]

\* The code panics while the relation is built or used.
Panicked == [kind |-> "Panic"]

\* Index of the column binding x.
Binds(variables, x) == CHOOSE i \in DOMAIN variables :
  variables[i] = x /\ \A j \in 1 .. i - 1 : variables[j] # x

IsBound(variables, x) == x \in ToSet(variables)

\* The columns of a tuple, or of any sequence, at the given offsets.
Columns(tuple, offsets) == [i \in DOMAIN offsets |-> tuple[offsets[i]]]
-----------------------------------------------------------------------------
(* Projection *)

AttributeShapes(r) ==
  LET e == r.variables[1] v == r.variables[2] IN {<<e, v>>, <<v, e>>, <<e>>, <<v>>}

\* An attribute projects to its columns in either order or to one of them.
\* A collection fails on its first tuple if it does not bind a variable.
CanProject(db, r, xs) ==
  \/ r.kind = "Attribute" /\ r.attribute \in DOMAIN db /\ xs \in AttributeShapes(r)
  \/ r.kind = "Collection" /\ (r.tuples = NoRecords \/ ToSet(xs) \subseteq ToSet(r.variables))

Stored(db, r) == IF r.kind = "Attribute" THEN db[r.attribute] ELSE r.tuples

Projected(db, r, xs) ==
  MapRecords(Stored(db, r), LAMBDA t : Columns(t, [i \in DOMAIN xs |-> Binds(r.variables, xs[i])]))

Tuples(db, r) == IF r.kind = "Attribute" THEN Projected(db, r, r.variables) ELSE r.tuples
-----------------------------------------------------------------------------
(* Tuples split into a key and the rest *)

CanSplit(db, r, xs) ==
  \/ r.kind = "Attribute" /\ r.attribute \in DOMAIN db /\ xs \in AttributeShapes(r)
  \/ /\ r.kind = "Collection"
     /\ ToSet(xs) \subseteq ToSet(r.variables) /\ Len(xs) <= Len(r.variables)

\* Faulty variant: the key keeps the order of the relation.
TuplesByVariablesUnordered(db, r, xs) ==
  LET keys == SelectSeq(r.variables, LAMBDA x : IsBound(xs, x))
      ValueOffsets == SelectSeq([i \in DOMAIN r.variables |-> i],
                                LAMBDA i : ~ IsBound(xs, r.variables[i]))
  IN MapRecords(Stored(db, r),
       LAMBDA t : <<Columns(t, [i \in DOMAIN keys |-> Binds(r.variables, keys[i])]),
                    Columns(t, ValueOffsets)>>)

\* Keys in the order they were specified, values in the order they were.
TuplesByVariables(db, r, xs) ==
  LET KeyOffsets == [i \in DOMAIN xs |-> Binds(r.variables, xs[i])]
      ValueOffsets == SelectSeq([i \in DOMAIN r.variables |-> i],
                                LAMBDA i : ~ IsBound(xs, r.variables[i]))
  IN MapRecords(Stored(db, r), LAMBDA t : <<Columns(t, KeyOffsets), Columns(t, ValueOffsets)>>)
=============================================================================
