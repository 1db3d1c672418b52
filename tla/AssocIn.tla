-------------------------------- MODULE AssocIn --------------------------------
(***************************************************************************)
(* The AssocIn sink (sinks/assoc_in.rs) with history: result paths are     *)
(* stashed per capability time and, once a time is complete, merged into a *)
(* nested map of which the changed parts are forwarded, as Output::Json    *)
(* values that do not say which part they are.                             *)
(*                                                                         *)
(* The map is a function from the key paths that exist in it to values or  *)
(* Obj.  Paths are key paths; the value that ends a result path in the     *)
(* code is the field v.                                                    *)
(***************************************************************************)
EXTENDS Integers, Sequences

CONSTANTS
  Keys,          \* names of attributes and entities
  Paths,         \* key paths of the query
  Many,          \* those whose attribute may have several values (Raw, Distinct)
  Leafs, NoLeaf, \* the values that end paths, and their absence
  Obj,           \* Value::Object(_)
  Granularity,   \* the `stateful` option
  MaxPathTime    \* bound on times

\* p is the path n or leads to it.
IsAbove(p, n) == Len(p) <= Len(n) /\ SubSeq(n, 1, Len(p)) = p

\* The paths of a pull name an entity before an attribute, and attributes hold
\* either values or entities: none is a prefix of another.
ASSUME AssocAssumption ==
  /\ Granularity \in Nat \ {0} /\ MaxPathTime \in Nat
  /\ Paths \subseteq Seq(Keys) /\ \A p \in Paths : Len(p) >= 2
  /\ \A p, q \in Paths : IsAbove(p, q) => p = q
  /\ Many \subseteq Paths /\ NoLeaf \notin Leafs /\ Obj \notin Leafs

VARIABLES
  rows,     \* the query's result as of `now`: the values at each path
  now,      \* time of the changes being made
  diffs,    \* changes not sent yet: [path, v, t, diff]
  paths,    \* capability times with the changes stashed under them
  cap,      \* capability under which the next changes are sent
  states,   \* the nested map
  sent      \* the snapshots forwarded by the last step, none if it was no notification

assocVars == <<rows, now, diffs, paths, cap, states, sent>>

Empty == [p \in {} |-> NoLeaf]

AssocInit ==
  /\ rows = [p \in Paths |-> {}] /\ now = 0 /\ diffs = {}
  /\ paths = Empty /\ cap = 0 /\ states = Empty /\ sent = {}
-----------------------------------------------------------------------------
(* The query: the values at a path change, and consolidated changes are    *)
(* sent batch by batch.                                                    *)

Changed(p, vs, diff) == {[path |-> p, v |-> v, t |-> now, diff |-> diff] : v \in vs}

ChangeRow(p, vs) ==
  /\ rows[p] # vs /\ (p \in Many \/ \A v, w \in vs : v = w)
  /\ \A d \in diffs : ~ (d.path = p /\ d.t = now)
  /\ rows' = [rows EXCEPT ![p] = vs]
  /\ diffs' = diffs \cup Changed(p, rows[p] \ vs, -1) \cup Changed(p, vs \ rows[p], 1)
  /\ sent' = {} /\ UNCHANGED <<now, paths, cap, states>>

TimePasses ==
  /\ now < MaxPathTime /\ now' = now + 1
  /\ sent' = {} /\ UNCHANGED <<rows, diffs, paths, cap, states>>

\* All changes so far arrive under the capability of their batch.
Arrive ==
  /\ diffs # {} /\ now < MaxPathTime
  /\ paths' = [c \in DOMAIN paths \cup {cap} |-> IF c = cap THEN diffs ELSE paths[c]]
  /\ diffs' = {} /\ cap' = now + 1 /\ now' = now + 1
  /\ sent' = {} /\ UNCHANGED <<rows, states>>
-----------------------------------------------------------------------------
(* merge_paths *)

\* Faulty variant: sorted by time only, additions may come first.
SortKeyAdditions(d) == 2 * d.t + IF d.diff > 0 THEN 0 ELSE 1

\* The order of the two sorts: by diff and then, stably, by time.
SortKey(d) == 2 * d.t + IF d.diff > 0 THEN 1 ELSE 0

Levels(p) == {SubSeq(p, 1, i) : i \in 1 .. Len(p) - 1}

\* Navigates down, creating levels that do not exist.
WithLevels(acc, ds) ==
  [n \in DOMAIN acc \cup UNION {Levels(d.path) : d \in ds} |-> IF n \in DOMAIN acc THEN acc[n] ELSE Obj]

Reached(acc, p) == \A n \in Levels(p) : acc[n] = Obj

Assoc(acc, ds) ==
  [n \in DOMAIN acc \cup {d.path : d \in ds} |->
     IF \E d \in ds : d.path = n THEN (CHOOSE d \in ds : d.path = n).v ELSE acc[n]]

Dissoc(acc, ds) ==
  [n \in {m \in DOMAIN acc : \A d \in ds : ~ IsAbove(d.path, m)} |-> acc[n]]

\* The order of the additions to one path at one time is that of their arrival,
\* and each overwrites the one before: the changes that matter are the
\* retractions and, for every path and time, the addition that came last.
Additions(ds) == {d \in ds : d.diff > 0}

LastAdded(ds) ==
  {last \in SUBSET Additions(ds) :
     \A d \in Additions(ds) : \E l \in last :
       /\ l.path = d.path /\ l.t = d.t
       /\ \A k \in last : k.path = d.path /\ k.t = d.t => k = l}

Settled(ds, last) == (ds \ Additions(ds)) \cup last

\* The body of the loop, for all paths with one sort key at once: no path is a
\* prefix of another and what is added differs in path, so that their order is
\* of no consequence.  A path without levels is inserted whatever its diff.
MergePaths(acc, ds) ==
  LET map == WithLevels(acc, ds)
      reached == {d \in ds : Reached(map, d.path)}
      inserted == {d \in reached : d.diff > 0 \/ Len(d.path) = 1}
  IN Assoc(Dissoc(map, reached \ inserted), inserted)

Merged(acc, ds) ==
  LET merged[k \in 0 .. 2 * MaxPathTime + 2] ==
        IF k = 0 THEN acc ELSE MergePaths(merged[k - 1], {d \in ds : SortKey(d) = k - 1})
  IN merged[2 * MaxPathTime + 2]

\* The change key of a path: its levels, at most Granularity of them.
ChangeKey(p) ==
  LET levels == IF Len(p) = 1 THEN 1 ELSE Len(p) - 1
  IN SubSeq(p, 1, IF levels < Granularity THEN levels ELSE Granularity)

\* Faulty variant: only additions count as changes.
ChangesAdded(ds) == {ChangeKey(d.path) : d \in Additions(ds)}

Changes(ds) == {ChangeKey(d.path) : d \in ds}

\* The part of the map below a change key, and the snapshot that is sent of it:
\* its keys start below the change key.
Below(map, key) == {n \in DOMAIN map : IsAbove(key, n) /\ n # key}

Snapshot(map, key) ==
  LET Suffix(n) == SubSeq(n, Len(key) + 1, Len(n))
  IN {<<Suffix(n), map[n]>> : n \in Below(map, key)}

\* A capability time is complete: its paths are merged and for every change
\* key the part of the map below it is forwarded.
Notify(c) ==
  /\ c \in DOMAIN paths /\ \A b \in DOMAIN paths : c <= b
  /\ \E last \in LastAdded(paths[c]) : states' = Merged(states, Settled(paths[c], last))
  /\ sent' = {Snapshot(states', key) : key \in Changes(paths[c])}
  /\ paths' = [b \in DOMAIN paths \ {c} |-> paths[b]]
  /\ UNCHANGED <<rows, now, diffs, cap>>

AssocNext ==
  \/ \E p \in Paths, vs \in SUBSET Leafs : ChangeRow(p, vs)
  \/ TimePasses \/ Arrive \/ \E c \in DOMAIN paths : Notify(c)

AssocSpec == AssocInit /\ [][AssocNext]_assocVars
-----------------------------------------------------------------------------
Quiet == diffs = {} /\ paths = Empty

\* The leaf a map has at a path.
Leaf(map, p) == IF p \in DOMAIN map THEN map[p] ELSE NoLeaf

\* What the map may show of the values vs of a path: the only one, if the path
\* has at most one, else any of them or none, for the retraction of one value
\* removes whichever is shown.
Shown(p, vs) == IF p \in Many THEN vs \cup {NoLeaf} ELSE IF vs = {} THEN {NoLeaf} ELSE vs

\* Once every change has been merged the map shows the rows of the query and
\* nothing that is not one of them, also when a value was replaced at one time
\* or several times within a batch ("It's important to treat retractions
\* first, otherwise we might dissoc the new value").
MapMatchesRows ==
  Quiet => /\ \A p \in Paths : Leaf(states, p) \in Shown(p, rows[p])
           /\ \A n \in DOMAIN states : n \in Paths \/ states[n] = Obj

\* A leaf does not change without the part of the map around it being
\* forwarded as it is afterwards, at the granularity that was asked for
\* ("changes are reported at the specified granularity").
ChangesReported ==
  [][\A p \in Paths :
       Leaf(states', p) # Leaf(states, p) => Snapshot(states', ChangeKey(p)) \in sent']_assocVars
=============================================================================
