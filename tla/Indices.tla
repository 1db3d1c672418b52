------------------------------ MODULE Indices -------------------------------
(***************************************************************************)
(* The indices of an attribute: up to three for each direction, installed  *)
(* by with_query_support and with_reverse_indices (domain/mod.rs) as the   *)
(* attribute's configuration asks for, and read by the extenders of        *)
(* plan/hector.rs.  `pairs` is what the attribute's <<e, v>> pairs         *)
(* accumulate to at the time of the read.                                  *)
(***************************************************************************)
EXTENDS Collections

\* QuerySupport is ordered: Basic, Delta, AdaptiveWCO.
ForwardIndices(support) ==
  {"propose"} \cup (IF support = "AdaptiveWCO" THEN {"count"} ELSE {})
              \cup (IF support \in {"Delta", "AdaptiveWCO"} THEN {"validate"} ELSE {})

\* Reverse indices exist for the forward indices, if at all.
ReverseIndices(support, direction) ==
  IF direction = "Both" THEN ForwardIndices(support) ELSE {}

HasIndices(support, direction, way) ==
  {"count", "propose", "validate"} \subseteq
    (IF way = "Forward" THEN ForwardIndices(support) ELSE ReverseIndices(support, direction))
-----------------------------------------------------------------------------
(* Reads *)

KeyOf(way, pair) == IF way = "Forward" THEN pair[1] ELSE pair[2]
ValueOf(way, pair) == IF way = "Forward" THEN pair[2] ELSE pair[1]

CountOf(pairs, way, key) ==
  MapThenSumSet(LAMBDA p : pairs[p], {p \in Records(pairs) : KeyOf(way, p) = key})

ProposalsOf(pairs, way, key) ==
  {ValueOf(way, p) : p \in {r \in Records(pairs) : pairs[r] > 0 /\ KeyOf(way, r) = key}}

\* Both validate indices hold the pairs as they are.
Validates(pairs, way, key, value) == Times(pairs, <<key, value>>) > 0
=============================================================================
