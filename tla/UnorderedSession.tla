--------------------------- MODULE UnorderedSession ---------------------------
(***************************************************************************)
(* The input session of a transactable attribute                           *)
(* (domain/unordered_session.rs): it batches updates and ships them to the *)
(* dataflow under a single capability.  A session is a record; each        *)
(* operation is an operator that returns the session afterwards, and       *)
(* Shipped... the messages the operation gives to the timely input.        *)
(* An update is [id, time]; the payload and the weight do not matter here. *)
(***************************************************************************)
EXTENDS TimeLattice, Naturals, FiniteSets

CONSTANT BufferCapacity   \* what Vec::reserve(1024) provides

Update == [id : Nat, time : T]
Message == [id : Nat, time : T, cap : T]
Session == [time : T, cap : T, buffer : SUBSET Update]

\* UnorderedSession::from, over a fresh input: its capability is at the minimum.
NewSession == [time |-> Minimum, cap |-> Minimum, buffer |-> {}]

\* What `handle.session(cap).give_iterator(buffer.drain(..))` sends.
Drained(s) == {[id |-> u.id, time |-> u.time, cap |-> s.cap] : u \in s.buffer}

IsFull(s) == Cardinality(s.buffer) = BufferCapacity

\* The push shared by `update` and `update_at`: a full buffer is shipped first.
Pushed(s, u) ==
  [s EXCEPT !.buffer = IF IsFull(s) THEN {u} ELSE s.buffer \cup {u}]

\* Faulty variant: a full buffer is cleared without being sent.
ShippedByPushLost(s) == {}

ShippedByPush(s) == IF IsFull(s) THEN Drained(s) ELSE {}

\* The time of an update without one is that of the *capability*.
UpdateTime(s) == s.cap

\* assert!(self.cap.time().less_equal(&time)) of `update_at`.
MayUpdateAt(s, t) == LessEqual(s.cap, t)

\* `flush`: the buffer leaves under the old capability, then the capability
\* is delayed to the session time.
Flushed(s) ==
  [s EXCEPT !.buffer = {},
            !.cap = IF LessThan(s.cap, s.time) THEN s.time ELSE s.cap]

\* Faulty variant: the capability is delayed before the buffer leaves.
ShippedByFlushDelayed(s) == Drained([s EXCEPT !.cap = s.time])

ShippedByFlush(s) == Drained(s)

\* The assertions of `advance_to`.
MayAdvanceTo(s, t) == LessEqual(s.time, t)

AdvancedTo(s, t) == [s EXCEPT !.time = t]
=============================================================================
