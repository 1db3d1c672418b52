---------------------------- MODULE MCCommandLoop ----------------------------
(***************************************************************************)
(* CommandLoop over u64 or Duration timestamps, both naturals.  To bound   *)
(* the states, datoms are transacted in the u64 build only, and the clock  *)
(* of the other one stops earlier.                                         *)
(***************************************************************************)
EXTENDS CommandLoop, Timestamp
U64s == 0 .. MaxTime
Slack1 == {1}

BoundedNext == LoopNext /\ (RealTime => tx' = <<>> /\ clock' < MaxTime)
BoundedSpec == LoopInit /\ [][BoundedNext]_loopVars /\ LoopFairness
=============================================================================
