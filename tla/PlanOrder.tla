------------------------------ MODULE PlanOrder ------------------------------
(***************************************************************************)
(* plan_order of plan/hector.rs, one round of its loop per step, for every *)
(* query of Queries and every attribute binding of the query that can be   *)
(* the source of a delta pipeline.                                         *)
(***************************************************************************)
EXTENDS Bindings

CONSTANT Queries \* the queries, as sequences of bindings

VARIABLES
  bindings, source,  \* the query and the pipeline's source, fixed
  order,             \* prefix, waiting candidates and ordered bindings
  passes,            \* how often the loop was entered
  done               \* plan_order has returned

vars == <<bindings, source, order, passes, done>>

Init ==
  /\ bindings \in Queries
  /\ source \in {i \in DOMAIN bindings : IsAttribute(bindings[i])}
  /\ order = StartOrder(bindings, source)
  /\ passes = 0
  /\ done = FALSE

\* Faulty variant: the loop only ends when nothing waits.
StepUntilIdle ==
  /\ ~ done
  /\ order' = Round(bindings, source, order)
  /\ done' = (order'.waiting = <<>>)
  /\ passes' = passes + 1
  /\ UNCHANGED <<bindings, source>>

\* A round.  When the loop ends, the bindings left waiting come last.
Step ==
  /\ ~ done
  /\ LET next == Round(bindings, source, order)
     IN /\ done' = Ordered(bindings, next)
        /\ order' = IF done' THEN [next EXCEPT !.ordered = @ \o next.waiting] ELSE next
  /\ passes' = passes + 1
  /\ UNCHANGED <<bindings, source>>

Next == Step

Spec == Init /\ [][Next]_vars
-----------------------------------------------------------------------------
Extends(b, k) == CanExtend(b, SubSeq(order.prefix, 1, k - 1), order.prefix[k])

Targets == 3 .. Len(order.prefix)

\* Bindings that come up with values themselves.
Proposes(b) == b.kind \in {"Attribute", "Constant"}

\* The order found for a connected query has every variable once, and every
\* variable after the source's is bound to a prior one by a binding that can
\* propose values for it (plan_order, whose result Hector extends along).
OrderIsConnected ==
  done => /\ Len(order.prefix) = Cardinality(Variables(bindings))
          /\ ToSet(order.prefix) = Variables(bindings)
          /\ \A k \in Targets :
               \E i \in DOMAIN bindings \ {source} : Proposes(bindings[i]) /\ Extends(bindings[i], k)

\* Where Hector can start from the source at all, it uses every other binding
\* exactly once along the order: as the one constant that restricts the
\* source, or as an extender of one variable.
EveryBindingUsedOnce ==
  done /\ CanSource(bindings, source) =>
          \A i \in DOMAIN bindings \ {source} :
            Cardinality({k \in Targets : Extends(bindings[i], k)})
              = (IF i \in SourceConflicts(bindings, source) THEN 0 ELSE 1)

\* Both: Hector can extend along the order, and does so with every binding.
OrderIsSound == OrderIsConnected /\ EveryBindingUsedOnce

\* A pass over the candidates that is not the last one binds a variable
\* besides the source's two, so plan_order returns.
ReturnsInTime == passes <= Cardinality(Variables(bindings)) - 1
=============================================================================
