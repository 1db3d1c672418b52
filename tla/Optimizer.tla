------------------------------ MODULE Optimizer ------------------------------
(***************************************************************************)
(* With enable_optimizer set, a rule is not implemented as the plan it was *)
(* registered with: implement_neu (lib.rs) turns the plan into bindings    *)
(* (into_bindings) and has Hector provide the plan's variables.            *)
(***************************************************************************)
EXTENDS PlanBindings, Facts

CONSTANT Rules   \* the plans of the rules that are looked at

\* What implement provides for the variables of the plan.
Planned(p) == Projected(db, Implement(db, [n \in {} |-> NoRecords], p), VariablesOf(p))

\* The bindings of a plan are equivalent to it: Hector answers exactly what
\* the plan would have, as often (into_bindings, implement_neu).
BindingsEquivalent ==
  \A i \in DOMAIN Rules :
    HasBindings(Rules[i]) =>
      Planned(Rules[i]) = Answers(Bindings(Rules[i]), VariablesOf(Rules[i]), Values, db)
=============================================================================
