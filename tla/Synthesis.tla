------------------------------ MODULE Synthesis ------------------------------
(***************************************************************************)
(* From a registered name to its result: collect_dependencies gathers the  *)
(* rules it depends on, and implement (lib.rs) gives every one of them a   *)
(* recursive variable whose value in an iteration is what its plan finds   *)
(* in the previous one.  With enable_optimizer, implement_neu takes its     *)
(* place.                                                                  *)
(***************************************************************************)
EXTENDS PlanBindings

CONSTANTS
  Programs,       \* records [rules, publish, optimize]: plans by name, the
                  \* name asked for, and whether enable_optimizer is set
  Databases,      \* the attributes' pairs
  Values,
  Meaning(_, _)   \* what the published rule of a program is to hold in a database

VARIABLES
  program, db,
  phase,          \* collecting, iterating, stable, failed or panicked
  seen, queue,    \* of collect_dependencies
  rules,          \* the names collected so far, in order
  variables,      \* the recursive variables' values in the current iteration
  round           \* the iteration: the inner part of the loop's timestamps

vars == <<program, db, phase, seen, queue, rules, variables, round>>

Init ==
  /\ program \in Programs
  /\ db \in Databases
  /\ phase = IF program.publish \in DOMAIN program.rules THEN "collecting" ELSE "failed"
  /\ seen = {program.publish}
  /\ queue = <<program.publish>>
  /\ rules = <<>>
  /\ variables = <<>>
  /\ round = 0
-----------------------------------------------------------------------------
(* collect_dependencies *)

\* Faulty variant: a name is followed every time it is met.
UnseenAlways(names) == names

Unseen(names) == names \ seen

\* Every order of the elements of S: a hash set is iterated in any of them.
Orders(S) == {s \in [1 .. Cardinality(S) -> S] : IsInjective(s)}

Collect ==
  /\ phase = "collecting" /\ queue # <<>>
  /\ LET next == Head(queue)
         needs == Dependencies(program.rules[next])
         new == Unseen(needs.names)
     IN IF ~ new \subseteq DOMAIN program.rules \/ ~ needs.attributes \subseteq DOMAIN db
        THEN phase' = "failed" /\ UNCHANGED <<seen, queue, rules>>
        ELSE /\ seen' = seen \union new
             /\ \E s \in Orders(new) : queue' = Tail(queue) \o s
             /\ rules' = Append(rules, next)
             /\ UNCHANGED phase
  /\ UNCHANGED <<program, db, variables, round>>
-----------------------------------------------------------------------------
(* implement, implement_neu *)

\* Which rules get a variable.
Recursive == IF program.optimize THEN {program.publish} ELSE ToSet(rules)

\* The relation of a rule, given the values of the variables.
Execution(name, values) ==
  LET p == program.rules[name]
  IN IF program.optimize /\ ~ HasBindings(p) THEN Panicked
     ELSE IF program.optimize
     THEN ImplementHector(db, [variables |-> VariablesOf(p), bindings |-> Bindings(p)])
     ELSE Implement(db, values, p)

\* rules[index - 1] and rules[index] for index in 1..rules.len() - 1
DuplicateFound(sorted) == \E i \in 2 .. Len(sorted) - 1 : sorted[i] = sorted[i - 1]

\* Steps 0 to 4: all variables are empty in the first iteration.
Define ==
  LET empty == [n \in Recursive |-> NoRecords]
      sorted == SortSeq(rules, LAMBDA m, n : m < n)
  IN /\ phase = "collecting" /\ queue = <<>>
     /\ phase' = CASE DuplicateFound(sorted) -> "failed"
                   [] \E n \in ToSet(rules) : Execution(n, empty).kind = "Panic" -> "panicked"
                   [] ToSet(rules) # Recursive -> "failed"
                   [] OTHER -> "iterating"
     /\ variables' = empty
     /\ UNCHANGED <<program, db, seen, queue, rules, round>>


\* Faulty variant: what was found once stays.
ValueKept(old, tuples) == Distinct(Concat(old, tuples))

\* What a variable is set to: distinct, or consolidated.
Value(old, tuples) == IF SetSemantics THEN Distinct(tuples) ELSE tuples

\* One iteration: every plan is evaluated on the previous values.
Iterate ==
  /\ phase = "iterating"
  /\ \E next \in {[n \in DOMAIN variables |->
                    Value(variables[n], Tuples(db, Execution(n, variables)))]} :
       /\ variables' = next
       /\ phase' = IF next = variables THEN "stable" ELSE phase
  /\ round' = round + 1
  /\ UNCHANGED <<program, db, seen, queue, rules>>

Next == Collect \/ Define \/ Iterate

Spec == Init /\ [][Next]_vars
-----------------------------------------------------------------------------
(* What is to hold *)

\* The names that occur in a plan, and those that rules lead to.
RECURSIVE NamesIn(_)
NamesIn(p) ==
  IF p.op = "NameExpr" THEN {p.name}
  ELSE UNION {NamesIn(Inputs(p)[i]) : i \in DOMAIN Inputs(p)}

RECURSIVE ReachableFrom(_)
ReachableFrom(S) ==
  LET more == S \union UNION {NamesIn(program.rules[n]) : n \in S \intersect DOMAIN program.rules}
  IN IF more = S THEN S ELSE ReachableFrom(more)

Reachable == ReachableFrom({program.publish})

\* The rules that are implemented are those the published one depends on, each
\* of them once, and they exist (collect_dependencies: "a deduplicated list of
\* all rules used in the definition of the specified names").
CollectsReachable ==
  phase \in {"iterating", "stable", "panicked"} =>
    ToSet(rules) = Reachable /\ IsInjective(rules) /\ Reachable \subseteq DOMAIN program.rules

\* Once collect_dependencies has found every rule and attribute, implementing
\* the plans meets no unknown name or attribute.
PlanningNeverPanics == phase # "panicked"

\* The result of the iteration is the meaning of the published rule, and every
\* tuple counts once (implement, Step 4).
ComputesMeaning ==
  phase = "stable" => variables[program.publish] = OnceEach(Meaning(program, db))

\* The iteration ends: when no rule depends on its own negation, there is no
\* further change once every variable could have gained every tuple.
ConvergesInTime ==
  phase = "iterating" => round <= Len(rules) * Cardinality(Values \X Values) + 1

=============================================================================
