------------------------------- MODULE GraphQl -------------------------------
(***************************************************************************)
(* GraphQL queries as pulls: plan/graphql.rs, where they are a plan, and   *)
(* derive/graphql.rs, where they derive attributes under a new namespace.  *)
(* A selection set is a sequence of fields [name, arguments, fields]; a    *)
(* field without fields is a value to pull.                                *)
(***************************************************************************)
EXTENDS PlanBindings, Facts

CONSTANTS
  Selections,    \* sequence of [root, required, fields]
  NoRoot,        \* the root of a query made by GraphQl::new
  DeriveRequests \* how many of them may be derived

VARIABLES
  derived,       \* the queries whose attributes are part of the domain
  probed,        \* probed_source_count of the domain
  panicked

vars == <<db, derived, probed, panicked>>
-----------------------------------------------------------------------------
(* selection_set_to_paths *)

\* A symbol no binding of the plan uses.
Fresh(plan) == FirstSymbol - Len(plan.bindings)

\* Faulty variant: every level is linked to the root.
LinkedToRoot(plan, parents) ==
  IF parents = <<>> THEN plan
  ELSE LET this == Len(plan.variables)
       IN [variables |-> Append(plan.variables, this),
           bindings |-> Append(plan.bindings,
                               Attribute(plan.variables[1], Last(parents), this))]

\* Every level after the first is linked to its parent level.
Linked(plan, parents) ==
  IF parents = <<>> THEN plan
  ELSE LET this == Len(plan.variables)
       IN [variables |-> Append(plan.variables, this),
           bindings |-> Append(plan.bindings,
                               Attribute(Last(plan.variables), Last(parents), this))]

\* Faulty variant: the arguments restrict the parent.
RestrictedParent(plan, arguments) ==
  FoldLeft(LAMBDA acc, arg :
             [acc EXCEPT !.bindings = @ \o
                <<Attribute(plan.variables[1], arg.name, Fresh(acc)),
                  Constant(Fresh(acc), arg.value)>>],
           plan, arguments)

Restricted(plan, arguments) ==
  FoldLeft(LAMBDA acc, arg :
             [acc EXCEPT !.bindings = @ \o
                <<Attribute(Last(plan.variables), arg.name, Fresh(acc)),
                  Constant(Fresh(acc), arg.value)>>],
           plan, arguments)

IsLeaf(field) == field.fields = <<>>

PullAttributes(fields) ==
  LET leaves == SelectSeq(fields, IsLeaf) IN [i \in DOMAIN leaves |-> leaves[i].name]

\* Nothing is pulled at a level that only leads to others.
Level(plan, attributes, parents) ==
  IF attributes = <<>> THEN <<>>
  ELSE IF plan.bindings = <<>>
  THEN <<[op |-> "PullAll", variables |-> <<>>, pull_attributes |-> attributes]>>
  ELSE <<[op |-> "PullLevel", variables |-> <<>>, pull_attributes |-> attributes,
          path_attributes |-> parents, pull_variable |-> Last(plan.variables),
          plan |-> [op |-> "Hector", variables |-> plan.variables, bindings |-> plan.bindings],
          cardinality_many |-> FALSE]>>

RECURSIVE SelectionSetToPaths(_, _, _, _)
SelectionSetToPaths(fields, parentPlan, arguments, parents) ==
  LET plan == Restricted(Linked(parentPlan, parents), arguments)
      inner == SelectSeq(fields, LAMBDA f : ~ IsLeaf(f))
      Nested(f) == SelectionSetToPaths(f.fields, plan, f.arguments, Append(parents, f.name))
  IN FlattenSeq([i \in DOMAIN inner |-> Nested(inner[i])])
       \o Level(plan, PullAttributes(fields), parents)

\* GraphQl::new and GraphQl::with_plan
RootPlan(root) ==
  IF root = NoRoot THEN [variables |-> <<0>>, bindings |-> <<>>]
  ELSE [variables |-> VariablesOf(root), bindings |-> Bindings(root)]

IntoPaths(q) == SelectionSetToPaths(q.fields, RootPlan(q.root), <<>>, <<>>)

ImplementGraphQl(q) ==
  Implement(db, <<>>, [op |-> "Pull", variables |-> <<>>, paths |-> IntoPaths(q)])
-----------------------------------------------------------------------------
(* derive *)

\* The stream of an attribute that a path pulls: the entities at its end with
\* their values.
DerivedStream(path, a) ==
  IF path.op = "PullAll" THEN db[a]
  ELSE JoinRecords(MapRecords(ImplementHector(db, path.plan).tuples, LAMBDA t : <<Last(t), t>>),
                   db[a], LAMBDA e, t, v : <<e, v>>)

\* One entry for every attribute of every path, named after the attribute.
DerivedPaths(q) ==
  LET paths == IntoPaths(q)
      Of(path) == [i \in DOMAIN path.pull_attributes |->
                     [path |-> path, attribute |-> path.pull_attributes[i]]]
  IN FlattenSeq([i \in DOMAIN paths |-> Of(paths[i])])

\* PullLevel::implement asserts that there are path attributes, and the plans
\* and pulls find their attributes or panic.
CanDerive(q) ==
  \A path \in ToSet(IntoPaths(q)) :
    /\ ToSet(path.pull_attributes) \subseteq DOMAIN db
    /\ path.op = "PullLevel" =>
         path.path_attributes # <<>> /\ ImplementHector(db, path.plan).kind # "Panic"

\* Domain += : every derived attribute comes with a probed source, and two
\* domains compose only if one of them has none.
CanCompose(sources, others) == sources = 0 \/ others = 0

Names(q) == [i \in DOMAIN DerivedPaths(q) |-> DerivedPaths(q)[i].attribute]

\* Request::Derive: the attributes are added to a new domain one by one, and
\* that domain is added to the server's.  The names of a request are told
\* apart from those of others by its namespace.
Derive(i) ==
  LET names == Names(Selections[i])
  IN /\ ~ panicked /\ i \notin derived /\ Cardinality(derived) < DeriveRequests
     /\ IF /\ CanDerive(Selections[i]) /\ IsInjective(names)
           /\ \A k \in DOMAIN names : CanCompose(k - 1, 1)
           /\ CanCompose(probed, Len(names))
        THEN derived' = derived \union {i} /\ probed' = probed + Len(names) /\ UNCHANGED panicked
        ELSE panicked' = TRUE /\ UNCHANGED <<derived, probed>>
     /\ UNCHANGED db

GraphQlInit == Init /\ derived = {} /\ probed = 0 /\ panicked = FALSE

Change == Next /\ ~ panicked /\ UNCHANGED <<derived, probed, panicked>>

GraphQlNext == Change \/ \E i \in DOMAIN Selections : Derive(i)

GraphQlSpec == GraphQlInit /\ [][GraphQlNext]_vars
-----------------------------------------------------------------------------
(* What a query selects *)

Has(e, a, v) == Times(db[a], <<e, v>>) > 0

\* The entities a query starts from.
Roots(q) ==
  {e \in Values : /\ q.root = NoRoot \/ <<e>> \in Records(Tuples(db, Implement(db, <<>>, q.root)))
                  /\ \A a \in q.required : \E v \in Values : Has(e, a, v)}

\* The paths through a field: from the entities of the parent level to those
\* that all arguments hold of.
Through(f, paths) ==
  {Append(q[1], q[2]) : q \in {q \in paths \X Values :
     /\ Has(Last(q[1]), f.name, q[2])
     /\ \A i \in DOMAIN f.arguments : Has(q[2], f.arguments[i].name, f.arguments[i].value)}}

\* Every value selected: the path of entities, the fields between them, the
\* attribute and its value.
RECURSIVE Selected(_, _, _)
Selected(fields, paths, parents) ==
  UNION {IF IsLeaf(fields[i])
         THEN {[path |-> q[1], fields |-> parents, attribute |-> fields[i].name, value |-> q[2]] :
                 q \in {q \in paths \X Values : Has(Last(q[1]), fields[i].name, q[2])}}
         ELSE Selected(fields[i].fields, Through(fields[i], paths), Append(parents, fields[i].name)) :
           i \in DOMAIN fields}

SelectedBy(q) == Selected(q.fields, {<<e>> : e \in Roots(q)}, <<>>)

\* The path with the fields between its entities.
Spelled(s) ==
  FoldLeft(LAMBDA row, i : row \o <<s.fields[i], s.path[i + 1]>>, <<s.path[1]>>,
           [i \in DOMAIN s.fields |-> i])

\* The rows as the last entity, the attribute and its value are spelled out.
RowsSpelledOut(q) ==
  \A r \in {ImplementGraphQl(q)} :
    r.kind # "Panic" /\ Records(r.tuples) = {Spelled(s) \o <<s.attribute, s.value>> : s \in SelectedBy(q)}

\* The last of several entities is left out of the rows.
ShortRow(s) ==
  (IF s.fields = <<>> THEN Spelled(s) ELSE Front(Spelled(s))) \o <<s.attribute, s.value>>

\* Those rows that do not name the entity reached.
ValueRows(r) == {row \in Records(r.tuples) : row[Len(row) - 1] # DbId}

\* The values that the plan of a query finds are those the query selects: at
\* every level, the values of the entities that the fields lead to and the
\* arguments hold of (selection_set_to_paths, Pull).
SelectionsAgree ==
  \A i \in DOMAIN Selections : \A r \in {ImplementGraphQl(Selections[i])} :
    r.kind # "Panic" /\ ValueRows(r) = {ShortRow(s) : s \in SelectedBy(Selections[i])}

\* The attributes of a query, and its domain with the server's, compose.
Composed == ~ panicked

\* A query can be derived, and a derived attribute relates exactly the
\* entities that the query selects it of to their values (GraphQl::derive).
DerivedAgree ==
  /\ Composed
  /\ \A i \in derived : \A d \in ToSet(DerivedPaths(Selections[i])) :
       Records(DerivedStream(d.path, d.attribute))
         = {<<Last(s.path), s.value>> : s \in {s \in SelectedBy(Selections[i]) :
              s.attribute = d.attribute}}
=============================================================================
