SPECIFICATION QueriesSpec
CONSTANTS
  A = A  B = B  None = None  DbId = DbId  NoRoot = NoRoot
  Attributes = {A, B}
  Eids = {1, 2}  Values = {1, 2}  MaxCount = 2  MaxDatoms = 6  SetSemantics = FALSE
  Queries <- AllQueries  Aggregations <- AggregateQueries  Pulls <- PullQueries
  DeriveQueries <- DeriveSelections
CHECK_DEADLOCK FALSE
INVARIANT RowsAsTested
