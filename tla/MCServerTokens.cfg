SPECIFICATION Spec
CONSTANTS
  Clients = {c1, c2}
  NoClient = NoClient
  Names = {n}
  MaxTokens = 2
  MaxWorkers = 2
  MaxLog = 4
  MaxResults = 1
  Kinds = {"Interest", "Uninterest"}
INVARIANTS
  InterestKept
CHECK_DEADLOCK FALSE
