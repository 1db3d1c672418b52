SPECIFICATION FairSpec
CONSTANTS
  Clients = {c1, c2}
  NoClient = NoClient
  Names = {n}
  MaxTokens = 1
  MaxWorkers = 2
  MaxLog = 3
  MaxResults = 1
  Kinds = {"Register", "Interest", "Shutdown"}
INVARIANTS
  ReplicasAgree
PROPERTIES
  ResultsArrive
  EventuallyCleanedUp
  ShutdownCompletes
CHECK_DEADLOCK FALSE
