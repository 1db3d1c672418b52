SPECIFICATION Spec
CONSTANTS
  Clients = {c1, c2}
  NoClient = NoClient
  Names = {n}
  MaxTokens = 2
  MaxWorkers = 1
  MaxLog = 4
  MaxResults = 1
  Kinds = {"Register", "CreateAttribute", "Interest", "Subscribe", "Uninterest", "Status", "Malformed"}
CHECK_DEADLOCK FALSE
SYMMETRY ClientSymmetry
INVARIANTS
  InterestsFollowClients
  DataflowsTidy
