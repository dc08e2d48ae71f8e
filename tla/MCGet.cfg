CONSTANTS
  Res <- MCRes
  Empty = "none"
  Concurrency = 1
  HasTimeout = TRUE
  MaxJobs = 2
  Role <- MCRole
  PolicyRules <- MCPolicyRules
  Listings <- MCListings
  Commands <- MCCommands
  MaxCommands = 2
SPECIFICATION FairSpec
INVARIANTS
  GetTypeOK
  TabsComeAndGo
  RefreshIsComplete
  StatusAgrees
PROPERTIES
  GetEnds
