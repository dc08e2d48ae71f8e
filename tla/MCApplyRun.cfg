CONSTANTS
  NumItems = 4
  Concurrency = 2
  Outcome <- MCOutcome
SPECIFICATION FairSpec
INVARIANTS
  TypeOK
  CallsBounded
  ResultsMatch
  TalliesMatch
  ReportIsFinal
PROPERTIES
  ImplementsBatch
  Ends
