CONSTANTS
  NumItems = 2
  Concurrency = 1
  Outcome <- MCOutcome
  Options <- MCEveryOption
SPECIFICATION CdpSpec
INVARIANT
  AcceptFlagTicksTerms
