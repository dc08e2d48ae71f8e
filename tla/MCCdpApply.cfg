CONSTANTS
  NumItems = 2
  Concurrency = 1
  Outcome <- MCOutcome
  Options <- MCOptions
SPECIFICATION CdpFairSpec
INVARIANTS
  CdpTypeOK
  ReportTellsThePortal
  DryRunSubmitsNothing
  TabsAsPromised
  OpenTabsBounded
PROPERTIES
  TimeoutEndsRun
  CancelEndsRun
