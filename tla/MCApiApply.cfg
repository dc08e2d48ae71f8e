CONSTANTS
  NumItems = 3
  Concurrency = 2
  Outcome <- MCOutcome
  Settings <- SettingType
SPECIFICATION ApiFairSpec
INVARIANTS
  ApiTypeOK
  RenewedMeansAccepted
  ValidationGatesSubmit
  DryRunAcceptsNothing
PROPERTY
  ApiCancelEndsRun
