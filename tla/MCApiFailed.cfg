CONSTANTS
  NumItems = 2
  Concurrency = 2
  Outcome <- MCOutcome
  Settings <- SettingType
SPECIFICATION ApiSpec
INVARIANT
  FailedAreCounted
