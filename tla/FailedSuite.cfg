SPECIFICATION Spec
CONSTANTS
  Chains = 2
  Schemes = 0
  SkipChains = {}
  Reports <- AllReports
  MaxCancels = 0
  MaxCrashes = 0
CHECK_DEADLOCK FALSE
PROPERTIES FailedSuiteSubmitsNothing
