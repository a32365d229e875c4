SPECIFICATION Spec
CONSTANTS
  Chains = 2
  Schemes = 1
  SkipChains = {2}
  Reports <- Endings
  MaxCancels = 1
  MaxCrashes = 1
CHECK_DEADLOCK FALSE
INVARIANTS AskedOnce ParentFirst HaltsAreExplained
PROPERTIES CanceledSuiteStaysQuiet EndedJobsStand
