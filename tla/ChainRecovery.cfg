SPECIFICATION FairSpec
CONSTANTS
  Chains = 2
  Schemes = 0
  SkipChains = {2}
  Reports <- AllReports
  MaxCancels = 1
  MaxCrashes = 1
CHECK_DEADLOCK FALSE
INVARIANTS CompletedMeansDone
PROPERTIES ChainsGoOn SuiteEnds
