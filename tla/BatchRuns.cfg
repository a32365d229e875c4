SPECIFICATION FairSpec
CONSTANTS
  Keys = {k1}
  Runs = {r1, r2}
  Width = 1
  Threshold = 1
  Answers <- AllAnswers
  MaxGuidance = 2
  MaxCrashes = 2
CHECK_DEADLOCK FALSE
INVARIANTS OneActiveRun LiveLabelsAreCurrent
PROPERTIES ImplementsAtomicProject RunsSettle
