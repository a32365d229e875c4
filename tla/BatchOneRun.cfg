SPECIFICATION Spec
CONSTANTS
  Keys = {k1, k2, k3}
  Runs = {r1}
  Width = 2
  Threshold = 1
  Answers <- AllAnswers
  MaxGuidance = 2
  MaxCrashes = 1
SYMMETRY Symmetry
CHECK_DEADLOCK FALSE
INVARIANTS LabelsMatchStates LedgerAccountsForRun BreakerBoundsStreak
PROPERTIES DispatchOnlyWhileWanted HumanDecisionStands
