SPECIFICATION Spec
CONSTANTS
  Keys = {k1}
  Runs = {r1}
  Width = 1
  Threshold = 1
  Answers <- TwoAnswers
  MaxGuidance = 2
  MaxCrashes = 0
CHECK_DEADLOCK FALSE
INVARIANTS PromotionReplacesMachineLabel
