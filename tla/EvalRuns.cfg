SPECIFICATION ShapedSpec
CONSTANTS
  Keys = {k1, k2}
  Runs = {r1, r2}
  Settings = {s1, s2}
  FirstPool = 1
  AutoEvaluate = TRUE
  Width = 2
  MaxPasses = 2
  Answers <- AllAnswers
  MaxGuidance = 2
  MaxCrashes = 1
  Shapes = {"lanes", "rivals"}
  FirstRun = r1
  FirstKey = k1
  FirstSetting = s1
CHECK_DEADLOCK FALSE
INVARIANTS CountersPartitionPool ScoredWhatItFroze
PROPERTIES NewestRunWins EvaluationsSettle
