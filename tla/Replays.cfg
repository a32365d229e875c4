SPECIFICATION DataSpec
CONSTANTS
  Examples = {1, 2, 3}
  Fractions <- HalfOrNone
  Required = 1
  Select <- ByLikeness
  MaxVersions = 2
  MaxSplitCrashes = 1
  Keys = {key1, key2}
  Bases = {b1, b2}
  MaxRequests = 3
  MaxGuidance = 2
  MaxCrashes = 1
  Tasks = {t1, t2}
  Endpoints = {e1, e2}
  Refusals <- NoneOrAll
  MaxTeacherEvents = 2
  Requests = {r1, r2}
  MaxStudentEvents = 3
  MaxArchiveEvents = 4
  Callers = {c1, c2}
  Rpm = 1
  Window = 2
  Deadlines = {1, 3}
  MaxAttempts = 2
  Backoffs = {1}
  MaxInterval = 2
  MaxNow = 4
  Super = "super"
  SelfServed = {"nano", "super"}
CHECK_DEADLOCK FALSE
PROPERTY ReplaysLeaveValidated
