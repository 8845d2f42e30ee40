SPECIFICATION Spec

CONSTANTS
  Workers = {w1, w2}
  Consumers = {c1}
  Requests = {q1}
  w1 = w1
  w2 = w2
  c1 = c1
  q1 = q1
  Scenario = "GENERIC"
  NumSteps = 1
  AsyncSteps = {1}
  DesignStep = 1
  MaxAttempts = 2
  Env = {"duplicate", "dbError", "watchdog", "lateEvents", "tailError", "planError"}
  MaxRuns = 1
  MaxMsgs = 1
  MaxSubmissions = 1

SYMMETRY Symmetry
INVARIANT TypeOK
INVARIANT RunsNotShared
CHECK_DEADLOCK FALSE
