SPECIFICATION FairSpec

CONSTANTS
  Workers = {w1, w2}
  Consumers = {c1, c2}
  Requests = {q1}
  w1 = w1
  w2 = w2
  c1 = c1
  c2 = c2
  q1 = q1
  Scenario = "TECHNICAL_DESIGN"
  NumSteps = 3
  AsyncSteps = {1, 3}
  DesignStep = 2
  MaxAttempts = 2
  Env = {"loss", "duplicate", "reject", "stepError", "runnerError", "timeout", "cancelPending", "planError", "noTransaction"}
  MaxRuns = 2
  MaxMsgs = 3
  MaxSubmissions = 1

PROPERTY Terminates
CHECK_DEADLOCK FALSE
