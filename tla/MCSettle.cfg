SPECIFICATION Spec

CONSTANTS
  Workers = {w1, w2}
  Consumers = {c1, c2}
  Requests = {q1}
  w1 = w1
  w2 = w2
  c1 = c1
  c2 = c2
  q1 = q1
  Scenario = "TECHNICAL_DESIGN"
  NumSteps = 3
  AsyncSteps = {1, 3}
  DesignStep = 2
  MaxAttempts = 2
  Env = {"loss", "retryLoss", "reject", "stepError", "runnerError", "timeout", "cancelRunning", "slowComplete", "planError"}
  MaxRuns = 2
  MaxMsgs = 2
  MaxSubmissions = 1

SYMMETRY Symmetry
INVARIANT TerminalMeansSettled
INVARIANT PaidForDelivered
INVARIANT NoWorkspaceLeak
INVARIANT OutcomeAgrees
CHECK_DEADLOCK FALSE
