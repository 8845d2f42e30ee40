SPECIFICATION Spec

CONSTANTS
  Workers = {w1}
  Consumers = {c1}
  Requests = {q1}
  w1 = w1
  c1 = c1
  q1 = q1
  Scenario = "TECHNICAL_DESIGN"
  NumSteps = 3
  AsyncSteps = {}
  DesignStep = 2
  MaxAttempts = 2
  Env = {"noTransaction"}
  MaxRuns = 2
  MaxMsgs = 2
  MaxSubmissions = 1

SYMMETRY Symmetry
INVARIANT TerminalMeansSettled
CHECK_DEADLOCK FALSE
