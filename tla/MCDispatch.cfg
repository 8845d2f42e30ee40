SPECIFICATION Spec

CONSTANTS
  Workers = {w1, w2}
  Consumers = {c1, c2}
  Requests = {q1}
  w1 = w1
  w2 = w2
  c1 = c1
  c2 = c2
  q1 = q1
  Scenario = "GENERIC"
  NumSteps = 2
  AsyncSteps = {}
  DesignStep = 2
  MaxAttempts = 2
  Env = {"loss", "duplicate", "crash", "stepError", "cancelRunning", "retry", "planError"}
  MaxRuns = 3
  MaxMsgs = 3
  MaxSubmissions = 3

SYMMETRY Symmetry
INVARIANT OneDispatcher
INVARIANT NoReplay
PROPERTY LifecycleKept
CHECK_DEADLOCK FALSE
