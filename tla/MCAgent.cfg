\* Two prompts and any two of the other calls, the provider failing twice at most.
CONSTANTS
  p1 = p1  p2 = p2  s1 = s1  b1 = b1  a1 = a1  k1 = k1  c1 = c1
  Prompts = {p1, p2}
  Steers = {s1}
  Shells = {b1}
  Aborts = {a1}
  Cancels = {k1}
  Compacts = {c1}
  MaxRetries = 1
  MaxTurns = 2
  MaxCalls = 2
  Eager = {p2}
  Env = {}
  Nobody = Nobody
SPECIFICATION Spec
INVARIANT TypeOK
INVARIANT BusyMeansRunning
INVARIANT OneEntryPerRun
INVARIANT SameAfterRestart
CHECK_DEADLOCK FALSE
