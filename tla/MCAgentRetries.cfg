\* One prompt and one other call, the provider failing until nothing is left to try.
CONSTANTS
  p1 = p1  p2 = p2  s1 = s1  b1 = b1  a1 = a1  k1 = k1  c1 = c1
  Prompts = {p1}
  Steers = {s1}
  Shells = {}
  Aborts = {a1}
  Cancels = {k1}
  Compacts = {c1}
  MaxRetries = 1
  MaxTurns = 6
  MaxCalls = 1
  Eager = {p1}
  Env = {}
  Nobody = Nobody
SPECIFICATION FairSpec
INVARIANT RecoveryBounded
PROPERTY EveryCallReturns
CHECK_DEADLOCK FALSE
