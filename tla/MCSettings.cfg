SPECIFICATION Spec

CONSTANTS
  p = p
  q = q
  theme = theme
  model = model
  Managers = {p, q}
  Fields = {theme, model}
  NoManager = NoManager
  MaxSets = 4
  Weathers <- BurstOrFailure

SYMMETRY Symmetry

INVARIANT ChangesAreKept
PROPERTY WritesMerge
CHECK_DEADLOCK FALSE
