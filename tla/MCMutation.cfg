SPECIFICATION FairSpec

CONSTANTS
  e1 = e1
  e2 = e2
  w1 = w1
  w2 = w2
  file = file
  link = link
  fresh = fresh
  Calls = {e1, e2, w1, w2}
  Paths = {file, link, fresh}
  Canon <- CanonOf
  PathOf <- PathsOf
  ToolOf <- ToolsOf
  Existing = {file}
  NoPath = NoPath
  NoCall = NoCall

INVARIANT TypeOK
INVARIANT OneMutator
INVARIANT InCallOrder
INVARIANT QueuesForgotten
PROPERTY AtomicChanges
PROPERTY EveryCallEnds
CHECK_DEADLOCK FALSE
