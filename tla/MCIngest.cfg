SPECIFICATION FairSpec

CONSTANTS
  p1 = p1
  p2 = p2
  Pages = {p1}
  NoPage = NoPage
  Batch = 2
  RetryMax = 2
  Weathers <- OneKind
  MaxVersion = 2

INVARIANT TypeOK
INVARIANT IndexedMeansThere
INVARIANT DeletionIsPending
PROPERTY PagesAreIndexed
PROPERTY DeletedPagesForgotten
CHECK_DEADLOCK FALSE
