SPECIFICATION Spec

CONSTANTS
  a = a
  b = b
  Sessions = {a, b}
  Names = {"todo"}
  NoName = "none"
  MaxEntries = 5
  MaxMarks = 1
  Env = {}

SYMMETRY Paths

INVARIANT TypeOK
INVARIANT FilesAreCopies
INVARIANT TreeIsSound
PROPERTY HistoryKept
PROPERTY ForkKeepsBranch
CHECK_DEADLOCK FALSE
