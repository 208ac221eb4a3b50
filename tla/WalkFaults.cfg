SPECIFICATION Spec
CONSTANTS
  Thread = {m, w1, w2}
  Main = m
  None = None
  Dir = {"root", "a"}
  File = {"f", "g"}
  Other = {"dot"}
  Root = "root"
  Parent <- ParentFiles
  FdLimit = 3
  Faults = {"root", "spawn", "regex", "getdents", "openat", "read", "write"}
  MaxSpurious = 0
INVARIANTS IInv WalkInv FdsExact WalkComplete MatchesWritten
PROPERTIES ImplementsTraversal
CHECK_DEADLOCK FALSE
