\* Three fair threads on a tree of four directories; compiling the expression may fail.
SPECIFICATION FairSpec
CONSTANTS
  Thread = {m, w1, w2}
  Main = m
  None = None
  Dir = {"root", "a", "b", "c"}
  File = {}
  Other = {}
  Root = "root"
  Parent <- ParentTree
  FdLimit = 10
  Faults = {"regex"}
  MaxSpurious = 1
INVARIANTS PendingExact StopOnlyWhenDone NotAllAsleep
PROPERTIES TakenOnce RunningEnds Termination
CHECK_DEADLOCK FALSE
