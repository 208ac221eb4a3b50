\* Two workers, files of up to three characters and of at most one, with every set of matches.
CONSTANTS
  Worker = {t1, t2}
  Brief = {t2}
  MaxText = 3
  MaxSize = 2
  BufferSize = 2
  Matcher = {"vectorscan", "re2"}
  Faults = {"read", "scan", "write", "short"}
  None = None
SPECIFICATION Spec
INVARIANTS
  LinesKept
  BatchesWhole
PROPERTIES
  WorkersEnd
CHECK_DEADLOCK FALSE
