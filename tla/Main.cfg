\* All builds and argument counts, all kinds of input and output, all faults; files of up to
\* three bytes in chunks of two.
CONSTANTS
  MaxArgc = 4
  MaxLength = 3
  MaxChunk = 2
  InMode = {"REG", "PROC", "FIFO", "CHR", "DIR"}
  OutMode = {"REG", "FIFO", "CHR", "SOCK"}
  Faults = {"openat", "statx", "fadvise", "pipe", "in", "out", "short", "resize"}
SPECIFICATION MainSpec
INVARIANTS
  OutputIsPrefix
  WholeFileOutput
  PipeDrained
PROPERTIES
  MainReturns
CHECK_DEADLOCK FALSE
