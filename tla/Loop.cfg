\* Pools of one object and one submission entry: every queue overflows.
\* The file is read in two chunks.
CONSTANTS
  root = root
  a = a
  f = f
  Dir = {root, a}
  File = {f}
  Root = root
  Parent <- Flat
  Chunks <- FlatChunks
  PoolSize = 1
  SqSize = 1
  MaxFd = 5
  WriteSize = 0
  MaxErrno = 0
  MaxDrift = 0
  Faults = {"wait"}
  AtCwd = AtCwd
  None = None
SPECIFICATION FairSpec
INVARIANTS
  DirRefExact
  RequestsConserved
  InFlightExact
  OneOwner
  ReadsInOrder
PROPERTIES
  PumpReturns
CHECK_DEADLOCK FALSE
