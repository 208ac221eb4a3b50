\* Every system call may fail; two submission entries and room for two descriptors.
CONSTANTS
  root = root
  a = a
  f = f
  Dir = {root, a}
  File = {f}
  Root = root
  Parent <- Nested
  Chunks <- NestedChunks
  PoolSize = 1
  SqSize = 2
  MaxFd = 4
  WriteSize = 2
  MaxErrno = 2
  MaxDrift = 1
  Faults = {"openat", "getdents", "read", "write", "short", "submit", "partial", "wait", "handler"}
  AtCwd = AtCwd
  None = None
SPECIFICATION Spec
INVARIANTS
  IInv
  ReturnsWithAllDone
CHECK_DEADLOCK FALSE
