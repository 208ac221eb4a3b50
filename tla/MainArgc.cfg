\* The precondition of convert_raw_args.
CONSTANTS
  MaxArgc = 2
  MaxLength = 2
  MaxChunk = 1
  InMode = {"REG", "DIR"}
  OutMode = {"REG", "CHR", "SOCK"}
  Faults = {"openat", "statx", "in", "out", "short", "resize"}
SPECIFICATION MainSpec
INVARIANTS
  ArgcContract
CHECK_DEADLOCK FALSE
