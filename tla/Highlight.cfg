\* Four bytes, two captures.
CONSTANTS
  MaxData = 4
  MaxCaptures = 2
  Faults = {"create", "next"}
SPECIFICATION Spec
INVARIANTS
  ContentKept
  CapturesShown
CHECK_DEADLOCK FALSE
