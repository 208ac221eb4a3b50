\* Two bytes, one capture.
CONSTANTS
  MaxData = 2
  MaxCaptures = 1
  Faults = {"create", "next"}
SPECIFICATION Spec
INVARIANTS
  NoColourShown
CHECK_DEADLOCK FALSE
