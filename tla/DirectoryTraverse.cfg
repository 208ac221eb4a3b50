\* Two files and an entry that is skipped; every text of up to three characters.
CONSTANTS
  MaxText = 3
  Faults = {"root", "openat", "filesystem", "mmap", "regex", "write"}
  Regular = {f, g}
  Other = {link}
  Object = {3}
  Invalid = Invalid
SPECIFICATION Spec
INVARIANTS
  LinesFound
  FileReleased
PROPERTIES
  TraverseEnds
CHECK_DEADLOCK FALSE
