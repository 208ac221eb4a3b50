\* Two fair workers, three requests, all faults.
CONSTANTS
  Worker = {t1, t2}
  Request = {r1, r2, r3}
  Faults = {"construct", "scan", "write"}
  None = None
SPECIFICATION FairSpec
INVARIANTS
  IInv
  OnePlace
  MatchesKept
  FrontOfNonEmpty
PROPERTIES
  AllGivenBack
  DestructorEnds
CHECK_DEADLOCK FALSE
