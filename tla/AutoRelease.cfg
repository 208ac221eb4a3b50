\* Three handles and four descriptors, in every order of operations.
CONSTANTS
  Handle = {h1, h2, h3}
  Object = {3, 4, 5, 6}
  Invalid = Invalid
SPECIFICATION Spec
INVARIANTS
  OwnedOnce
CHECK_DEADLOCK FALSE
