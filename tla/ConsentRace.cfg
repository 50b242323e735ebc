\* Two messages of one user, nothing fails.
CONSTANTS
  Messages = {m1, m2}
  NoTool = NoTool
  MaxAborts = 0
SPECIFICATION Spec
SYMMETRY Interchangeable
CHECK_DEADLOCK FALSE
PROPERTY
  AcceptanceIsFinal
