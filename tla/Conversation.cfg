\* Three messages of a new, an accepted or a privileged user; one call fails.
\* All messages handled is where a behaviour ends.
CONSTANTS
  Messages = {m1, m2, m3}
  NoTool = NoTool
  MaxAborts = 1
SPECIFICATION Spec
SYMMETRY Interchangeable
CHECK_DEADLOCK FALSE
INVARIANTS
  TypeOK
  ServedOnlyAccepted
  RunsArePaid
PROPERTIES
  AcceptanceHolds
