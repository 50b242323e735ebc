SPECIFICATION Spec
CONSTANTS
  Handlers = {h1, h2}
  Kinds <- MCKinds
  Spoken = {"open"}
  Names = {n1}
  MaxChanges = 1
  MaxFaults = 1
INVARIANTS
  RefusedWithCause
PROPERTIES
  FlagSettles
