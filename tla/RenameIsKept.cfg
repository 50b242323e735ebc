SPECIFICATION Spec
CONSTANTS
  Handlers = {h1}
  Kinds <- MCRename
  Spoken = {}
  Names = {n1, n2}
  MaxChanges = 0
  MaxFaults = 0
PROPERTIES
  RenameIsKept
