SPECIFICATION MCSpec
CONSTANTS
  None = None
  Enabled = {"yt", "ig", "fb", "direct"}
  Bridged = {"yt"}
  Requests = {r1, r2}
  Sweeps = {s1, s2}
  MaxAttempts = 2
  MaxFaults = 1
CHECK_DEADLOCK FALSE
INVARIANTS
  FilesAreScheduled
PROPERTIES
  ReadyIsDeliverable
  RegisteredFilesGo
