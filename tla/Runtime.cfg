SPECIFICATION MCSpec
CONSTANTS
  api = api
  worker = worker
  postgres = postgres
  dev = dev
  prod = prod
  None = None
  Torn = Torn
  Foreign = Foreign
  Services <- MCServices
  Ported <- MCPorted
  DepOrder <- MCDepOrder
  ModeOrder <- MCModeOrder
  InfraModes <- MCInfraModes
  Resolvers = {yt}
  Starts = {r1, r2}
  Stops = {s1}
  MaxActive = 2
  MaxFaults = 1
SYMMETRY StartSymmetry
CHECK_DEADLOCK FALSE
INVARIANTS StackIsOnFile NoSecondCopy
PROPERTIES StopSparesOthers
