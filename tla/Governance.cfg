\* Three decisions at once: one stores, one changes what it says, one is late.
CONSTANTS
  c1 = c1
  c2 = c2
  c3 = c3
  Calls = {c1, c2, c3}
  NoDay = NoDay
  Accesses <- MCAccesses
  Policies <- MCPolicies
  Ttl = 2
  Limit = 1
  MaxDay = 1
  MaxChanges = 1
  MaxFaults = 1
SYMMETRY CallSymmetry
SPECIFICATION Spec
INVARIANTS
  TypeOK
  QuotaHolds
  QuotaIsGranted
  UserOpensNoGroup
  TakesEffect
CHECK_DEADLOCK FALSE
