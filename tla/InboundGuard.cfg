\* Two calls, a stamped and an unstamped message, one fault; a claim lapses
\* and is taken again within the time there is.
CONSTANTS
  Messages = {m1, m2}
  Unstamped = {m2}
  Runs = {r1, r2}
  ClaimTtl = 3
  MaxAge = 1
  Tolerance = 1
  Grace = 1
  Skew = 1
  MaxBatch = 2
  MaxTime = 4
  MaxFaults = 1
SPECIFICATION Spec
SYMMETRY Interchangeable
CHECK_DEADLOCK FALSE
INVARIANTS
  TypeOK
  HandledOnce
  TakenIsAccounted
PROPERTY
  RefusedForGood
