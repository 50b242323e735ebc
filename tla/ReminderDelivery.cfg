\* One reminder, two workers, two requests in progress, every hazard.
\* The bounds on events end every behaviour, so a state without successor
\* is not an error.
CONSTANTS
  Reminders = {r1}
  Workers = {w1, w2}
  Clients = {c1, c2}
  NoWorker = NoWorker
  NoReminder = NoReminder
  MaxStalled = 1
  Limit <- HazardLimit
SPECIFICATION Spec
SYMMETRY Interchangeable
CONSTRAINT AtMostTwoFaults
CHECK_DEADLOCK FALSE
INVARIANTS
  TypeOK
  SentWasDelivered
  DeliveriesArePaid
  OneRunWithoutFault
  ScheduledIsQueued
PROPERTIES
  CancelHolds
  ReopenOnlyByRetry
  ImplementsLedger
