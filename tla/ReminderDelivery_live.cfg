\* Two reminders, one worker that may crash once: every reminder is settled.
CONSTANTS
  Reminders = {r1, r2}
  Workers = {w1}
  Clients = {c1}
  NoWorker = NoWorker
  NoReminder = NoReminder
  MaxStalled = 1
  Limit <- LivenessLimit
SPECIFICATION FairSpec
CHECK_DEADLOCK FALSE
PROPERTY
  ScheduledIsSettled
