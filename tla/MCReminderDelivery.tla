------------------------- MODULE MCReminderDelivery -------------------------
(***************************************************************************)
(* Instances of ReminderDelivery for TLC.  Each run picks one of the       *)
(* bounds on events below.                                                 *)
(***************************************************************************)
EXTENDS ReminderDelivery, TLC

\* A bound for every kind of event.
Bounds(command, retry, crash, lostLock, lostVerdict, abandon) ==
  [k \in EventKind |->
     CASE k = "command"   -> command
       [] k = "retry"     -> retry
       [] k = "crash"     -> crash
       [] k = "lostLock"  -> lostLock
       [] k = "lostVerdict" -> lostVerdict
       [] k = "abandon"   -> abandon]

\* Every hazard at once: re-enqueues, racing retries and each kind of fault.
HazardLimit == Bounds(2, 2, 1, 1, 1, 1)

\* ... at most two faults in one behaviour.
AtMostTwoFaults ==
  spent["crash"] + spent["lostLock"] + spent["lostVerdict"] + spent["abandon"] <= 2

\* Two reminders sharing a worker that may crash once.
LivenessLimit == Bounds(3, 0, 1, 0, 0, 0)

Interchangeable == Permutations(Workers) \cup Permutations(Clients)
=============================================================================
