--------------------------- MODULE DeliveryLedger ---------------------------
(***************************************************************************)
(* What the reminder subsystem promises, without jobs, workers or requests:*)
(* a reminder is opened once; it may be canceled, settled as SENT or       *)
(* FAILED, and reopened by a retry; a message goes out only against an     *)
(* allowance, which an opening, a reopening and a fault raise by one; and  *)
(* a reminder is never settled as SENT before a message went out.          *)
(***************************************************************************)
EXTENDS Naturals

CONSTANT Reminders

VARIABLES
  status,      \* the reminder's status, as operators and users see it
  delivered,   \* messages that reached WhatsApp
  allowance    \* messages it may cause

Init ==
  /\ status    = [r \in Reminders |-> "NONE"]
  /\ delivered = [r \in Reminders |-> 0]
  /\ allowance = [r \in Reminders |-> 0]

Becomes(r, s) == status' = [status EXCEPT ![r] = s]
Allow(r) == allowance' = [allowance EXCEPT ![r] = @ + 1]

Open(r) ==
  /\ status[r] = "NONE"
  /\ Becomes(r, "SCHEDULED")
  /\ Allow(r)
  /\ UNCHANGED delivered

Reopen(r) ==
  /\ status[r] # "NONE"
  /\ Becomes(r, "SCHEDULED")
  /\ Allow(r)
  /\ UNCHANGED delivered

Fault(r) ==
  /\ status[r] # "NONE"
  /\ Allow(r)
  /\ UNCHANGED <<status, delivered>>

Deliver(r) ==
  /\ delivered[r] < allowance[r]
  /\ delivered' = [delivered EXCEPT ![r] = @ + 1]
  /\ UNCHANGED <<status, allowance>>

Settle(r) ==
  /\ status[r] # "NONE"
  /\ \/ Becomes(r, "CANCELED")
     \/ Becomes(r, "FAILED")
     \/ delivered[r] > 0 /\ Becomes(r, "SENT")
  /\ UNCHANGED <<delivered, allowance>>

Next ==
  \E r \in Reminders :
    \/ Open(r)
    \/ Reopen(r)
    \/ Fault(r)
    \/ Deliver(r)
    \/ Settle(r)

vars == <<status, delivered, allowance>>

Spec == Init /\ [][Next]_vars
=============================================================================
