-------------------------- MODULE ReminderDelivery --------------------------
(***************************************************************************)
(* How a reminder travels from its row in Postgres to a WhatsApp message:  *)
(*                                                                         *)
(*   wa-gateway / admin-api          BullMQ (Redis)          worker        *)
(*   row := SCHEDULED                                                      *)
(*   queue.remove, queue.add  --->   job waiting  --->   handler runs      *)
(*                                                        reads the row    *)
(*   wa-gateway dispatch API  <------- POST send-text --- dispatches       *)
(*   WhatsApp send            -------- reply ----------> row := SENT/FAILED*)
(*                                                                         *)
(* Every await of the worker's handler and of the two enqueuing handlers   *)
(* is a step of its own, so a command, an operator's retry, a crash or an  *)
(* expired job lock can fall between any two of them.                      *)
(*                                                                         *)
(* Time is abstracted: a delayed job may become due at any moment, so      *)
(* "waiting" stands for BullMQ's delayed and wait lists together.          *)
(***************************************************************************)
EXTENDS Naturals, FiniteSets

CONSTANTS
  Reminders,    \* ids of reminder rows; the id is also the BullMQ job id
  Workers,      \* worker processes, one job at a time each
  Clients,      \* requests in progress: chat commands and admin HTTP calls
  NoWorker,     \* no lock holder
  NoReminder,   \* no reminder in hand
  MaxStalled,   \* BullMQ: how often a job may stall before it is failed
  Limit         \* bound on each kind of event of EventKind

(***************************************************************************)
(* The events that are bounded: chat commands, operator retries, worker    *)
(* crashes, job locks lost by a live worker, runs that fail without a      *)
(* verdict because the row cannot be read or FAILED cannot be written, and *)
(* client requests that die between their row write and their job.         *)
(***************************************************************************)
EventKind == {"command", "retry", "crash", "lostLock", "lostVerdict", "abandon"}

ASSUME WorkersAssumption == IsFiniteSet(Workers)
ASSUME NoWorkerAssumption == NoWorker \notin Workers
ASSUME NoReminderAssumption == NoReminder \notin Reminders
ASSUME MaxStalledAssumption == MaxStalled \in Nat
ASSUME LimitAssumption == Limit \in [EventKind -> Nat]

VARIABLES
  status,     \* the row's status, "NONE" before the row exists
  sentId,     \* is the row's sentMessageId set?
  job,        \* the BullMQ job of the reminder
  lock,       \* worker whose token holds the job's lock
  stalls,     \* how often the job has stalled
  stage,      \* the await a worker's handler is at
  inHand,     \* the reminder a worker's handler works on
  wire,       \* the worker's request to the gateway's dispatch API
  strays,     \* requests whose sender is gone, still to be served
  step,       \* the await a client request is at
  target,     \* the reminder of a client request
  delivered,  \* history: WhatsApp messages sent for the reminder
  retries,    \* history: retries written by the admin API
  faults,     \* history: runs that ended or overlapped without a verdict
  spent       \* events of each bounded kind so far

rowVars    == <<status, sentId>>
queueVars  == <<job, lock, stalls>>
workerVars == <<stage, inHand, wire>>
clientVars == <<step, target>>
pastVars   == <<delivered, retries, faults>>
vars == <<rowVars, queueVars, workerVars, strays, clientVars, pastVars, spent>>

Status == {"NONE", "SCHEDULED", "SENT", "FAILED", "CANCELED"}
JobState == {"none", "waiting", "active", "completed", "failed"}
Stage == {"idle", "load_reminder", "governance_check", "dispatch_gateway",
          "await_gateway", "mark_sent_status", "mark_message",
          "persist_outbound", "mark_failed_status", "audit_failed", "completed"}
Wire == {"none", "requested", "sent", "failed"}
ClientStep == {"idle", "mark_retry", "remove", "retry_remove", "add", "retry_add"}

TypeOK ==
  /\ status    \in [Reminders -> Status]
  /\ sentId    \in [Reminders -> BOOLEAN]
  /\ job       \in [Reminders -> JobState]
  /\ lock      \in [Reminders -> Workers \cup {NoWorker}]
  /\ stalls    \in [Reminders -> Nat]
  /\ stage     \in [Workers -> Stage]
  /\ inHand    \in [Workers -> Reminders \cup {NoReminder}]
  /\ wire      \in [Workers -> Wire]
  /\ strays    \in [Reminders -> Nat]
  /\ step      \in [Clients -> ClientStep]
  /\ target    \in [Clients -> Reminders \cup {NoReminder}]
  /\ delivered \in [Reminders -> Nat]
  /\ retries   \in [Reminders -> Nat]
  /\ faults    \in [Reminders -> Nat]
  /\ spent     \in [EventKind -> Nat]

Init ==
  /\ status    = [r \in Reminders |-> "NONE"]
  /\ sentId    = [r \in Reminders |-> FALSE]
  /\ job       = [r \in Reminders |-> "none"]
  /\ lock      = [r \in Reminders |-> NoWorker]
  /\ stalls    = [r \in Reminders |-> 0]
  /\ stage     = [w \in Workers |-> "idle"]
  /\ inHand    = [w \in Workers |-> NoReminder]
  /\ wire      = [w \in Workers |-> "none"]
  /\ strays    = [r \in Reminders |-> 0]
  /\ step      = [c \in Clients |-> "idle"]
  /\ target    = [c \in Clients |-> NoReminder]
  /\ delivered = [r \in Reminders |-> 0]
  /\ retries   = [r \in Reminders |-> 0]
  /\ faults    = [r \in Reminders |-> 0]
  /\ spent     = [k \in EventKind |-> 0]

Count(f, x) == [f EXCEPT ![x] = @ + 1]

Spend(kind) ==
  /\ spent[kind] < Limit[kind]
  /\ spent' = Count(spent, kind)

-----------------------------------------------------------------------------
(***************************************************************************)
(* Chat commands.  Creating a reminder and moving it to another time write *)
(* the row in the orchestrator; the gateway executes the enqueue_job       *)
(* action afterwards, once the reply has been sent.  Deleting a reminder   *)
(* writes CANCELED whatever the status is and leaves the job alone.        *)
(***************************************************************************)

\* The request moves on to `s`, holding the reminder it is about.
Proceed(c, r, s) ==
  /\ step' = [step EXCEPT ![c] = s]
  /\ target' = [target EXCEPT ![c] = r]

EndRequest(c) == Proceed(c, NoReminder, "idle")

CreateReminder(c, r) ==
  /\ step[c] = "idle"
  /\ status[r] = "NONE"
  /\ Spend("command")
  /\ status' = [status EXCEPT ![r] = "SCHEDULED"]
  /\ Proceed(c, r, "remove")
  /\ UNCHANGED <<sentId, queueVars, workerVars, strays, pastVars>>

\* Variant: an update also puts the row back to SCHEDULED.
UpdateReminderReschedules(c, r) ==
  /\ step[c] = "idle"
  /\ status[r] # "NONE"
  /\ Spend("command")
  /\ status' = [status EXCEPT ![r] = "SCHEDULED"]
  /\ Proceed(c, r, "remove")
  /\ UNCHANGED <<sentId, queueVars, workerVars, strays, pastVars>>

\* An update that sets remindAt re-enqueues the reminder whatever its status.
UpdateReminder(c, r) ==
  /\ step[c] = "idle"
  /\ status[r] # "NONE"
  /\ Spend("command")
  /\ Proceed(c, r, "remove")
  /\ UNCHANGED <<rowVars, queueVars, workerVars, strays, pastVars>>

DeleteReminder(c, r) ==
  /\ step[c] = "idle"
  /\ status[r] # "NONE"
  /\ Spend("command")
  /\ status' = [status EXCEPT ![r] = "CANCELED"]
  /\ UNCHANGED <<sentId, queueVars, workerVars, strays, clientVars, pastVars>>

(***************************************************************************)
(* The admin API's retry endpoint: read the row and refuse anything but    *)
(* FAILED, write SCHEDULED without looking again, then remove and add the  *)
(* job.                                                                    *)
(***************************************************************************)

RetryReadFailed(c, r) ==
  /\ step[c] = "idle"
  /\ status[r] = "FAILED"
  /\ Spend("retry")
  /\ Proceed(c, r, "mark_retry")
  /\ UNCHANGED <<rowVars, queueVars, workerVars, strays, pastVars>>

MarkReminderForRetry(c) ==
  LET r == target[c] IN
  /\ step[c] = "mark_retry"
  /\ status' = [status EXCEPT ![r] = "SCHEDULED"]
  /\ sentId' = [sentId EXCEPT ![r] = FALSE]
  /\ retries' = Count(retries, r)
  /\ Proceed(c, r, "retry_remove")
  /\ UNCHANGED <<queueVars, workerVars, strays, delivered, faults, spent>>

(***************************************************************************)
(* Both enqueuers: queue.remove with its error swallowed, then queue.add   *)
(* under the reminder's id.  BullMQ keeps a locked job on remove, and an   *)
(* add whose id already exists changes nothing.                            *)
(***************************************************************************)

\* Variant: a job is removed although a worker holds its lock.
RemoveJobEvenLocked(c) ==
  LET r == target[c] IN
  /\ step[c] \in {"remove", "retry_remove"}
  /\ job' = [job EXCEPT ![r] = "none"]
  /\ lock' = [lock EXCEPT ![r] = NoWorker]
  /\ Proceed(c, r, IF step[c] = "remove" THEN "add" ELSE "retry_add")
  /\ UNCHANGED <<rowVars, stalls, workerVars, strays, pastVars, spent>>

RemoveJob(c) ==
  LET r == target[c] IN
  /\ step[c] \in {"remove", "retry_remove"}
  /\ job' = IF lock[r] = NoWorker THEN [job EXCEPT ![r] = "none"] ELSE job
  /\ Proceed(c, r, IF step[c] = "remove" THEN "add" ELSE "retry_add")
  /\ UNCHANGED <<rowVars, lock, stalls, workerVars, strays, pastVars, spent>>

AddJob(c) ==
  LET r == target[c] IN
  /\ step[c] \in {"add", "retry_add"}
  /\ IF job[r] = "none"
       THEN /\ job' = [job EXCEPT ![r] = "waiting"]
            /\ stalls' = [stalls EXCEPT ![r] = 0]
       ELSE UNCHANGED <<job, stalls>>
  /\ EndRequest(c)
  /\ UNCHANGED <<rowVars, lock, workerVars, strays, pastVars, spent>>

\* queue.add throws: the retry endpoint puts FAILED back, a command gives up.
AddJobFails(c) ==
  LET r == target[c] IN
  /\ step[c] \in {"add", "retry_add"}
  /\ Spend("abandon")
  /\ status' = IF step[c] = "retry_add"
                 THEN [status EXCEPT ![r] = "FAILED"] ELSE status
  /\ EndRequest(c)
  /\ UNCHANGED <<sentId, queueVars, workerVars, strays, pastVars>>

\* The process dies, or an earlier reply action throws, before the job is added.
AbandonRequest(c) ==
  /\ step[c] # "idle"
  /\ Spend("abandon")
  /\ EndRequest(c)
  /\ UNCHANGED <<rowVars, queueVars, workerVars, strays, pastVars>>

ClientNext(c) ==
  \/ \E r \in Reminders :
        \/ CreateReminder(c, r)
        \/ UpdateReminder(c, r)
        \/ DeleteReminder(c, r)
        \/ RetryReadFailed(c, r)
  \/ MarkReminderForRetry(c)
  \/ RemoveJob(c)
  \/ AddJob(c)
  \/ AddJobFails(c)
  \/ AbandonRequest(c)

-----------------------------------------------------------------------------
(***************************************************************************)
(* BullMQ, as the worker uses it: a fetched job is locked with the         *)
(* worker's token, finishing it needs that token, a lock that is not       *)
(* renewed expires, and an active job without a lock is stalled: it is     *)
(* queued again at most MaxStalled times and then failed.                  *)
(***************************************************************************)

FetchJob(w, r) ==
  /\ stage[w] = "idle"
  /\ job[r] = "waiting"
  /\ job' = [job EXCEPT ![r] = "active"]
  /\ lock' = [lock EXCEPT ![r] = w]
  /\ stage' = [stage EXCEPT ![w] = "load_reminder"]
  /\ inHand' = [inHand EXCEPT ![w] = r]
  /\ UNCHANGED <<rowVars, stalls, wire, strays, clientVars, pastVars, spent>>

\* The lock of a crashed worker runs out.
ExpireDeadLock(r) ==
  /\ lock[r] \in Workers
  /\ inHand[lock[r]] # r
  /\ lock' = [lock EXCEPT ![r] = NoWorker]
  /\ UNCHANGED <<rowVars, job, stalls, workerVars, strays, clientVars, pastVars, spent>>

\* A live worker fails to renew its lock and goes on without knowing.
LoseLock(w) ==
  LET r == inHand[w] IN
  /\ r # NoReminder
  /\ lock[r] = w
  /\ Spend("lostLock")
  /\ lock' = [lock EXCEPT ![r] = NoWorker]
  /\ faults' = Count(faults, r)
  /\ UNCHANGED <<rowVars, job, stalls, workerVars, strays, clientVars, delivered, retries>>

\* Variant: an active job is taken for stalled although its lock is held.
DetectStalledUnderLock(r) ==
  /\ job[r] = "active"
  /\ IF stalls[r] < MaxStalled
       THEN /\ job' = [job EXCEPT ![r] = "waiting"]
            /\ stalls' = Count(stalls, r)
            /\ lock' = [lock EXCEPT ![r] = NoWorker]
       ELSE /\ job' = [job EXCEPT ![r] = "failed"]
            /\ UNCHANGED <<stalls, lock>>
  /\ UNCHANGED <<rowVars, workerVars, strays, clientVars, pastVars, spent>>

\* Variant: a stalled job is failed instead of queued again.
DetectStalledFails(r) ==
  /\ job[r] = "active"
  /\ lock[r] = NoWorker
  /\ job' = [job EXCEPT ![r] = "failed"]
  /\ UNCHANGED <<rowVars, lock, stalls, workerVars, strays, clientVars, pastVars, spent>>

DetectStalled(r) ==
  /\ job[r] = "active"
  /\ lock[r] = NoWorker
  /\ IF stalls[r] < MaxStalled
       THEN /\ job' = [job EXCEPT ![r] = "waiting"]
            /\ stalls' = Count(stalls, r)
       ELSE /\ job' = [job EXCEPT ![r] = "failed"]
            /\ UNCHANGED stalls
  /\ UNCHANGED <<rowVars, lock, workerVars, strays, clientVars, pastVars, spent>>

-----------------------------------------------------------------------------
(***************************************************************************)
(* The worker's handler, processReminderJob.                               *)
(***************************************************************************)

At(w, s) == stage[w] = s
Goto(w, s) == stage' = [stage EXCEPT ![w] = s]

\* Variant: the row's status is not looked at.
LoadReminderUnchecked(w) ==
  /\ At(w, "load_reminder")
  /\ Goto(w, "governance_check")
  /\ UNCHANGED <<rowVars, queueVars, inHand, wire, strays, clientVars, pastVars, spent>>

LoadReminder(w) ==
  /\ At(w, "load_reminder")
  /\ Goto(w, IF status[inHand[w]] = "SCHEDULED" THEN "governance_check" ELSE "completed")
  /\ UNCHANGED <<rowVars, queueVars, inHand, wire, strays, clientVars, pastVars, spent>>

\* The read throws, outside the handler's try: BullMQ fails the job, the row
\* keeps its status.
LoadReminderThrows(w) ==
  /\ At(w, "load_reminder")
  /\ Spend("lostVerdict")
  /\ faults' = Count(faults, inHand[w])
  /\ Goto(w, "audit_failed")
  /\ UNCHANGED <<rowVars, queueVars, inHand, wire, strays, clientVars, delivered, retries>>

\* Throws without a recipient and when the current policy denies the send.
CheckGovernance(w) ==
  /\ At(w, "governance_check")
  /\ \E s \in {"dispatch_gateway", "mark_failed_status"} : Goto(w, s)
  /\ UNCHANGED <<rowVars, queueVars, inHand, wire, strays, clientVars, pastVars, spent>>

DispatchGateway(w) ==
  /\ At(w, "dispatch_gateway")
  /\ Goto(w, "await_gateway")
  /\ wire' = [wire EXCEPT ![w] = "requested"]
  /\ UNCHANGED <<rowVars, queueVars, inHand, strays, clientVars, pastVars, spent>>

\* Variant: any reply counts as a confirmation.
ReceiveReplyUnconfirmed(w) ==
  /\ At(w, "await_gateway")
  /\ wire[w] \in {"sent", "failed"}
  /\ Goto(w, "mark_sent_status")
  /\ wire' = [wire EXCEPT ![w] = "none"]
  /\ UNCHANGED <<rowVars, queueVars, inHand, strays, clientVars, pastVars, spent>>

\* Variant: an unconfirmed send is tried again.
ReceiveReplyRetries(w) ==
  /\ At(w, "await_gateway")
  /\ \/ wire[w] = "sent" /\ Goto(w, "mark_sent_status")
     \/ wire[w] = "failed" /\ Goto(w, "dispatch_gateway")
  /\ wire' = [wire EXCEPT ![w] = "none"]
  /\ UNCHANGED <<rowVars, queueVars, inHand, strays, clientVars, pastVars, spent>>

\* Anything but a confirmed send is thrown.
ReceiveReply(w) ==
  /\ At(w, "await_gateway")
  /\ \/ wire[w] = "sent" /\ Goto(w, "mark_sent_status")
     \/ wire[w] = "failed" /\ Goto(w, "mark_failed_status")
  /\ wire' = [wire EXCEPT ![w] = "none"]
  /\ UNCHANGED <<rowVars, queueVars, inHand, strays, clientVars, pastVars, spent>>

\* Unconditional: whatever the row says by now becomes SENT.
MarkSentStatus(w) ==
  /\ At(w, "mark_sent_status")
  /\ status' = [status EXCEPT ![inHand[w]] = "SENT"]
  /\ Goto(w, "mark_message")
  /\ UNCHANGED <<sentId, queueVars, inHand, wire, strays, clientVars, pastVars, spent>>

MarkReminderMessage(w) ==
  /\ At(w, "mark_message")
  /\ sentId' = [sentId EXCEPT ![inHand[w]] = TRUE]
  /\ Goto(w, "persist_outbound")
  /\ UNCHANGED <<status, queueVars, inHand, wire, strays, clientVars, pastVars, spent>>

\* The conversation log, the metric and the audit event, one failure for all.
PersistOutbound(w) ==
  /\ At(w, "persist_outbound")
  /\ Goto(w, "completed")
  /\ UNCHANGED <<rowVars, queueVars, inHand, wire, strays, clientVars, pastVars, spent>>

\* One of the writes after the send throws; the handler's catch takes over.
WriteThrows(w) ==
  /\ stage[w] \in {"mark_sent_status", "mark_message", "persist_outbound"}
  /\ Goto(w, "mark_failed_status")
  /\ UNCHANGED <<rowVars, queueVars, inHand, wire, strays, clientVars, pastVars, spent>>

\* Variant: the catch writes the audit and leaves the row alone.
MarkFailedStatusForgotten(w) ==
  /\ At(w, "mark_failed_status")
  /\ Goto(w, "audit_failed")
  /\ UNCHANGED <<rowVars, queueVars, inHand, wire, strays, clientVars, pastVars, spent>>

\* The catch: FAILED is written unconditionally, over SENT and CANCELED too.
MarkFailedStatus(w) ==
  /\ At(w, "mark_failed_status")
  /\ status' = [status EXCEPT ![inHand[w]] = "FAILED"]
  /\ Goto(w, "audit_failed")
  /\ UNCHANGED <<sentId, queueVars, inHand, wire, strays, clientVars, pastVars, spent>>

\* The write of FAILED throws and is swallowed.
LoseFailedStatus(w) ==
  /\ At(w, "mark_failed_status")
  /\ Spend("lostVerdict")
  /\ faults' = Count(faults, inHand[w])
  /\ Goto(w, "audit_failed")
  /\ UNCHANGED <<rowVars, queueVars, inHand, wire, strays, clientVars, delivered, retries>>

\* The handler returns, or rejects after the failure's audit: BullMQ finishes
\* the job if this worker still holds its lock.
FinishJob(w) ==
  LET r == inHand[w] IN
  /\ stage[w] \in {"completed", "audit_failed"}
  /\ IF lock[r] = w
       THEN /\ job' = [job EXCEPT ![r] = IF At(w, "completed") THEN "completed" ELSE "failed"]
            /\ lock' = [lock EXCEPT ![r] = NoWorker]
       ELSE UNCHANGED <<job, lock>>
  /\ Goto(w, "idle")
  /\ inHand' = [inHand EXCEPT ![w] = NoReminder]
  /\ UNCHANGED <<rowVars, stalls, wire, strays, clientVars, pastVars, spent>>

\* The process dies and is started again; its job stays active, its request
\* may already be with the gateway.
Crash(w) ==
  LET r == inHand[w] IN
  /\ r # NoReminder
  /\ Spend("crash")
  /\ faults' = Count(faults, r)
  /\ strays' = IF wire[w] = "requested" THEN Count(strays, r) ELSE strays
  /\ wire' = [wire EXCEPT ![w] = "none"]
  /\ Goto(w, "idle")
  /\ inHand' = [inHand EXCEPT ![w] = NoReminder]
  /\ UNCHANGED <<rowVars, queueVars, clientVars, delivered, retries>>

WorkerRun(w) ==
  \/ LoadReminder(w)
  \/ LoadReminderThrows(w)
  \/ CheckGovernance(w)
  \/ DispatchGateway(w)
  \/ ReceiveReply(w)
  \/ MarkSentStatus(w)
  \/ MarkReminderMessage(w)
  \/ PersistOutbound(w)
  \/ WriteThrows(w)
  \/ MarkFailedStatus(w)
  \/ LoseFailedStatus(w)
  \/ FinishJob(w)

-----------------------------------------------------------------------------
(***************************************************************************)
(* wa-gateway's internal dispatch API: one WhatsApp send per request, no   *)
(* memory of earlier requests for the same reminder.                       *)
(***************************************************************************)

GatewaySends(w) ==
  /\ wire[w] = "requested"
  /\ wire' = [wire EXCEPT ![w] = "sent"]
  /\ delivered' = Count(delivered, inHand[w])
  /\ UNCHANGED <<rowVars, queueVars, stage, inHand, strays, clientVars, retries, faults, spent>>

\* No socket, a refused or invalid request, a send that WhatsApp rejects.
GatewayFails(w) ==
  /\ wire[w] = "requested"
  /\ wire' = [wire EXCEPT ![w] = "failed"]
  /\ UNCHANGED <<rowVars, queueVars, stage, inHand, strays, clientVars, pastVars, spent>>

\* The worker's fetch throws: the request may still be served, or the send
\* has happened and its reply is lost.
LoseConnection(w) ==
  /\ wire[w] \in {"requested", "sent"}
  /\ wire' = [wire EXCEPT ![w] = "failed"]
  /\ strays' = IF wire[w] = "requested" THEN Count(strays, inHand[w]) ELSE strays
  /\ UNCHANGED <<rowVars, queueVars, stage, inHand, clientVars, pastVars, spent>>

\* Variant: a request may be served that was never left behind.
ServeStrayTwice(r) ==
  /\ strays' = [strays EXCEPT ![r] = @ - 1]
  /\ \/ delivered' = Count(delivered, r)
     \/ UNCHANGED delivered
  /\ UNCHANGED <<rowVars, queueVars, workerVars, clientVars, retries, faults, spent>>

\* The gateway serves, or drops, a request nobody waits for.
ServeStray(r) ==
  /\ strays[r] > 0
  /\ strays' = [strays EXCEPT ![r] = @ - 1]
  /\ \/ delivered' = Count(delivered, r)
     \/ UNCHANGED delivered
  /\ UNCHANGED <<rowVars, queueVars, workerVars, clientVars, retries, faults, spent>>

GatewayServes(w) ==
  \/ GatewaySends(w)
  \/ GatewayFails(w)
  \/ LoseConnection(w)

-----------------------------------------------------------------------------
QueueNext ==
  \E r \in Reminders :
    \/ ExpireDeadLock(r)
    \/ DetectStalled(r)
    \/ ServeStray(r)
    \/ \E w \in Workers : FetchJob(w, r)

WorkerNext(w) ==
  \/ WorkerRun(w)
  \/ GatewayServes(w)
  \/ LoseLock(w)
  \/ Crash(w)

Next ==
  \/ \E c \in Clients : ClientNext(c)
  \/ \E w \in Workers : WorkerNext(w)
  \/ QueueNext

Spec == Init /\ [][Next]_vars

(***************************************************************************)
(* Fairness.  A handler's awaits all settle (the database, Redis and an    *)
(* HTTP request answer or throw), a request in progress goes on to its     *)
(* job unless it is abandoned, and BullMQ's worker keeps fetching jobs,    *)
(* expiring locks and looking for stalled jobs.  Nobody must issue a       *)
(* command, crash, or lose a verdict.                                      *)
(***************************************************************************)
Fairness ==
  /\ \A w \in Workers :
       /\ WF_vars(WorkerRun(w))
       /\ WF_vars(GatewayServes(w))
  /\ \A w \in Workers, r \in Reminders : WF_vars(FetchJob(w, r))
  /\ \A r \in Reminders :
       /\ WF_vars(ExpireDeadLock(r))
       /\ WF_vars(DetectStalled(r))
  /\ \A c \in Clients :
       /\ WF_vars(RemoveJob(c))
       /\ WF_vars(AddJob(c))

FairSpec == Spec /\ Fairness

-----------------------------------------------------------------------------
(***************************************************************************)
(* Properties.                                                             *)
(***************************************************************************)

\* Messages a reminder may cause: one for its creation, one for every retry
\* an operator wrote, one for every run that ended without its verdict.
Allowance(r) ==
  (IF status[r] = "NONE" THEN 0 ELSE 1) + retries[r] + faults[r]

\* A row that says SENT, or carries the id of a message, was delivered: the
\* worker's confirmation check, through every race of its writes with
\* retries, cancellations and other runs (process-reminder-job.ts).
SentWasDelivered ==
  \A r \in Reminders : status[r] = "SENT" \/ sentId[r] => delivered[r] > 0

\* No message is sent that is not accounted for: the job id, the job lock and
\* the status check together let a reminder out once per creation, retry or
\* fault, whatever updates and retries re-enqueue meanwhile.
DeliveriesArePaid ==
  \A r \in Reminders : delivered[r] <= Allowance(r)

\* As long as no worker crashed on a reminder, lost its lock or its verdict,
\* at most one handler works on it, re-enqueues of an active job included.
OneRunWithoutFault ==
  \A r \in Reminders :
    faults[r] = 0 =>
      \A v, w \in Workers : inHand[v] = r /\ inHand[w] = r => v = w

\* Without faults, abandoned requests and retries a SCHEDULED row is never
\* orphaned: its job is queued, being worked on, or about to be added.
ScheduledIsQueued ==
  \A r \in Reminders :
    /\ status[r] = "SCHEDULED"
    /\ faults[r] = 0
    /\ retries[r] = 0
    /\ spent["abandon"] = 0
    => \/ job[r] = "waiting"
       \/ \E c \in Clients : target[c] = r
       \/ \E w \in Workers : inHand[w] = r

\* No handler that has read the row as SCHEDULED, no request with the gateway
\* and no retry in progress is left from before the cancellation.
CancelSettled(r) ==
  /\ status[r] = "CANCELED"
  /\ strays[r] = 0
  /\ \A w \in Workers :
       inHand[w] = r => stage[w] \in {"load_reminder", "completed", "audit_failed"}
  /\ \A c \in Clients : target[c] = r => step[c] \in {"remove", "add"}

\* From then on the cancellation holds: the row stays CANCELED and nothing is
\* delivered, although the job was left in the queue (deleteReminder).
CancelHolds ==
  [][\A r \in Reminders :
       CancelSettled(r) => CancelSettled(r)' /\ delivered'[r] = delivered[r]]_vars

\* Only the retry endpoint brings a row back to SCHEDULED: an update of a
\* reminder that was sent, failed or canceled does not revive it.
ReopenOnlyByRetry ==
  [][\A r \in Reminders :
       status[r] \notin {"NONE", "SCHEDULED"} /\ status'[r] = "SCHEDULED"
         => retries'[r] = retries[r] + 1]_vars

\* What the reminder subsystem promises to the rest of the system.
Ledger == INSTANCE DeliveryLedger
            WITH allowance <- [r \in Reminders |-> Allowance(r)]

\* The subsystem implements that promise, step by step.
ImplementsLedger == Ledger!Spec

\* Every scheduled reminder is sent, failed or canceled in the end, although
\* a worker may crash on it: BullMQ queues the stalled job again.
ScheduledIsSettled ==
  \A r \in Reminders : status[r] = "SCHEDULED" ~> status[r] # "SCHEDULED"

-----------------------------------------------------------------------------
(***************************************************************************)
(* The inductive invariant behind the safety properties.                   *)
(***************************************************************************)

\* A request in progress has a reminder, a handler at work has one too, only
\* a handler at await_gateway has a request out, and only an active job is
\* locked.
Consistent ==
  /\ \A c \in Clients : step[c] = "idle" <=> target[c] = NoReminder
  /\ \A w \in Workers : stage[w] = "idle" <=> inHand[w] = NoReminder
  /\ \A w \in Workers : wire[w] # "none" => stage[w] = "await_gateway"
  /\ \A r \in Reminders : job[r] # "active" => lock[r] = NoWorker

\* Before a row exists nothing is under way for it.
Untouched ==
  \A r \in Reminders :
    status[r] = "NONE" =>
      /\ job[r] = "none"
      /\ strays[r] = 0
      /\ \A w \in Workers : inHand[w] # r
      /\ \A c \in Clients : target[c] # r

\* A confirmation means a message, and so does what is written after it.
Confirmed ==
  \A w \in Workers :
    \/ wire[w] = "sent"
    \/ stage[w] \in {"mark_sent_status", "mark_message", "persist_outbound"}
    => delivered[inHand[w]] > 0

\* Without a fault a handler holds the lock of the job it works on.
LockedRuns ==
  \A r \in Reminders :
    faults[r] = 0 => \A w \in Workers : inHand[w] = r => lock[r] = w

\* The handler of w may still send a message for r: it has seen SCHEDULED and
\* not been answered, or it may yet see it although it has lost the lock.
MaySend(w, r) ==
  /\ inHand[w] = r
  /\ \/ stage[w] = "load_reminder" /\ lock[r] # w
     \/ stage[w] \in {"governance_check", "dispatch_gateway"}
     \/ wire[w] = "requested"

Senders(r) == {w \in Workers : MaySend(w, r)}

\* The run that holds the lock will write a verdict over SCHEDULED.
Claimed(r) ==
  \E w \in Workers :
    /\ lock[r] = w
    /\ inHand[w] = r
    /\ stage[w] \in {"governance_check", "dispatch_gateway", "await_gateway",
                     "mark_sent_status", "mark_failed_status"}

\* A further run of the reminder would find it SCHEDULED.
Open(r) == status[r] = "SCHEDULED" /\ ~Claimed(r)

\* Messages sent, under way, and still possible never exceed the allowance.
Account ==
  \A r \in Reminders :
    delivered[r] + strays[r] + Cardinality(Senders(r)) + (IF Open(r) THEN 1 ELSE 0)
      <= Allowance(r)

\* Nothing has gone wrong with the reminder, no request has been abandoned and
\* no operator has retried it.
Smooth(r) == faults[r] = 0 /\ retries[r] = 0 /\ spent["abandon"] = 0

\* Without a fault an active job is the one a live handler works on.
ActiveIsRun ==
  \A r \in Reminders :
    faults[r] = 0 /\ job[r] = "active" => \E w \in Workers : lock[r] = w /\ inHand[w] = r

\* Of a row that still says SCHEDULED no job has ended, and where there is none
\* a request is about to add it.
ScheduledHasJob ==
  \A r \in Reminders :
    Smooth(r) /\ status[r] = "SCHEDULED" =>
      /\ job[r] \in {"none", "waiting", "active"}
      /\ job[r] = "none" => \E c \in Clients : target[c] = r

\* The handlers at work on such a row have yet to read it or to write a verdict.
ScheduledAwaitsVerdict ==
  \A r \in Reminders :
    Smooth(r) /\ status[r] = "SCHEDULED" =>
      \A w \in Workers : inHand[w] = r =>
        stage[w] \in {"load_reminder", "governance_check", "dispatch_gateway",
                      "await_gateway", "mark_sent_status", "mark_failed_status"}

=============================================================================
