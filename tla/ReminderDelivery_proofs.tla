----------------------- MODULE ReminderDelivery_proofs -----------------------
(***************************************************************************)
(* Proofs about ReminderDelivery, for any number of reminders, workers and *)
(* requests, any stall limit and any bound on the events.                  *)
(***************************************************************************)
EXTENDS ReminderDelivery, FiniteSetTheorems, TLAPS

USE DEF At, Goto, Proceed, EndRequest, Spend,
        rowVars, queueVars, workerVars, clientVars, pastVars

-----------------------------------------------------------------------------
(***************************************************************************)
(* Type correctness.                                                       *)
(***************************************************************************)

USE DEF Status, JobState, Stage, Wire, ClientStep, EventKind

\* Counting one more keeps a function into the naturals, whatever is counted.
LEMMA CountType ==
  ASSUME NEW S, NEW f \in [S -> Nat], NEW x
  PROVE  Count(f, x) \in [S -> Nat]
<1>1. CASE x \in S
  <2>1. f[x] + 1 \in Nat
    BY <1>1
  <2> QED
    BY <1>1, <2>1 DEF Count
<1>2. CASE x \notin S
  <2>1. Count(f, x) = f
    BY <1>2 DEF Count
  <2> QED
    BY <2>1
<1> QED
  BY <1>1, <1>2

LEMMA TypeInit == Init => TypeOK
  BY LimitAssumption DEF Init, TypeOK

LEMMA TypeClient ==
  ASSUME TypeOK, NEW c \in Clients, ClientNext(c)
  PROVE  TypeOK'
<1>1. ASSUME NEW r \in Reminders, CreateReminder(c, r) PROVE TypeOK'
  BY <1>1, CountType DEF TypeOK, CreateReminder
<1>2. ASSUME NEW r \in Reminders, UpdateReminder(c, r) PROVE TypeOK'
  BY <1>2, CountType DEF TypeOK, UpdateReminder
<1>3. ASSUME NEW r \in Reminders, DeleteReminder(c, r) PROVE TypeOK'
  BY <1>3, CountType DEF TypeOK, DeleteReminder
<1>4. ASSUME NEW r \in Reminders, RetryReadFailed(c, r) PROVE TypeOK'
  BY <1>4, CountType DEF TypeOK, RetryReadFailed
<1>5. CASE MarkReminderForRetry(c)
  BY <1>5, CountType DEF TypeOK, MarkReminderForRetry
<1>6. CASE RemoveJob(c)
  BY <1>6 DEF TypeOK, RemoveJob
<1>7. CASE AddJob(c)
  BY <1>7 DEF TypeOK, AddJob
<1>8. CASE AddJobFails(c)
  BY <1>8, CountType DEF TypeOK, AddJobFails
<1>9. CASE AbandonRequest(c)
  BY <1>9, CountType DEF TypeOK, AbandonRequest
<1> QED
  BY <1>1, <1>2, <1>3, <1>4, <1>5, <1>6, <1>7, <1>8, <1>9 DEF ClientNext

LEMMA TypeWorker ==
  ASSUME TypeOK, NEW w \in Workers, WorkerNext(w)
  PROVE  TypeOK'
<1>1. CASE LoadReminder(w)
  BY <1>1 DEF TypeOK, LoadReminder
<1>2. CASE CheckGovernance(w)
  BY <1>2 DEF TypeOK, CheckGovernance
<1>3. CASE DispatchGateway(w)
  BY <1>3 DEF TypeOK, DispatchGateway
<1>4. CASE ReceiveReply(w)
  BY <1>4 DEF TypeOK, ReceiveReply
<1>5. CASE MarkSentStatus(w)
  BY <1>5 DEF TypeOK, MarkSentStatus
<1>6. CASE MarkReminderMessage(w)
  BY <1>6 DEF TypeOK, MarkReminderMessage
<1>7. CASE PersistOutbound(w)
  BY <1>7 DEF TypeOK, PersistOutbound
<1>8. CASE WriteThrows(w)
  BY <1>8 DEF TypeOK, WriteThrows
<1>9. CASE MarkFailedStatus(w)
  BY <1>9 DEF TypeOK, MarkFailedStatus
<1>10. CASE LoseFailedStatus(w)
  BY <1>10, CountType DEF TypeOK, LoseFailedStatus
<1>11. CASE FinishJob(w)
  BY <1>11 DEF TypeOK, FinishJob
<1>12. CASE GatewaySends(w)
  BY <1>12, CountType DEF TypeOK, GatewaySends
<1>13. CASE GatewayFails(w)
  BY <1>13 DEF TypeOK, GatewayFails
<1>14. CASE LoseConnection(w)
  BY <1>14, CountType DEF TypeOK, LoseConnection
<1>15. CASE LoseLock(w)
  BY <1>15, CountType DEF TypeOK, LoseLock
<1>16. CASE Crash(w)
  BY <1>16, CountType DEF TypeOK, Crash
<1>17. CASE LoadReminderThrows(w)
  BY <1>17, CountType DEF TypeOK, LoadReminderThrows
<1> QED
  BY <1>1, <1>2, <1>3, <1>4, <1>5, <1>6, <1>7, <1>8, <1>9, <1>10, <1>11,
     <1>12, <1>13, <1>14, <1>15, <1>16, <1>17
  DEF WorkerNext, WorkerRun, GatewayServes

LEMMA TypeQueue ==
  ASSUME TypeOK, QueueNext
  PROVE  TypeOK'
<1>1. ASSUME NEW r \in Reminders, ExpireDeadLock(r) PROVE TypeOK'
  BY <1>1 DEF TypeOK, ExpireDeadLock
<1>2. ASSUME NEW r \in Reminders, DetectStalled(r) PROVE TypeOK'
  BY <1>2, CountType DEF TypeOK, DetectStalled
<1>3. ASSUME NEW r \in Reminders, ServeStray(r) PROVE TypeOK'
  BY <1>3, CountType DEF TypeOK, ServeStray
<1>4. ASSUME NEW r \in Reminders, NEW w \in Workers, FetchJob(w, r) PROVE TypeOK'
  BY <1>4 DEF TypeOK, FetchJob
<1> QED
  BY <1>1, <1>2, <1>3, <1>4 DEF QueueNext

LEMMA TypeStep == TypeOK /\ [Next]_vars => TypeOK'
<1>1. ASSUME TypeOK, UNCHANGED vars PROVE TypeOK'
  BY <1>1 DEF TypeOK, vars
<1> QED
  BY <1>1, TypeClient, TypeWorker, TypeQueue DEF Next

\* Every behaviour of the subsystem keeps its variables in their types.
THEOREM TypeCorrect == Spec => []TypeOK
  BY TypeInit, TypeStep, PTL DEF Spec

-----------------------------------------------------------------------------
(***************************************************************************)
(* The part of the inductive invariant that needs no counting.  Each step  *)
(* is proved to preserve the four conjuncts separately.                    *)
(***************************************************************************)

Structure == Consistent /\ Untouched /\ Confirmed /\ LockedRuns

LEMMA StructureInit == Init => Structure
  BY NoWorkerAssumption, NoReminderAssumption
  DEF Init, Structure, Consistent, Untouched, Confirmed, LockedRuns

LEMMA StructureClient ==
  ASSUME TypeOK, Structure, NEW c \in Clients, ClientNext(c)
  PROVE  Structure'
<1>1. ASSUME NEW r \in Reminders, CreateReminder(c, r) PROVE Structure'
  <2>1. Consistent'
    BY <1>1, NoReminderAssumption
    DEF Structure, TypeOK, Consistent, CreateReminder
  <2>2. Untouched'
    BY <1>1 DEF Structure, TypeOK, Untouched, CreateReminder
  <2>3. Confirmed'
    BY <1>1 DEF Structure, TypeOK, Confirmed, CreateReminder
  <2>4. LockedRuns'
    BY <1>1 DEF Structure, TypeOK, LockedRuns, CreateReminder
  <2> QED
    BY <2>1, <2>2, <2>3, <2>4 DEF Structure
<1>2. ASSUME NEW r \in Reminders, UpdateReminder(c, r) PROVE Structure'
  <2>1. Consistent'
    BY <1>2, NoReminderAssumption
    DEF Structure, TypeOK, Consistent, UpdateReminder
  <2>2. Untouched'
    BY <1>2 DEF Structure, TypeOK, Untouched, UpdateReminder
  <2>3. Confirmed'
    BY <1>2 DEF Structure, TypeOK, Confirmed, UpdateReminder
  <2>4. LockedRuns'
    BY <1>2 DEF Structure, TypeOK, LockedRuns, UpdateReminder
  <2> QED
    BY <2>1, <2>2, <2>3, <2>4 DEF Structure
<1>3. ASSUME NEW r \in Reminders, DeleteReminder(c, r) PROVE Structure'
  <2>1. Consistent'
    BY <1>3 DEF Structure, TypeOK, Consistent, DeleteReminder
  <2>2. Untouched'
    BY <1>3 DEF Structure, TypeOK, Untouched, DeleteReminder
  <2>3. Confirmed'
    BY <1>3 DEF Structure, TypeOK, Confirmed, DeleteReminder
  <2>4. LockedRuns'
    BY <1>3 DEF Structure, TypeOK, LockedRuns, DeleteReminder
  <2> QED
    BY <2>1, <2>2, <2>3, <2>4 DEF Structure
<1>4. ASSUME NEW r \in Reminders, RetryReadFailed(c, r) PROVE Structure'
  <2>1. Consistent'
    BY <1>4, NoReminderAssumption
    DEF Structure, TypeOK, Consistent, RetryReadFailed
  <2>2. Untouched'
    BY <1>4 DEF Structure, TypeOK, Untouched, RetryReadFailed
  <2>3. Confirmed'
    BY <1>4 DEF Structure, TypeOK, Confirmed, RetryReadFailed
  <2>4. LockedRuns'
    BY <1>4 DEF Structure, TypeOK, LockedRuns, RetryReadFailed
  <2> QED
    BY <2>1, <2>2, <2>3, <2>4 DEF Structure
<1>5. CASE MarkReminderForRetry(c)
  <2>1. Consistent'
    BY <1>5 DEF Structure, TypeOK, Consistent, MarkReminderForRetry
  <2>2. Untouched'
    BY <1>5 DEF Structure, TypeOK, Untouched, MarkReminderForRetry
  <2>3. Confirmed'
    BY <1>5 DEF Structure, TypeOK, Confirmed, MarkReminderForRetry
  <2>4. LockedRuns'
    BY <1>5 DEF Structure, TypeOK, LockedRuns, MarkReminderForRetry
  <2> QED
    BY <2>1, <2>2, <2>3, <2>4 DEF Structure
<1>6. CASE RemoveJob(c)
  <2>1. Consistent'
    BY <1>6 DEF Structure, TypeOK, Consistent, RemoveJob
  <2>2. Untouched'
    BY <1>6 DEF Structure, TypeOK, Untouched, RemoveJob
  <2>3. Confirmed'
    BY <1>6 DEF Structure, TypeOK, Confirmed, RemoveJob
  <2>4. LockedRuns'
    BY <1>6 DEF Structure, TypeOK, LockedRuns, RemoveJob
  <2> QED
    BY <2>1, <2>2, <2>3, <2>4 DEF Structure
<1>7. CASE AddJob(c)
  <2>1. Consistent'
    BY <1>7 DEF Structure, TypeOK, Consistent, AddJob
  <2>2. Untouched'
    BY <1>7, NoReminderAssumption
    DEF Structure, TypeOK, Untouched, AddJob, Consistent
  <2>3. Confirmed'
    BY <1>7 DEF Structure, TypeOK, Confirmed, AddJob
  <2>4. LockedRuns'
    BY <1>7 DEF Structure, TypeOK, LockedRuns, AddJob
  <2> QED
    BY <2>1, <2>2, <2>3, <2>4 DEF Structure
<1>8. CASE AddJobFails(c)
  <2>1. Consistent'
    BY <1>8 DEF Structure, TypeOK, Consistent, AddJobFails
  <2>2. Untouched'
    BY <1>8, NoReminderAssumption
    DEF Structure, TypeOK, Untouched, AddJobFails, Consistent
  <2>3. Confirmed'
    BY <1>8 DEF Structure, TypeOK, Confirmed, AddJobFails
  <2>4. LockedRuns'
    BY <1>8 DEF Structure, TypeOK, LockedRuns, AddJobFails
  <2> QED
    BY <2>1, <2>2, <2>3, <2>4 DEF Structure
<1>9. CASE AbandonRequest(c)
  <2>1. Consistent'
    BY <1>9 DEF Structure, TypeOK, Consistent, AbandonRequest
  <2>2. Untouched'
    BY <1>9, NoReminderAssumption
    DEF Structure, TypeOK, Untouched, AbandonRequest, Consistent
  <2>3. Confirmed'
    BY <1>9 DEF Structure, TypeOK, Confirmed, AbandonRequest
  <2>4. LockedRuns'
    BY <1>9 DEF Structure, TypeOK, LockedRuns, AbandonRequest
  <2> QED
    BY <2>1, <2>2, <2>3, <2>4 DEF Structure
<1> QED
  BY <1>1, <1>2, <1>3, <1>4, <1>5, <1>6, <1>7, <1>8, <1>9
  DEF ClientNext

LEMMA StructureWorker ==
  ASSUME TypeOK, Structure, NEW w \in Workers, WorkerNext(w)
  PROVE  Structure'
<1>1. CASE LoadReminder(w)
  <2>1. Consistent'
    BY <1>1 DEF Structure, TypeOK, Consistent, LoadReminder
  <2>2. Untouched'
    BY <1>1 DEF Structure, TypeOK, Untouched, LoadReminder
  <2>3. Confirmed'
    BY <1>1 DEF Structure, TypeOK, Confirmed, LoadReminder
  <2>4. LockedRuns'
    BY <1>1 DEF Structure, TypeOK, LockedRuns, LoadReminder
  <2> QED
    BY <2>1, <2>2, <2>3, <2>4 DEF Structure
<1>2. CASE CheckGovernance(w)
  <2>1. Consistent'
    BY <1>2 DEF Structure, TypeOK, Consistent, CheckGovernance
  <2>2. Untouched'
    BY <1>2 DEF Structure, TypeOK, Untouched, CheckGovernance
  <2>3. Confirmed'
    BY <1>2 DEF Structure, TypeOK, Confirmed, CheckGovernance
  <2>4. LockedRuns'
    BY <1>2 DEF Structure, TypeOK, LockedRuns, CheckGovernance
  <2> QED
    BY <2>1, <2>2, <2>3, <2>4 DEF Structure
<1>3. CASE DispatchGateway(w)
  <2>1. Consistent'
    BY <1>3 DEF Structure, TypeOK, Consistent, DispatchGateway
  <2>2. Untouched'
    BY <1>3 DEF Structure, TypeOK, Untouched, DispatchGateway
  <2>3. Confirmed'
    BY <1>3 DEF Structure, TypeOK, Confirmed, DispatchGateway
  <2>4. LockedRuns'
    BY <1>3 DEF Structure, TypeOK, LockedRuns, DispatchGateway
  <2> QED
    BY <2>1, <2>2, <2>3, <2>4 DEF Structure
<1>4. CASE ReceiveReply(w)
  <2>1. Consistent'
    BY <1>4 DEF Structure, TypeOK, Consistent, ReceiveReply
  <2>2. Untouched'
    BY <1>4 DEF Structure, TypeOK, Untouched, ReceiveReply
  <2>3. Confirmed'
    BY <1>4 DEF Structure, TypeOK, Confirmed, ReceiveReply
  <2>4. LockedRuns'
    BY <1>4 DEF Structure, TypeOK, LockedRuns, ReceiveReply
  <2> QED
    BY <2>1, <2>2, <2>3, <2>4 DEF Structure
<1>5. CASE MarkSentStatus(w)
  <2>1. Consistent'
    BY <1>5 DEF Structure, TypeOK, Consistent, MarkSentStatus
  <2>2. Untouched'
    BY <1>5 DEF Structure, TypeOK, Untouched, MarkSentStatus
  <2>3. Confirmed'
    BY <1>5 DEF Structure, TypeOK, Confirmed, MarkSentStatus
  <2>4. LockedRuns'
    BY <1>5 DEF Structure, TypeOK, LockedRuns, MarkSentStatus
  <2> QED
    BY <2>1, <2>2, <2>3, <2>4 DEF Structure
<1>6. CASE MarkReminderMessage(w)
  <2>1. Consistent'
    BY <1>6 DEF Structure, TypeOK, Consistent, MarkReminderMessage
  <2>2. Untouched'
    BY <1>6 DEF Structure, TypeOK, Untouched, MarkReminderMessage
  <2>3. Confirmed'
    BY <1>6 DEF Structure, TypeOK, Confirmed, MarkReminderMessage
  <2>4. LockedRuns'
    BY <1>6 DEF Structure, TypeOK, LockedRuns, MarkReminderMessage
  <2> QED
    BY <2>1, <2>2, <2>3, <2>4 DEF Structure
<1>7. CASE PersistOutbound(w)
  <2>1. Consistent'
    BY <1>7 DEF Structure, TypeOK, Consistent, PersistOutbound
  <2>2. Untouched'
    BY <1>7 DEF Structure, TypeOK, Untouched, PersistOutbound
  <2>3. Confirmed'
    BY <1>7 DEF Structure, TypeOK, Confirmed, PersistOutbound
  <2>4. LockedRuns'
    BY <1>7 DEF Structure, TypeOK, LockedRuns, PersistOutbound
  <2> QED
    BY <2>1, <2>2, <2>3, <2>4 DEF Structure
<1>8. CASE WriteThrows(w)
  <2>1. Consistent'
    BY <1>8 DEF Structure, TypeOK, Consistent, WriteThrows
  <2>2. Untouched'
    BY <1>8 DEF Structure, TypeOK, Untouched, WriteThrows
  <2>3. Confirmed'
    BY <1>8 DEF Structure, TypeOK, Confirmed, WriteThrows
  <2>4. LockedRuns'
    BY <1>8 DEF Structure, TypeOK, LockedRuns, WriteThrows
  <2> QED
    BY <2>1, <2>2, <2>3, <2>4 DEF Structure
<1>9. CASE MarkFailedStatus(w)
  <2>1. Consistent'
    BY <1>9 DEF Structure, TypeOK, Consistent, MarkFailedStatus
  <2>2. Untouched'
    BY <1>9 DEF Structure, TypeOK, Untouched, MarkFailedStatus
  <2>3. Confirmed'
    BY <1>9 DEF Structure, TypeOK, Confirmed, MarkFailedStatus
  <2>4. LockedRuns'
    BY <1>9 DEF Structure, TypeOK, LockedRuns, MarkFailedStatus
  <2> QED
    BY <2>1, <2>2, <2>3, <2>4 DEF Structure
<1>10. CASE LoseFailedStatus(w)
  <2>1. Consistent'
    BY <1>10 DEF Structure, TypeOK, Consistent, LoseFailedStatus
  <2>2. Untouched'
    BY <1>10 DEF Structure, TypeOK, Untouched, LoseFailedStatus
  <2>3. Confirmed'
    BY <1>10 DEF Structure, TypeOK, Confirmed, LoseFailedStatus
  <2>4. LockedRuns'
    BY <1>10
    DEF Structure, TypeOK, LockedRuns, LoseFailedStatus, Consistent, Count
  <2> QED
    BY <2>1, <2>2, <2>3, <2>4 DEF Structure
<1>11. CASE FinishJob(w)
  <2>1. Consistent'
    BY <1>11 DEF Structure, TypeOK, Consistent, FinishJob
  <2>2. Untouched'
    BY <1>11, NoReminderAssumption DEF Structure, TypeOK, Untouched, FinishJob
  <2>3. Confirmed'
    BY <1>11, NoReminderAssumption
    DEF Structure, TypeOK, Confirmed, FinishJob, Consistent, LockedRuns
  <2>4. LockedRuns'
    BY <1>11, NoReminderAssumption, NoWorkerAssumption
    DEF Structure, TypeOK, LockedRuns, FinishJob, Consistent
  <2> QED
    BY <2>1, <2>2, <2>3, <2>4 DEF Structure
<1>12. CASE GatewaySends(w)
  <2>1. Consistent'
    BY <1>12 DEF Structure, TypeOK, Consistent, GatewaySends
  <2>2. Untouched'
    BY <1>12 DEF Structure, TypeOK, Untouched, GatewaySends
  <2>3. Confirmed'
    BY <1>12, NoReminderAssumption
    DEF Structure, TypeOK, Confirmed, GatewaySends, Consistent, Count
  <2>4. LockedRuns'
    BY <1>12 DEF Structure, TypeOK, LockedRuns, GatewaySends
  <2> QED
    BY <2>1, <2>2, <2>3, <2>4 DEF Structure
<1>13. CASE GatewayFails(w)
  <2>1. Consistent'
    BY <1>13 DEF Structure, TypeOK, Consistent, GatewayFails
  <2>2. Untouched'
    BY <1>13 DEF Structure, TypeOK, Untouched, GatewayFails
  <2>3. Confirmed'
    BY <1>13 DEF Structure, TypeOK, Confirmed, GatewayFails
  <2>4. LockedRuns'
    BY <1>13 DEF Structure, TypeOK, LockedRuns, GatewayFails
  <2> QED
    BY <2>1, <2>2, <2>3, <2>4 DEF Structure
<1>14. CASE LoseConnection(w)
  <2>1. Consistent'
    BY <1>14 DEF Structure, TypeOK, Consistent, LoseConnection
  <2>2. Untouched'
    BY <1>14, NoReminderAssumption
    DEF Structure, TypeOK, Untouched, LoseConnection, Consistent, Count
  <2>3. Confirmed'
    BY <1>14 DEF Structure, TypeOK, Confirmed, LoseConnection
  <2>4. LockedRuns'
    BY <1>14 DEF Structure, TypeOK, LockedRuns, LoseConnection
  <2> QED
    BY <2>1, <2>2, <2>3, <2>4 DEF Structure
<1>15. CASE LoseLock(w)
  <2>1. Consistent'
    BY <1>15 DEF Structure, TypeOK, Consistent, LoseLock
  <2>2. Untouched'
    BY <1>15 DEF Structure, TypeOK, Untouched, LoseLock
  <2>3. Confirmed'
    BY <1>15 DEF Structure, TypeOK, Confirmed, LoseLock
  <2>4. LockedRuns'
    BY <1>15, NoReminderAssumption
    DEF Structure, TypeOK, LockedRuns, LoseLock, Consistent, Count
  <2> QED
    BY <2>1, <2>2, <2>3, <2>4 DEF Structure
<1>16. CASE Crash(w)
  <2>1. Consistent'
    BY <1>16 DEF Structure, TypeOK, Consistent, Crash
  <2>2. Untouched'
    BY <1>16, NoReminderAssumption
    DEF Structure, TypeOK, Untouched, Crash, Consistent, Count
  <2>3. Confirmed'
    BY <1>16 DEF Structure, TypeOK, Confirmed, Crash
  <2>4. LockedRuns'
    BY <1>16, NoReminderAssumption
    DEF Structure, TypeOK, LockedRuns, Crash, Consistent, Count
  <2> QED
    BY <2>1, <2>2, <2>3, <2>4 DEF Structure
<1>17. CASE LoadReminderThrows(w)
  <2>1. Consistent'
    BY <1>17 DEF Structure, TypeOK, Consistent, LoadReminderThrows
  <2>2. Untouched'
    BY <1>17 DEF Structure, TypeOK, Untouched, LoadReminderThrows
  <2>3. Confirmed'
    BY <1>17 DEF Structure, TypeOK, Confirmed, LoadReminderThrows
  <2>4. LockedRuns'
    BY <1>17 DEF Structure, TypeOK, LockedRuns, LoadReminderThrows, Consistent, Count
  <2> QED
    BY <2>1, <2>2, <2>3, <2>4 DEF Structure
<1> QED
  BY <1>1, <1>2, <1>3, <1>4, <1>5, <1>6, <1>7, <1>8, <1>9, <1>10, <1>11,
     <1>12, <1>13, <1>14, <1>15, <1>16, <1>17
  DEF WorkerNext, WorkerRun, GatewayServes

LEMMA StructureQueue ==
  ASSUME TypeOK, Structure, QueueNext
  PROVE  Structure'
<1>1. ASSUME NEW r \in Reminders, ExpireDeadLock(r) PROVE Structure'
  <2>1. Consistent'
    BY <1>1 DEF Structure, TypeOK, Consistent, ExpireDeadLock
  <2>2. Untouched'
    BY <1>1 DEF Structure, TypeOK, Untouched, ExpireDeadLock
  <2>3. Confirmed'
    BY <1>1 DEF Structure, TypeOK, Confirmed, ExpireDeadLock
  <2>4. LockedRuns'
    BY <1>1 DEF Structure, TypeOK, LockedRuns, ExpireDeadLock
  <2> QED
    BY <2>1, <2>2, <2>3, <2>4 DEF Structure
<1>2. ASSUME NEW r \in Reminders, DetectStalled(r) PROVE Structure'
  <2>1. Consistent'
    BY <1>2 DEF Structure, TypeOK, Consistent, DetectStalled
  <2>2. Untouched'
    BY <1>2 DEF Structure, TypeOK, Untouched, DetectStalled
  <2>3. Confirmed'
    BY <1>2 DEF Structure, TypeOK, Confirmed, DetectStalled
  <2>4. LockedRuns'
    BY <1>2 DEF Structure, TypeOK, LockedRuns, DetectStalled
  <2> QED
    BY <2>1, <2>2, <2>3, <2>4 DEF Structure
<1>3. ASSUME NEW r \in Reminders, ServeStray(r) PROVE Structure'
  <2>1. Consistent'
    BY <1>3 DEF Structure, TypeOK, Consistent, ServeStray
  <2>2. Untouched'
    BY <1>3 DEF Structure, TypeOK, Untouched, ServeStray
  <2>3. Confirmed'
    BY <1>3, NoReminderAssumption
    DEF Structure, TypeOK, Confirmed, ServeStray, Consistent, Count
  <2>4. LockedRuns'
    BY <1>3 DEF Structure, TypeOK, LockedRuns, ServeStray
  <2> QED
    BY <2>1, <2>2, <2>3, <2>4 DEF Structure
<1>4. ASSUME NEW r \in Reminders, NEW w \in Workers, FetchJob(w, r) PROVE Structure'
  <2>1. Consistent'
    BY <1>4, NoReminderAssumption DEF Structure, TypeOK, Consistent, FetchJob
  <2>2. Untouched'
    BY <1>4 DEF Structure, TypeOK, Untouched, FetchJob
  <2>3. Confirmed'
    BY <1>4, NoReminderAssumption
    DEF Structure, TypeOK, Confirmed, FetchJob, Consistent
  <2>4. LockedRuns'
    BY <1>4, NoReminderAssumption, NoWorkerAssumption
    DEF Structure, TypeOK, LockedRuns, FetchJob, Consistent
  <2> QED
    BY <2>1, <2>2, <2>3, <2>4 DEF Structure
<1> QED
  BY <1>1, <1>2, <1>3, <1>4
  DEF QueueNext

LEMMA StructureStep == TypeOK /\ Structure /\ [Next]_vars => Structure'
<1>1. ASSUME Structure, UNCHANGED vars PROVE Structure'
  BY <1>1
  DEF vars, Structure, Consistent, Untouched, Confirmed, LockedRuns
<1> QED
  BY <1>1, StructureClient, StructureWorker, StructureQueue DEF Next

LEMMA StructureHolds == Spec => []Structure
  BY TypeCorrect, TypeInit, StructureInit, StructureStep, PTL DEF Spec

\* As long as no worker crashed on a reminder or lost its lock, one handler at
\* most works on it: each would hold the job's only lock.
THEOREM OneRun == Spec => []OneRunWithoutFault
<1>1. Structure => OneRunWithoutFault
  BY DEF Structure, LockedRuns, OneRunWithoutFault
<1> QED
  BY <1>1, StructureHolds, PTL

-----------------------------------------------------------------------------
(***************************************************************************)
(* A row that says SENT was delivered.  The only writers of SENT and of    *)
(* the message id are handlers that hold a confirmation (Confirmed).       *)
(***************************************************************************)

LEMMA SentClient ==
  ASSUME TypeOK, Structure, SentWasDelivered, NEW c \in Clients, ClientNext(c)
  PROVE  SentWasDelivered'
<1>1. ASSUME NEW r \in Reminders, CreateReminder(c, r) PROVE SentWasDelivered'
  BY <1>1 DEF TypeOK, SentWasDelivered, CreateReminder
<1>2. ASSUME NEW r \in Reminders, UpdateReminder(c, r) PROVE SentWasDelivered'
  BY <1>2 DEF TypeOK, SentWasDelivered, UpdateReminder
<1>3. ASSUME NEW r \in Reminders, DeleteReminder(c, r) PROVE SentWasDelivered'
  BY <1>3 DEF TypeOK, SentWasDelivered, DeleteReminder
<1>4. ASSUME NEW r \in Reminders, RetryReadFailed(c, r) PROVE SentWasDelivered'
  BY <1>4 DEF TypeOK, SentWasDelivered, RetryReadFailed
<1>5. CASE MarkReminderForRetry(c)
  BY <1>5 DEF TypeOK, SentWasDelivered, MarkReminderForRetry
<1>6. CASE RemoveJob(c)
  BY <1>6 DEF TypeOK, SentWasDelivered, RemoveJob
<1>7. CASE AddJob(c)
  BY <1>7 DEF TypeOK, SentWasDelivered, AddJob
<1>8. CASE AddJobFails(c)
  BY <1>8 DEF TypeOK, SentWasDelivered, AddJobFails
<1>9. CASE AbandonRequest(c)
  BY <1>9 DEF TypeOK, SentWasDelivered, AbandonRequest
<1> QED
  BY <1>1, <1>2, <1>3, <1>4, <1>5, <1>6, <1>7, <1>8, <1>9
  DEF ClientNext

LEMMA SentWorker ==
  ASSUME TypeOK, Structure, SentWasDelivered, NEW w \in Workers, WorkerNext(w)
  PROVE  SentWasDelivered'
<1>1. CASE LoadReminder(w)
  BY <1>1 DEF TypeOK, SentWasDelivered, LoadReminder
<1>2. CASE CheckGovernance(w)
  BY <1>2 DEF TypeOK, SentWasDelivered, CheckGovernance
<1>3. CASE DispatchGateway(w)
  BY <1>3 DEF TypeOK, SentWasDelivered, DispatchGateway
<1>4. CASE ReceiveReply(w)
  BY <1>4 DEF TypeOK, SentWasDelivered, ReceiveReply
<1>5. CASE MarkSentStatus(w)
  BY <1>5 DEF TypeOK, SentWasDelivered, MarkSentStatus, Structure, Confirmed
<1>6. CASE MarkReminderMessage(w)
  BY <1>6 DEF TypeOK, SentWasDelivered, MarkReminderMessage, Structure, Confirmed
<1>7. CASE PersistOutbound(w)
  BY <1>7 DEF TypeOK, SentWasDelivered, PersistOutbound
<1>8. CASE WriteThrows(w)
  BY <1>8 DEF TypeOK, SentWasDelivered, WriteThrows
<1>9. CASE MarkFailedStatus(w)
  BY <1>9 DEF TypeOK, SentWasDelivered, MarkFailedStatus
<1>10. CASE LoseFailedStatus(w)
  BY <1>10 DEF TypeOK, SentWasDelivered, LoseFailedStatus
<1>11. CASE FinishJob(w)
  BY <1>11 DEF TypeOK, SentWasDelivered, FinishJob
<1>12. CASE GatewaySends(w)
  BY <1>12 DEF TypeOK, SentWasDelivered, GatewaySends, Count
<1>13. CASE GatewayFails(w)
  BY <1>13 DEF TypeOK, SentWasDelivered, GatewayFails
<1>14. CASE LoseConnection(w)
  BY <1>14 DEF TypeOK, SentWasDelivered, LoseConnection
<1>15. CASE LoseLock(w)
  BY <1>15 DEF TypeOK, SentWasDelivered, LoseLock
<1>16. CASE Crash(w)
  BY <1>16 DEF TypeOK, SentWasDelivered, Crash
<1>17. CASE LoadReminderThrows(w)
  BY <1>17 DEF TypeOK, SentWasDelivered, LoadReminderThrows
<1> QED
  BY <1>1, <1>2, <1>3, <1>4, <1>5, <1>6, <1>7, <1>8, <1>9, <1>10, <1>11,
     <1>12, <1>13, <1>14, <1>15, <1>16, <1>17
  DEF WorkerNext, WorkerRun, GatewayServes

LEMMA SentQueue ==
  ASSUME TypeOK, Structure, SentWasDelivered, QueueNext
  PROVE  SentWasDelivered'
<1>1. ASSUME NEW r \in Reminders, ExpireDeadLock(r) PROVE SentWasDelivered'
  BY <1>1 DEF TypeOK, SentWasDelivered, ExpireDeadLock
<1>2. ASSUME NEW r \in Reminders, DetectStalled(r) PROVE SentWasDelivered'
  BY <1>2 DEF TypeOK, SentWasDelivered, DetectStalled
<1>3. ASSUME NEW r \in Reminders, ServeStray(r) PROVE SentWasDelivered'
  BY <1>3 DEF TypeOK, SentWasDelivered, ServeStray, Count
<1>4. ASSUME NEW r \in Reminders, NEW w \in Workers, FetchJob(w, r) PROVE SentWasDelivered'
  BY <1>4 DEF TypeOK, SentWasDelivered, FetchJob
<1> QED
  BY <1>1, <1>2, <1>3, <1>4
  DEF QueueNext

LEMMA SentStep ==
  TypeOK /\ Structure /\ SentWasDelivered /\ [Next]_vars => SentWasDelivered'
<1>1. ASSUME SentWasDelivered, UNCHANGED vars PROVE SentWasDelivered'
  BY <1>1 DEF vars, SentWasDelivered
<1> QED
  BY <1>1, SentClient, SentWorker, SentQueue DEF Next

\* A row that says SENT, or carries a message id, stands for a message that
\* WhatsApp accepted, whatever races with the worker's writes.
THEOREM SentMeansDelivered == Spec => []SentWasDelivered
<1>1. Init => SentWasDelivered
  BY DEF Init, SentWasDelivered
<1> QED
  BY <1>1, TypeCorrect, StructureHolds, SentStep, PTL DEF Spec

-----------------------------------------------------------------------------
(***************************************************************************)
(* The row's way through its statuses.                                     *)
(***************************************************************************)

\* Of all steps only the retry endpoint's write brings a settled row back.
LEMMA ReopenStep ==
  ASSUME TypeOK, Structure, [Next]_vars, NEW r \in Reminders,
         status[r] \notin {"NONE", "SCHEDULED"}, status'[r] = "SCHEDULED"
  PROVE  retries'[r] = retries[r] + 1
<1>1. ASSUME NEW c \in Clients, ClientNext(c) PROVE retries'[r] = retries[r] + 1
  <2>1. CASE MarkReminderForRetry(c)
    BY <2>1 DEF MarkReminderForRetry, Count, TypeOK
  <2>2. ASSUME NEW x \in Reminders, CreateReminder(c, x) PROVE FALSE
    BY <2>2 DEF CreateReminder, TypeOK
  <2>3. ASSUME NEW x \in Reminders, DeleteReminder(c, x) PROVE FALSE
    BY <2>3 DEF DeleteReminder, TypeOK
  <2>4. ~AddJobFails(c)
    BY DEF AddJobFails, TypeOK
  <2>5. ASSUME NEW x \in Reminders, UpdateReminder(c, x) \/ RetryReadFailed(c, x)
        PROVE  FALSE
    BY <2>5 DEF UpdateReminder, RetryReadFailed
  <2>6. ~(RemoveJob(c) \/ AddJob(c) \/ AbandonRequest(c))
    BY DEF RemoveJob, AddJob, AbandonRequest
  <2> QED
    BY <1>1, <2>1, <2>2, <2>3, <2>4, <2>5, <2>6 DEF ClientNext
<1>2. ASSUME NEW w \in Workers, WorkerNext(w) PROVE FALSE
  <2>1. ~(MarkSentStatus(w) \/ MarkFailedStatus(w))
    BY DEF MarkSentStatus, MarkFailedStatus, TypeOK
  <2>2. status' = status
    BY <1>2, <2>1
    DEF WorkerNext, WorkerRun, GatewayServes, LoadReminder, LoadReminderThrows,
        CheckGovernance, DispatchGateway, ReceiveReply, MarkReminderMessage,
        PersistOutbound, WriteThrows, LoseFailedStatus, FinishJob, GatewaySends,
        GatewayFails, LoseConnection, LoseLock, Crash
  <2> QED
    BY <2>2
<1>3. QueueNext \/ UNCHANGED vars => status' = status
  BY DEF QueueNext, ExpireDeadLock, DetectStalled, ServeStray, FetchJob, vars
<1> QED
  BY <1>1, <1>2, <1>3 DEF Next

\* A row that was sent, failed or canceled says SCHEDULED again only after an
\* operator's retry, whatever updates and other runs of the job do.
THEOREM OnlyRetriesReopen == Spec => ReopenOnlyByRetry
<1>1. TypeOK /\ Structure /\ [Next]_vars =>
        [\A r \in Reminders :
           status[r] \notin {"NONE", "SCHEDULED"} /\ status'[r] = "SCHEDULED"
             => retries'[r] = retries[r] + 1]_vars
  BY ReopenStep
<1> QED
  BY <1>1, TypeCorrect, StructureHolds, PTL DEF Spec, ReopenOnlyByRetry

-----------------------------------------------------------------------------
(***************************************************************************)
(* A settled cancellation.                                                 *)
(***************************************************************************)

\* What the action property asks of a step.
Holds(r) == CancelSettled(r)' /\ delivered'[r] = delivered[r]

LEMMA CancelClient ==
  ASSUME TypeOK, Structure, NEW r \in Reminders, CancelSettled(r),
         NEW c \in Clients, ClientNext(c)
  PROVE  Holds(r)
<1>1. ASSUME NEW x \in Reminders, CreateReminder(c, x) PROVE Holds(r)
  BY <1>1 DEF Holds, CancelSettled, CreateReminder, TypeOK
<1>2. ASSUME NEW x \in Reminders, UpdateReminder(c, x) PROVE Holds(r)
  BY <1>2 DEF Holds, CancelSettled, UpdateReminder, TypeOK
<1>3. ASSUME NEW x \in Reminders, DeleteReminder(c, x) PROVE Holds(r)
  BY <1>3 DEF Holds, CancelSettled, DeleteReminder, TypeOK
<1>4. ASSUME NEW x \in Reminders, RetryReadFailed(c, x) PROVE Holds(r)
  BY <1>4 DEF Holds, CancelSettled, RetryReadFailed, TypeOK
<1>5. CASE MarkReminderForRetry(c)
  BY <1>5 DEF Holds, CancelSettled, MarkReminderForRetry, TypeOK
<1>6. CASE RemoveJob(c)
  BY <1>6 DEF Holds, CancelSettled, RemoveJob, TypeOK
<1>7. CASE AddJob(c)
  BY <1>7, NoReminderAssumption DEF Holds, CancelSettled, AddJob, TypeOK
<1>8. CASE AddJobFails(c)
  BY <1>8, NoReminderAssumption DEF Holds, CancelSettled, AddJobFails, TypeOK
<1>9. CASE AbandonRequest(c)
  BY <1>9, NoReminderAssumption DEF Holds, CancelSettled, AbandonRequest, TypeOK
<1> QED
  BY <1>1, <1>2, <1>3, <1>4, <1>5, <1>6, <1>7, <1>8, <1>9 DEF ClientNext

LEMMA CancelWorker ==
  ASSUME TypeOK, Structure, NEW r \in Reminders, CancelSettled(r),
         NEW w \in Workers, WorkerNext(w)
  PROVE  Holds(r)
\* A handler of the reminder is before its read or at its end.
<1>1. inHand[w] = r => /\ stage[w] \in {"load_reminder", "completed", "audit_failed"}
                       /\ wire[w] = "none"
  BY DEF CancelSettled, Structure, Consistent, TypeOK
<1>2. CASE LoadReminder(w)
  BY <1>2 DEF Holds, CancelSettled, LoadReminder, TypeOK
<1>3. CASE LoadReminderThrows(w)
  BY <1>3 DEF Holds, CancelSettled, LoadReminderThrows, TypeOK
<1>4. CASE CheckGovernance(w) \/ DispatchGateway(w) \/ ReceiveReply(w)
  BY <1>4 DEF Holds, CancelSettled, CheckGovernance, DispatchGateway, ReceiveReply, TypeOK
<1>5. CASE MarkSentStatus(w) \/ MarkReminderMessage(w) \/ PersistOutbound(w) \/ WriteThrows(w)
  BY <1>5
  DEF Holds, CancelSettled, MarkSentStatus, MarkReminderMessage, PersistOutbound,
      WriteThrows, TypeOK
<1>6. CASE MarkFailedStatus(w) \/ LoseFailedStatus(w)
  BY <1>6 DEF Holds, CancelSettled, MarkFailedStatus, LoseFailedStatus, TypeOK
<1>7. CASE FinishJob(w)
  BY <1>7, NoReminderAssumption DEF Holds, CancelSettled, FinishJob, TypeOK
<1>8. CASE GatewaySends(w)
  BY <1>1, <1>8 DEF Holds, CancelSettled, GatewaySends, Count, TypeOK
<1>9. CASE GatewayFails(w) \/ LoseConnection(w)
  BY <1>1, <1>9 DEF Holds, CancelSettled, GatewayFails, LoseConnection, Count, TypeOK
<1>10. CASE LoseLock(w)
  BY <1>10 DEF Holds, CancelSettled, LoseLock, TypeOK
<1>11. CASE Crash(w)
  BY <1>1, <1>11, NoReminderAssumption DEF Holds, CancelSettled, Crash, Count, TypeOK
<1> QED
  BY <1>2, <1>3, <1>4, <1>5, <1>6, <1>7, <1>8, <1>9, <1>10, <1>11
  DEF WorkerNext, WorkerRun, GatewayServes

LEMMA CancelQueue ==
  ASSUME TypeOK, Structure, NEW r \in Reminders, CancelSettled(r), QueueNext
  PROVE  Holds(r)
<1>1. ASSUME NEW x \in Reminders, ExpireDeadLock(x) \/ DetectStalled(x) PROVE Holds(r)
  BY <1>1 DEF Holds, CancelSettled, ExpireDeadLock, DetectStalled
\* The stray request served is another reminder's.
<1>2. ASSUME NEW x \in Reminders, ServeStray(x) PROVE Holds(r)
  BY <1>2 DEF Holds, CancelSettled, ServeStray, Count, TypeOK
<1>3. ASSUME NEW x \in Reminders, NEW w \in Workers, FetchJob(w, x) PROVE Holds(r)
  BY <1>3 DEF Holds, CancelSettled, FetchJob, TypeOK
<1> QED
  BY <1>1, <1>2, <1>3 DEF QueueNext

\* Once what was under way before a cancellation has ended, the row stays
\* canceled and nothing is delivered, although the job stays in the queue.
THEOREM CancellationHolds == Spec => CancelHolds
<1>1. ASSUME TypeOK, Structure, [Next]_vars, NEW r \in Reminders, CancelSettled(r)
      PROVE  Holds(r)
  <2>1. ASSUME UNCHANGED vars PROVE Holds(r)
    BY <1>1, <2>1 DEF Holds, CancelSettled, vars
  <2> QED
    BY <1>1, <2>1, CancelClient, CancelWorker, CancelQueue DEF Next
<1>2. TypeOK /\ Structure /\ [Next]_vars =>
        [\A r \in Reminders :
           CancelSettled(r) => CancelSettled(r)' /\ delivered'[r] = delivered[r]]_vars
  BY <1>1 DEF Holds
<1> QED
  BY <1>2, TypeCorrect, StructureHolds, PTL DEF Spec, CancelHolds

-----------------------------------------------------------------------------
(***************************************************************************)
(* A SCHEDULED row is never orphaned.  ScheduledIsQueued is not inductive: *)
(* a request whose add finds an old job leaves no trace, so it has to be   *)
(* shown that the job is not an ended one, and an active job has to be in  *)
(* the hands of a handler that will write a verdict.                       *)
(***************************************************************************)

Queued == ActiveIsRun /\ ScheduledHasJob /\ ScheduledAwaitsVerdict

\* Faults, retries and abandoned requests are only ever counted up, so a
\* reminder that is smooth after a step was smooth before it.
LEMMA SmoothBefore ==
  ASSUME TypeOK, Structure, [Next]_vars, NEW r \in Reminders
  PROVE  /\ faults'[r] = 0 => faults[r] = 0
         /\ Smooth(r)' => Smooth(r)
<1>1. /\ \A x \in Reminders : Count(faults, x)[r] # 0 \/ faults[r] = 0
      /\ \A x \in Reminders : Count(retries, x)[r] # 0 \/ retries[r] = 0
      /\ \A k \in EventKind : Count(spent, k)["abandon"] # 0 \/ spent["abandon"] = 0
  BY DEF Count, TypeOK
<1>2. \/ faults' = faults
      \/ \E w \in Workers : inHand[w] # NoReminder /\ faults' = Count(faults, inHand[w])
  <2>1. ASSUME NEW w \in Workers, WorkerNext(w)
        PROVE  \/ faults' = faults
               \/ inHand[w] # NoReminder /\ faults' = Count(faults, inHand[w])
    BY <2>1
    DEF WorkerNext, WorkerRun, GatewayServes, LoadReminder, LoadReminderThrows,
        CheckGovernance, DispatchGateway, ReceiveReply, MarkSentStatus,
        MarkReminderMessage, PersistOutbound, WriteThrows, MarkFailedStatus,
        LoseFailedStatus, FinishJob, GatewaySends, GatewayFails, LoseConnection,
        LoseLock, Crash, Structure, Consistent
  <2>2. ASSUME NEW c \in Clients, ClientNext(c) PROVE faults' = faults
    BY <2>2
    DEF ClientNext, CreateReminder, UpdateReminder, DeleteReminder, RetryReadFailed,
        MarkReminderForRetry, RemoveJob, AddJob, AddJobFails, AbandonRequest
  <2>3. QueueNext \/ UNCHANGED vars => faults' = faults
    BY DEF QueueNext, ExpireDeadLock, DetectStalled, ServeStray, FetchJob, vars
  <2> QED
    BY <2>1, <2>2, <2>3 DEF Next
<1>3. \/ retries' = retries
      \/ \E c \in Clients : step[c] = "mark_retry" /\ retries' = Count(retries, target[c])
  <2>1. ASSUME NEW w \in Workers, WorkerNext(w) PROVE retries' = retries
    BY <2>1
    DEF WorkerNext, WorkerRun, GatewayServes, LoadReminder, LoadReminderThrows,
        CheckGovernance, DispatchGateway, ReceiveReply, MarkSentStatus,
        MarkReminderMessage, PersistOutbound, WriteThrows, MarkFailedStatus,
        LoseFailedStatus, FinishJob, GatewaySends, GatewayFails, LoseConnection,
        LoseLock, Crash
  <2>2. ASSUME NEW c \in Clients, ClientNext(c)
        PROVE  \/ retries' = retries
               \/ step[c] = "mark_retry" /\ retries' = Count(retries, target[c])
    BY <2>2
    DEF ClientNext, CreateReminder, UpdateReminder, DeleteReminder, RetryReadFailed,
        MarkReminderForRetry, RemoveJob, AddJob, AddJobFails, AbandonRequest
  <2>3. QueueNext \/ UNCHANGED vars => retries' = retries
    BY DEF QueueNext, ExpireDeadLock, DetectStalled, ServeStray, FetchJob, vars
  <2> QED
    BY <2>1, <2>2, <2>3 DEF Next
<1>4. spent' = spent \/ \E k \in EventKind : spent' = Count(spent, k)
  <2>1. ASSUME NEW w \in Workers, WorkerNext(w)
        PROVE  spent' = spent \/ \E k \in EventKind : spent' = Count(spent, k)
    BY <2>1
    DEF WorkerNext, WorkerRun, GatewayServes, LoadReminder, LoadReminderThrows,
        CheckGovernance, DispatchGateway, ReceiveReply, MarkSentStatus,
        MarkReminderMessage, PersistOutbound, WriteThrows, MarkFailedStatus,
        LoseFailedStatus, FinishJob, GatewaySends, GatewayFails, LoseConnection,
        LoseLock, Crash
  <2>2. ASSUME NEW c \in Clients, ClientNext(c)
        PROVE  spent' = spent \/ \E k \in EventKind : spent' = Count(spent, k)
    BY <2>2
    DEF ClientNext, CreateReminder, UpdateReminder, DeleteReminder, RetryReadFailed,
        MarkReminderForRetry, RemoveJob, AddJob, AddJobFails, AbandonRequest
  <2>3. QueueNext \/ UNCHANGED vars => spent' = spent
    BY DEF QueueNext, ExpireDeadLock, DetectStalled, ServeStray, FetchJob, vars
  <2> QED
    BY <2>1, <2>2, <2>3 DEF Next
<1>5. \A w \in Workers : inHand[w] # NoReminder => inHand[w] \in Reminders
  BY DEF TypeOK
<1>6. \A c \in Clients : step[c] = "mark_retry" => target[c] \in Reminders
  BY DEF Structure, Consistent, TypeOK
<1>7. faults'[r] = 0 => faults[r] = 0
  BY <1>1, <1>2, <1>5
<1>8. retries'[r] = 0 => retries[r] = 0
  BY <1>1, <1>3, <1>6
<1>9. spent'["abandon"] = 0 => spent["abandon"] = 0
  BY <1>1, <1>4
<1> QED
  BY <1>7, <1>8, <1>9 DEF Smooth

LEMMA QueuedClient ==
  ASSUME TypeOK, Structure, Queued, NEW c \in Clients, ClientNext(c),
         \A r \in Reminders : /\ faults'[r] = 0 => faults[r] = 0
                              /\ Smooth(r)' => Smooth(r)
  PROVE  Queued'
<1> USE DEF Queued, Structure, TypeOK
<1>1. ASSUME NEW x \in Reminders, CreateReminder(c, x) PROVE Queued'
  <2>1. ActiveIsRun'
    BY <1>1 DEF ActiveIsRun, CreateReminder
  <2>2. ScheduledHasJob'
    <3>1. target[c] = NoReminder /\ target' = [target EXCEPT ![c] = x]
      BY <1>1 DEF CreateReminder, Consistent
    <3>2. job[x] = "none" /\ job' = job
      BY <1>1 DEF CreateReminder, Untouched
    <3>3. \A r \in Reminders : r # x => status'[r] = status[r]
      BY <1>1 DEF CreateReminder
    <3> QED
      BY <3>1, <3>2, <3>3, NoReminderAssumption DEF ScheduledHasJob
  <2>3. ScheduledAwaitsVerdict'
    BY <1>1 DEF ScheduledAwaitsVerdict, CreateReminder, Untouched
  <2> QED
    BY <2>1, <2>2, <2>3
<1>2. ASSUME NEW x \in Reminders,
             UpdateReminder(c, x) \/ DeleteReminder(c, x) \/ RetryReadFailed(c, x)
      PROVE  Queued'
  <2>1. ActiveIsRun'
    BY <1>2 DEF ActiveIsRun, UpdateReminder, DeleteReminder, RetryReadFailed
  <2>2. ScheduledHasJob'
    BY <1>2, NoReminderAssumption
    DEF ScheduledHasJob, UpdateReminder, DeleteReminder, RetryReadFailed, Consistent
  <2>3. ScheduledAwaitsVerdict'
    BY <1>2 DEF ScheduledAwaitsVerdict, UpdateReminder, DeleteReminder, RetryReadFailed
  <2> QED
    BY <2>1, <2>2, <2>3
\* The reminder that is reopened counts a retry and is not smooth any more.
<1>3. CASE MarkReminderForRetry(c)
  <2>1. ActiveIsRun'
    BY <1>3 DEF ActiveIsRun, MarkReminderForRetry
  <2>2. PICK x \in Reminders : target[c] = x
    BY <1>3 DEF MarkReminderForRetry, Consistent
  <2>3. ~Smooth(x)'
    BY <1>3, <2>2 DEF MarkReminderForRetry, Smooth, Count
  <2>4. ScheduledHasJob'
    BY <1>3, <2>2, <2>3 DEF ScheduledHasJob, MarkReminderForRetry
  <2>5. ScheduledAwaitsVerdict'
    BY <1>3, <2>2, <2>3 DEF ScheduledAwaitsVerdict, MarkReminderForRetry
  <2> QED
    BY <2>1, <2>4, <2>5
<1>4. CASE RemoveJob(c)
  <2>1. target[c] \in Reminders
    BY <1>4 DEF RemoveJob, Consistent
  <2>2. ActiveIsRun'
    BY <1>4 DEF ActiveIsRun, RemoveJob
  <2>3. ScheduledHasJob'
    BY <1>4, <2>1 DEF ScheduledHasJob, RemoveJob
  <2>4. ScheduledAwaitsVerdict'
    BY <1>4 DEF ScheduledAwaitsVerdict, RemoveJob
  <2> QED
    BY <2>2, <2>3, <2>4
\* The request ends; its reminder has a job now, and other requests go on.
<1>5. CASE AddJob(c)
  <2>1. target[c] \in Reminders
    BY <1>5 DEF AddJob, Consistent
  <2>2. ActiveIsRun'
    BY <1>5 DEF ActiveIsRun, AddJob
  <2>3. job'[target[c]] # "none"
    BY <1>5, <2>1 DEF AddJob
  <2>4. ScheduledHasJob'
    BY <1>5, <2>1, <2>3 DEF ScheduledHasJob, AddJob
  <2>5. ScheduledAwaitsVerdict'
    BY <1>5 DEF ScheduledAwaitsVerdict, AddJob
  <2> QED
    BY <2>2, <2>4, <2>5
<1>6. CASE AddJobFails(c) \/ AbandonRequest(c)
  <2>1. ActiveIsRun'
    BY <1>6 DEF ActiveIsRun, AddJobFails, AbandonRequest
  <2>2. \A r \in Reminders : ~Smooth(r)'
    BY <1>6 DEF AddJobFails, AbandonRequest, Smooth, Count
  <2> QED
    BY <2>1, <2>2 DEF ScheduledHasJob, ScheduledAwaitsVerdict
<1> QED
  BY <1>1, <1>2, <1>3, <1>4, <1>5, <1>6 DEF ClientNext

LEMMA QueuedWorker ==
  ASSUME TypeOK, Structure, Queued, NEW w \in Workers, WorkerNext(w),
         \A r \in Reminders : /\ faults'[r] = 0 => faults[r] = 0
                              /\ Smooth(r)' => Smooth(r)
  PROVE  Queued'
<1> USE DEF Queued, Structure, TypeOK
\* A handler that goes on, short of its end, keeps the job and its lock.
<1>1. CASE \/ LoadReminder(w) \/ CheckGovernance(w) \/ DispatchGateway(w)
           \/ ReceiveReply(w) \/ GatewaySends(w) \/ GatewayFails(w) \/ LoseConnection(w)
  <2>1. ActiveIsRun'
    BY <1>1
    DEF ActiveIsRun, LoadReminder, CheckGovernance, DispatchGateway, ReceiveReply,
        GatewaySends, GatewayFails, LoseConnection
  <2>2. ScheduledHasJob'
    BY <1>1
    DEF ScheduledHasJob, LoadReminder, CheckGovernance, DispatchGateway, ReceiveReply,
        GatewaySends, GatewayFails, LoseConnection
  <2>3. ScheduledAwaitsVerdict'
    BY <1>1
    DEF ScheduledAwaitsVerdict, LoadReminder, CheckGovernance, DispatchGateway,
        ReceiveReply, GatewaySends, GatewayFails, LoseConnection
  <2> QED
    BY <2>1, <2>2, <2>3
\* The verdict: the row is not SCHEDULED any more.
<1>2. CASE MarkSentStatus(w) \/ MarkFailedStatus(w)
  <2>1. ActiveIsRun'
    BY <1>2 DEF ActiveIsRun, MarkSentStatus, MarkFailedStatus
  <2>2. inHand[w] \in Reminders /\ status'[inHand[w]] # "SCHEDULED"
    BY <1>2 DEF MarkSentStatus, MarkFailedStatus, Consistent
  <2>3. ScheduledHasJob'
    BY <1>2, <2>2 DEF ScheduledHasJob, MarkSentStatus, MarkFailedStatus
  <2>4. ScheduledAwaitsVerdict'
    BY <1>2, <2>2 DEF ScheduledAwaitsVerdict, MarkSentStatus, MarkFailedStatus
  <2> QED
    BY <2>1, <2>3, <2>4
<1>3. CASE MarkReminderMessage(w) \/ PersistOutbound(w) \/ WriteThrows(w)
  <2>1. ActiveIsRun'
    BY <1>3 DEF ActiveIsRun, MarkReminderMessage, PersistOutbound, WriteThrows
  <2>2. ScheduledHasJob'
    BY <1>3 DEF ScheduledHasJob, MarkReminderMessage, PersistOutbound, WriteThrows
  <2>3. ScheduledAwaitsVerdict'
    BY <1>3
    DEF ScheduledAwaitsVerdict, MarkReminderMessage, PersistOutbound, WriteThrows
  <2> QED
    BY <2>1, <2>2, <2>3
\* A fault: nothing is claimed of its reminder any more.
<1>4. CASE LoadReminderThrows(w) \/ LoseFailedStatus(w) \/ LoseLock(w) \/ Crash(w)
  <2>1. PICK x \in Reminders : inHand[w] = x
    BY <1>4 DEF LoadReminderThrows, LoseFailedStatus, LoseLock, Crash, Consistent
  <2>2. faults' = Count(faults, x)
    BY <1>4, <2>1 DEF LoadReminderThrows, LoseFailedStatus, LoseLock, Crash
  <2> HIDE DEF Structure, Queued
  <2>3. faults'[x] # 0 /\ ~Smooth(x)'
    BY <2>2 DEF Count, Smooth
  <2> USE DEF Structure, Queued
  <2>4. ActiveIsRun'
    BY <1>4, <2>1, <2>3
    DEF ActiveIsRun, LoadReminderThrows, LoseFailedStatus, LoseLock, Crash
  <2>5. ScheduledHasJob'
    BY <1>4, <2>1, <2>3
    DEF ScheduledHasJob, LoadReminderThrows, LoseFailedStatus, LoseLock, Crash
  <2>6. ScheduledAwaitsVerdict'
    BY <1>4, <2>1, <2>3, NoReminderAssumption
    DEF ScheduledAwaitsVerdict, LoadReminderThrows, LoseFailedStatus, LoseLock, Crash
  <2> QED
    BY <2>4, <2>5, <2>6
\* A handler that ends has left a verdict, so no SCHEDULED row loses its job.
<1>5. CASE FinishJob(w)
  <2>1. PICK x \in Reminders : inHand[w] = x
    BY <1>5 DEF FinishJob, Consistent
  <2>2. ActiveIsRun'
    <3>1. CASE lock[x] = w
      BY <1>5, <2>1, <3>1, NoWorkerAssumption DEF ActiveIsRun, FinishJob
    <3>2. CASE lock[x] # w
      BY <1>5, <2>1, <3>2 DEF ActiveIsRun, FinishJob
    <3> QED
      BY <3>1, <3>2
  <2>3. ~(Smooth(x)' /\ status'[x] = "SCHEDULED")
    BY <1>5, <2>1 DEF FinishJob, ScheduledAwaitsVerdict
  <2>4. ScheduledHasJob'
    BY <1>5, <2>1, <2>3 DEF ScheduledHasJob, FinishJob
  <2>5. ScheduledAwaitsVerdict'
    BY <1>5, NoReminderAssumption DEF ScheduledAwaitsVerdict, FinishJob
  <2> QED
    BY <2>2, <2>4, <2>5
<1> QED
  BY <1>1, <1>2, <1>3, <1>4, <1>5 DEF WorkerNext, WorkerRun, GatewayServes

LEMMA QueuedQueue ==
  ASSUME TypeOK, Structure, Queued, QueueNext,
         \A r \in Reminders : /\ faults'[r] = 0 => faults[r] = 0
                              /\ Smooth(r)' => Smooth(r)
  PROVE  Queued'
<1> USE DEF Queued, Structure, TypeOK
\* The lock that runs out belongs to a run that was a fault.
<1>1. ASSUME NEW x \in Reminders, ExpireDeadLock(x) PROVE Queued'
  <2>1. faults[x] # 0
    BY <1>1, NoWorkerAssumption DEF ExpireDeadLock, ActiveIsRun, Consistent
  <2>2. ActiveIsRun'
    BY <1>1, <2>1 DEF ActiveIsRun, ExpireDeadLock
  <2>3. ScheduledHasJob' /\ ScheduledAwaitsVerdict'
    BY <1>1 DEF ScheduledHasJob, ScheduledAwaitsVerdict, ExpireDeadLock
  <2> QED
    BY <2>2, <2>3
\* So does the job that is found stalled.
<1>2. ASSUME NEW x \in Reminders, DetectStalled(x) PROVE Queued'
  <2>1. faults[x] # 0
    BY <1>2, NoWorkerAssumption DEF DetectStalled, ActiveIsRun
  <2>2. ActiveIsRun'
    BY <1>2, <2>1 DEF ActiveIsRun, DetectStalled
  <2>3. ~Smooth(x)'
    BY <1>2, <2>1 DEF Smooth
  <2>4. ScheduledHasJob'
    BY <1>2, <2>3 DEF ScheduledHasJob, DetectStalled
  <2>5. ScheduledAwaitsVerdict'
    BY <1>2 DEF ScheduledAwaitsVerdict, DetectStalled
  <2> QED
    BY <2>2, <2>4, <2>5
<1>3. ASSUME NEW x \in Reminders, ServeStray(x) PROVE Queued'
  BY <1>3 DEF ActiveIsRun, ScheduledHasJob, ScheduledAwaitsVerdict, ServeStray
<1>4. ASSUME NEW x \in Reminders, NEW w \in Workers, FetchJob(w, x) PROVE Queued'
  <2>1. ActiveIsRun'
    <3>1. lock'[x] = w /\ inHand'[w] = x
      BY <1>4 DEF FetchJob
    <3>2. ASSUME NEW r \in Reminders, r # x, faults[r] = 0, job[r] = "active"
          PROVE  \E v \in Workers : lock'[r] = v /\ inHand'[v] = r
      <4>1. PICK v \in Workers : lock[r] = v /\ inHand[v] = r
        BY <3>2 DEF ActiveIsRun
      <4>2. v # w
        BY <1>4, <4>1, NoReminderAssumption DEF FetchJob, Consistent
      <4> QED
        BY <1>4, <3>2, <4>1, <4>2 DEF FetchJob
    <3> QED
      BY <1>4, <3>1, <3>2 DEF ActiveIsRun, FetchJob
  <2>2. ScheduledHasJob'
    BY <1>4 DEF ScheduledHasJob, FetchJob
  <2>3. ScheduledAwaitsVerdict'
    BY <1>4 DEF ScheduledAwaitsVerdict, FetchJob
  <2> QED
    BY <2>1, <2>2, <2>3
<1> QED
  BY <1>1, <1>2, <1>3, <1>4 DEF QueueNext

LEMMA QueuedInit == Init => Queued
  BY DEF Init, Queued, ActiveIsRun, ScheduledHasJob, ScheduledAwaitsVerdict

LEMMA QueuedStep == TypeOK /\ Structure /\ Queued /\ [Next]_vars => Queued'
<1>1. ASSUME Queued, UNCHANGED vars PROVE Queued'
  BY <1>1
  DEF vars, Queued, ActiveIsRun, ScheduledHasJob, ScheduledAwaitsVerdict, Smooth
<1> QED
  BY <1>1, SmoothBefore, QueuedClient, QueuedWorker, QueuedQueue DEF Next

\* Without faults, abandoned requests and retries a SCHEDULED row is never
\* orphaned, in whatever order requests, handlers and commands interleave.
THEOREM ScheduledStaysQueued == Spec => []ScheduledIsQueued
<1>1. Queued => ScheduledIsQueued
  BY DEF Queued, ActiveIsRun, ScheduledHasJob, Smooth, ScheduledIsQueued
<1> QED
  BY <1>1, QueuedInit, QueuedStep, TypeCorrect, StructureHolds, PTL DEF Spec

-----------------------------------------------------------------------------
(***************************************************************************)
(* No message is sent that is not paid for.                                *)
(*                                                                         *)
(* DeliveriesArePaid is not inductive: a message that may be sent later    *)
(* has to be counted before it is sent.  Account counts, next to the       *)
(* messages sent, the requests whose sender is gone, the handlers that may *)
(* still send, and one for a row that a further run would find SCHEDULED.  *)
(* Most steps raise none of these (Quiet); the others are treated one by   *)
(* one: a row's opening, a retry and a fault pay for what they add, and a  *)
(* send only turns one kind of claim into another.                         *)
(***************************************************************************)

(***************************************************************************)
(* Counting the handlers that may still send.                              *)
(***************************************************************************)

\* What Account adds up for one reminder.
Due(r) ==
  delivered[r] + strays[r] + Cardinality(Senders(r)) + (IF Open(r) THEN 1 ELSE 0)

LEMMA SomeWorkers ==
  ASSUME NEW S \in SUBSET Workers
  PROVE  IsFiniteSet(S) /\ Cardinality(S) \in Nat
  BY WorkersAssumption, FS_Subset, FS_CardinalityType

LEMMA NoMoreSenders ==
  ASSUME NEW S \in SUBSET Workers, NEW T \in SUBSET Workers, S \subseteq T
  PROVE  Cardinality(S) <= Cardinality(T)
  BY SomeWorkers, FS_Subset

LEMMA OneMoreSender ==
  ASSUME NEW S \in SUBSET Workers, NEW T \in SUBSET Workers, NEW w \in Workers,
         S \subseteq T \cup {w}
  PROVE  Cardinality(S) <= Cardinality(T) + 1
<1>1. IsFiniteSet(T) /\ Cardinality(T) \in Nat
  BY SomeWorkers
<1>2. Cardinality(T \cup {w}) <= Cardinality(T) + 1
  <2>1. /\ IsFiniteSet(T \cup {w})
        /\ Cardinality(T \cup {w}) =
             IF w \in T THEN Cardinality(T) ELSE Cardinality(T) + 1
    BY <1>1, FS_AddElement, Zenon
  <2> QED
    BY <1>1, <2>1
<1>3. Cardinality(S) <= Cardinality(T \cup {w})
  BY NoMoreSenders
<1>4. Cardinality(S) \in Nat /\ Cardinality(T \cup {w}) \in Nat
  BY SomeWorkers
<1> QED
  BY <1>1, <1>2, <1>3, <1>4

LEMMA OneSenderLess ==
  ASSUME NEW S \in SUBSET Workers, NEW T \in SUBSET Workers, NEW w \in T,
         S \subseteq T \ {w}
  PROVE  Cardinality(S) + 1 <= Cardinality(T)
<1>1. IsFiniteSet(T) /\ Cardinality(T) \in Nat
  BY SomeWorkers
<1>2. Cardinality(T \ {w}) = Cardinality(T) - 1
  BY <1>1, FS_RemoveElement
<1>3. Cardinality(S) <= Cardinality(T \ {w})
  BY NoMoreSenders
<1>4. Cardinality(S) \in Nat
  BY SomeWorkers
<1> QED
  BY <1>1, <1>2, <1>3, <1>4

LEMMA SendersAreWorkers ==
  \A r : Senders(r) \in SUBSET Workers /\ Senders(r)' \in SUBSET Workers
  BY DEF Senders

LEMMA AccountTypes ==
  ASSUME TypeOK, TypeOK', NEW r \in Reminders
  PROVE  /\ delivered[r] \in Nat /\ delivered'[r] \in Nat
         /\ strays[r] \in Nat /\ strays'[r] \in Nat
         /\ Cardinality(Senders(r)) \in Nat
         /\ Cardinality(Senders(r)') \in Nat
         /\ Allowance(r) \in Nat /\ Allowance(r)' \in Nat
<1>1. Cardinality(Senders(r)) \in Nat /\ Cardinality(Senders(r)') \in Nat
  BY SomeWorkers, SendersAreWorkers
<1>2. Allowance(r) \in Nat /\ Allowance(r)' \in Nat
  BY DEF TypeOK, Allowance
<1> QED
  BY <1>1, <1>2 DEF TypeOK

\* The four kinds of effect a step may have on a reminder's account.  First,
\* nothing is added: at most a request left behind is served.
LEMMA QuietReminder ==
  ASSUME TypeOK, TypeOK', NEW r \in Reminders, Due(r) <= Allowance(r),
         delivered'[r] + strays'[r] <= delivered[r] + strays[r],
         Senders(r)' \subseteq Senders(r),
         Open(r)' => Open(r),
         Allowance(r) <= Allowance(r)'
  PROVE  Due(r)' <= Allowance(r)'
<1>1. Cardinality(Senders(r)') <= Cardinality(Senders(r))
  BY NoMoreSenders, SendersAreWorkers
<1> QED
  BY <1>1, AccountTypes DEF Due

\* The allowance is raised, so the row may open.
LEMMA PaidReminder ==
  ASSUME TypeOK, TypeOK', NEW r \in Reminders, Due(r) <= Allowance(r),
         delivered'[r] + strays'[r] <= delivered[r] + strays[r],
         Senders(r)' \subseteq Senders(r),
         Allowance(r) + 1 <= Allowance(r)'
  PROVE  Due(r)' <= Allowance(r)'
<1>1. Cardinality(Senders(r)') <= Cardinality(Senders(r))
  BY NoMoreSenders, SendersAreWorkers
<1> QED
  BY <1>1, AccountTypes DEF Due

\* A handler's claim to send becomes a message sent, or a request left behind.
LEMMA SentReminder ==
  ASSUME TypeOK, TypeOK', NEW r \in Reminders, Due(r) <= Allowance(r),
         NEW w \in Senders(r),
         delivered'[r] + strays'[r] <= delivered[r] + strays[r] + 1,
         Senders(r)' \subseteq Senders(r) \ {w},
         \/ (Open(r)' => Open(r)) /\ Allowance(r) <= Allowance(r)'
         \/ Allowance(r) + 1 <= Allowance(r)'
  PROVE  Due(r)' <= Allowance(r)'
<1>1. Cardinality(Senders(r)') + 1 <= Cardinality(Senders(r))
  BY OneSenderLess, SendersAreWorkers
<1> QED
  BY <1>1, AccountTypes DEF Due

\* A handler joins those that may send: it claims the open row, or a fault pays.
LEMMA JoinedReminder ==
  ASSUME TypeOK, TypeOK', NEW r \in Reminders, Due(r) <= Allowance(r),
         NEW w \in Workers,
         delivered'[r] + strays'[r] <= delivered[r] + strays[r],
         Senders(r)' \subseteq Senders(r) \cup {w},
         \/ Open(r) /\ ~Open(r)' /\ Allowance(r) <= Allowance(r)'
         \/ (Open(r)' => Open(r)) /\ Allowance(r) + 1 <= Allowance(r)'
  PROVE  Due(r)' <= Allowance(r)'
<1>1. Cardinality(Senders(r)') <= Cardinality(Senders(r)) + 1
  BY OneMoreSender, SendersAreWorkers
<1> QED
  BY <1>1, AccountTypes DEF Due

LEMMA Quiet ==
  ASSUME TypeOK, TypeOK', Account,
         UNCHANGED <<delivered, strays>>,
         \A r \in Reminders : Senders(r)' \subseteq Senders(r),
         \A r \in Reminders : Open(r)' => Open(r),
         \A r \in Reminders : Allowance(r) <= Allowance(r)'
  PROVE  Account'
<1>1. \A r \in Reminders : Due(r) <= Allowance(r)
  BY DEF Account, Due
<1>2. \A r \in Reminders : Due(r)' <= Allowance(r)'
  BY <1>1, QuietReminder, AccountTypes
<1> QED
  BY <1>2 DEF Account, Due

-----------------------------------------------------------------------------
(***************************************************************************)
(* The steps that add nothing to what is due.                              *)
(***************************************************************************)

LEMMA QuietCommand ==
  ASSUME TypeOK, TypeOK', Structure, Account, NEW c \in Clients, NEW r \in Reminders,
         UpdateReminder(c, r) \/ DeleteReminder(c, r) \/ RetryReadFailed(c, r)
  PROVE  Account'
<1>1. CASE UpdateReminder(c, r)
  <2>1. \A x \in Reminders : Senders(x)' \subseteq Senders(x)
    BY <1>1, NoReminderAssumption, NoWorkerAssumption
    DEF TypeOK, Structure, Consistent, Untouched, Senders, MaySend, UpdateReminder
  <2>2. \A x \in Reminders : Open(x)' => Open(x)
    BY <1>1, NoReminderAssumption, NoWorkerAssumption
    DEF TypeOK, Structure, Consistent, Untouched, Open, Claimed, UpdateReminder
  <2>3. \A x \in Reminders : Allowance(x) <= Allowance(x)'
    BY <1>1, NoReminderAssumption, NoWorkerAssumption
    DEF TypeOK, Structure, Consistent, Untouched, Allowance, UpdateReminder
  <2>4. UNCHANGED <<delivered, strays>>
    BY <1>1 DEF UpdateReminder
  <2> QED
    BY <2>1, <2>2, <2>3, <2>4, Quiet
<1>2. CASE DeleteReminder(c, r)
  <2>1. \A x \in Reminders : Senders(x)' \subseteq Senders(x)
    BY <1>2, NoReminderAssumption, NoWorkerAssumption
    DEF TypeOK, Structure, Consistent, Untouched, Senders, MaySend, DeleteReminder
  <2>2. \A x \in Reminders : Open(x)' => Open(x)
    BY <1>2, NoReminderAssumption, NoWorkerAssumption
    DEF TypeOK, Structure, Consistent, Untouched, Open, Claimed, DeleteReminder
  <2>3. \A x \in Reminders : Allowance(x) <= Allowance(x)'
    BY <1>2, NoReminderAssumption, NoWorkerAssumption
    DEF TypeOK, Structure, Consistent, Untouched, Allowance, DeleteReminder
  <2>4. UNCHANGED <<delivered, strays>>
    BY <1>2 DEF DeleteReminder
  <2> QED
    BY <2>1, <2>2, <2>3, <2>4, Quiet
<1>3. CASE RetryReadFailed(c, r)
  <2>1. \A x \in Reminders : Senders(x)' \subseteq Senders(x)
    BY <1>3, NoReminderAssumption, NoWorkerAssumption
    DEF TypeOK, Structure, Consistent, Untouched, Senders, MaySend, RetryReadFailed
  <2>2. \A x \in Reminders : Open(x)' => Open(x)
    BY <1>3, NoReminderAssumption, NoWorkerAssumption
    DEF TypeOK, Structure, Consistent, Untouched, Open, Claimed, RetryReadFailed
  <2>3. \A x \in Reminders : Allowance(x) <= Allowance(x)'
    BY <1>3, NoReminderAssumption, NoWorkerAssumption
    DEF TypeOK, Structure, Consistent, Untouched, Allowance, RetryReadFailed
  <2>4. UNCHANGED <<delivered, strays>>
    BY <1>3 DEF RetryReadFailed
  <2> QED
    BY <2>1, <2>2, <2>3, <2>4, Quiet
<1> QED
  BY <1>1, <1>2, <1>3

LEMMA QuietRequest ==
  ASSUME TypeOK, TypeOK', Structure, Account, NEW c \in Clients,
         RemoveJob(c) \/ AddJob(c) \/ AddJobFails(c) \/ AbandonRequest(c)
  PROVE  Account'
<1>1. CASE RemoveJob(c)
  <2>1. \A x \in Reminders : Senders(x)' \subseteq Senders(x)
    BY <1>1, NoReminderAssumption, NoWorkerAssumption
    DEF TypeOK, Structure, Consistent, Untouched, Senders, MaySend, RemoveJob
  <2>2. \A x \in Reminders : Open(x)' => Open(x)
    BY <1>1, NoReminderAssumption, NoWorkerAssumption
    DEF TypeOK, Structure, Consistent, Untouched, Open, Claimed, RemoveJob
  <2>3. \A x \in Reminders : Allowance(x) <= Allowance(x)'
    BY <1>1, NoReminderAssumption, NoWorkerAssumption
    DEF TypeOK, Structure, Consistent, Untouched, Allowance, RemoveJob
  <2>4. UNCHANGED <<delivered, strays>>
    BY <1>1 DEF RemoveJob
  <2> QED
    BY <2>1, <2>2, <2>3, <2>4, Quiet
<1>2. CASE AddJob(c)
  <2>1. \A x \in Reminders : Senders(x)' \subseteq Senders(x)
    BY <1>2, NoReminderAssumption, NoWorkerAssumption
    DEF TypeOK, Structure, Consistent, Untouched, Senders, MaySend, AddJob
  <2>2. \A x \in Reminders : Open(x)' => Open(x)
    BY <1>2, NoReminderAssumption, NoWorkerAssumption
    DEF TypeOK, Structure, Consistent, Untouched, Open, Claimed, AddJob
  <2>3. \A x \in Reminders : Allowance(x) <= Allowance(x)'
    BY <1>2, NoReminderAssumption, NoWorkerAssumption
    DEF TypeOK, Structure, Consistent, Untouched, Allowance, AddJob
  <2>4. UNCHANGED <<delivered, strays>>
    BY <1>2 DEF AddJob
  <2> QED
    BY <2>1, <2>2, <2>3, <2>4, Quiet
<1>3. CASE AddJobFails(c)
  <2>1. \A x \in Reminders : Senders(x)' \subseteq Senders(x)
    BY <1>3, NoReminderAssumption, NoWorkerAssumption
    DEF TypeOK, Structure, Consistent, Untouched, Senders, MaySend, AddJobFails
  <2>2. \A x \in Reminders : Open(x)' => Open(x)
    BY <1>3, NoReminderAssumption, NoWorkerAssumption
    DEF TypeOK, Structure, Consistent, Untouched, Open, Claimed, AddJobFails
  <2>3. \A x \in Reminders : Allowance(x) <= Allowance(x)'
    BY <1>3, NoReminderAssumption, NoWorkerAssumption
    DEF TypeOK, Structure, Consistent, Untouched, Allowance, AddJobFails
  <2>4. UNCHANGED <<delivered, strays>>
    BY <1>3 DEF AddJobFails
  <2> QED
    BY <2>1, <2>2, <2>3, <2>4, Quiet
<1>4. CASE AbandonRequest(c)
  <2>1. \A x \in Reminders : Senders(x)' \subseteq Senders(x)
    BY <1>4, NoReminderAssumption, NoWorkerAssumption
    DEF TypeOK, Structure, Consistent, Untouched, Senders, MaySend, AbandonRequest
  <2>2. \A x \in Reminders : Open(x)' => Open(x)
    BY <1>4, NoReminderAssumption, NoWorkerAssumption
    DEF TypeOK, Structure, Consistent, Untouched, Open, Claimed, AbandonRequest
  <2>3. \A x \in Reminders : Allowance(x) <= Allowance(x)'
    BY <1>4, NoReminderAssumption, NoWorkerAssumption
    DEF TypeOK, Structure, Consistent, Untouched, Allowance, AbandonRequest
  <2>4. UNCHANGED <<delivered, strays>>
    BY <1>4 DEF AbandonRequest
  <2> QED
    BY <2>1, <2>2, <2>3, <2>4, Quiet
<1> QED
  BY <1>1, <1>2, <1>3, <1>4

LEMMA QuietBeforeVerdict ==
  ASSUME TypeOK, TypeOK', Structure, Account, NEW w \in Workers,
         CheckGovernance(w) \/ DispatchGateway(w) \/ ReceiveReply(w) \/
         MarkSentStatus(w)
  PROVE  Account'
<1>1. CASE CheckGovernance(w)
  <2>1. \A x \in Reminders : Senders(x)' \subseteq Senders(x)
    BY <1>1, NoReminderAssumption, NoWorkerAssumption
    DEF TypeOK, Structure, Consistent, Untouched, Senders, MaySend, CheckGovernance
  <2>2. \A x \in Reminders : Open(x)' => Open(x)
    BY <1>1, NoReminderAssumption, NoWorkerAssumption
    DEF TypeOK, Structure, Consistent, Untouched, Open, Claimed, CheckGovernance
  <2>3. \A x \in Reminders : Allowance(x) <= Allowance(x)'
    BY <1>1, NoReminderAssumption, NoWorkerAssumption
    DEF TypeOK, Structure, Consistent, Untouched, Allowance, CheckGovernance
  <2>4. UNCHANGED <<delivered, strays>>
    BY <1>1 DEF CheckGovernance
  <2> QED
    BY <2>1, <2>2, <2>3, <2>4, Quiet
<1>2. CASE DispatchGateway(w)
  <2>1. \A x \in Reminders : Senders(x)' \subseteq Senders(x)
    BY <1>2, NoReminderAssumption, NoWorkerAssumption
    DEF TypeOK, Structure, Consistent, Untouched, Senders, MaySend, DispatchGateway
  <2>2. \A x \in Reminders : Open(x)' => Open(x)
    BY <1>2, NoReminderAssumption, NoWorkerAssumption
    DEF TypeOK, Structure, Consistent, Untouched, Open, Claimed, DispatchGateway
  <2>3. \A x \in Reminders : Allowance(x) <= Allowance(x)'
    BY <1>2, NoReminderAssumption, NoWorkerAssumption
    DEF TypeOK, Structure, Consistent, Untouched, Allowance, DispatchGateway
  <2>4. UNCHANGED <<delivered, strays>>
    BY <1>2 DEF DispatchGateway
  <2> QED
    BY <2>1, <2>2, <2>3, <2>4, Quiet
<1>3. CASE ReceiveReply(w)
  <2>1. \A x \in Reminders : Senders(x)' \subseteq Senders(x)
    BY <1>3, NoReminderAssumption, NoWorkerAssumption
    DEF TypeOK, Structure, Consistent, Untouched, Senders, MaySend, ReceiveReply
  <2>2. \A x \in Reminders : Open(x)' => Open(x)
    BY <1>3, NoReminderAssumption, NoWorkerAssumption
    DEF TypeOK, Structure, Consistent, Untouched, Open, Claimed, ReceiveReply
  <2>3. \A x \in Reminders : Allowance(x) <= Allowance(x)'
    BY <1>3, NoReminderAssumption, NoWorkerAssumption
    DEF TypeOK, Structure, Consistent, Untouched, Allowance, ReceiveReply
  <2>4. UNCHANGED <<delivered, strays>>
    BY <1>3 DEF ReceiveReply
  <2> QED
    BY <2>1, <2>2, <2>3, <2>4, Quiet
<1>4. CASE MarkSentStatus(w)
  <2>1. \A x \in Reminders : Senders(x)' \subseteq Senders(x)
    BY <1>4, NoReminderAssumption, NoWorkerAssumption
    DEF TypeOK, Structure, Consistent, Untouched, Senders, MaySend, MarkSentStatus
  <2>2. \A x \in Reminders : Open(x)' => Open(x)
    BY <1>4, NoReminderAssumption, NoWorkerAssumption
    DEF TypeOK, Structure, Consistent, Untouched, Open, Claimed, MarkSentStatus
  <2>3. \A x \in Reminders : Allowance(x) <= Allowance(x)'
    BY <1>4, NoReminderAssumption, NoWorkerAssumption
    DEF TypeOK, Structure, Consistent, Untouched, Allowance, MarkSentStatus
  <2>4. UNCHANGED <<delivered, strays>>
    BY <1>4 DEF MarkSentStatus
  <2> QED
    BY <2>1, <2>2, <2>3, <2>4, Quiet
<1> QED
  BY <1>1, <1>2, <1>3, <1>4

LEMMA QuietAfterVerdict ==
  ASSUME TypeOK, TypeOK', Structure, Account, NEW w \in Workers,
         MarkReminderMessage(w) \/ PersistOutbound(w) \/ WriteThrows(w) \/
         MarkFailedStatus(w)
  PROVE  Account'
<1>1. CASE MarkReminderMessage(w)
  <2>1. \A x \in Reminders : Senders(x)' \subseteq Senders(x)
    BY <1>1, NoReminderAssumption, NoWorkerAssumption
    DEF TypeOK, Structure, Consistent, Untouched, Senders, MaySend, MarkReminderMessage
  <2>2. \A x \in Reminders : Open(x)' => Open(x)
    BY <1>1, NoReminderAssumption, NoWorkerAssumption
    DEF TypeOK, Structure, Consistent, Untouched, Open, Claimed, MarkReminderMessage
  <2>3. \A x \in Reminders : Allowance(x) <= Allowance(x)'
    BY <1>1, NoReminderAssumption, NoWorkerAssumption
    DEF TypeOK, Structure, Consistent, Untouched, Allowance, MarkReminderMessage
  <2>4. UNCHANGED <<delivered, strays>>
    BY <1>1 DEF MarkReminderMessage
  <2> QED
    BY <2>1, <2>2, <2>3, <2>4, Quiet
<1>2. CASE PersistOutbound(w)
  <2>1. \A x \in Reminders : Senders(x)' \subseteq Senders(x)
    BY <1>2, NoReminderAssumption, NoWorkerAssumption
    DEF TypeOK, Structure, Consistent, Untouched, Senders, MaySend, PersistOutbound
  <2>2. \A x \in Reminders : Open(x)' => Open(x)
    BY <1>2, NoReminderAssumption, NoWorkerAssumption
    DEF TypeOK, Structure, Consistent, Untouched, Open, Claimed, PersistOutbound
  <2>3. \A x \in Reminders : Allowance(x) <= Allowance(x)'
    BY <1>2, NoReminderAssumption, NoWorkerAssumption
    DEF TypeOK, Structure, Consistent, Untouched, Allowance, PersistOutbound
  <2>4. UNCHANGED <<delivered, strays>>
    BY <1>2 DEF PersistOutbound
  <2> QED
    BY <2>1, <2>2, <2>3, <2>4, Quiet
<1>3. CASE WriteThrows(w)
  <2>1. \A x \in Reminders : Senders(x)' \subseteq Senders(x)
    BY <1>3, NoReminderAssumption, NoWorkerAssumption
    DEF TypeOK, Structure, Consistent, Untouched, Senders, MaySend, WriteThrows
  <2>2. \A x \in Reminders : Open(x)' => Open(x)
    BY <1>3, NoReminderAssumption, NoWorkerAssumption
    DEF TypeOK, Structure, Consistent, Untouched, Open, Claimed, WriteThrows
  <2>3. \A x \in Reminders : Allowance(x) <= Allowance(x)'
    BY <1>3, NoReminderAssumption, NoWorkerAssumption
    DEF TypeOK, Structure, Consistent, Untouched, Allowance, WriteThrows
  <2>4. UNCHANGED <<delivered, strays>>
    BY <1>3 DEF WriteThrows
  <2> QED
    BY <2>1, <2>2, <2>3, <2>4, Quiet
<1>4. CASE MarkFailedStatus(w)
  <2>1. \A x \in Reminders : Senders(x)' \subseteq Senders(x)
    BY <1>4, NoReminderAssumption, NoWorkerAssumption
    DEF TypeOK, Structure, Consistent, Untouched, Senders, MaySend, MarkFailedStatus
  <2>2. \A x \in Reminders : Open(x)' => Open(x)
    BY <1>4, NoReminderAssumption, NoWorkerAssumption
    DEF TypeOK, Structure, Consistent, Untouched, Open, Claimed, MarkFailedStatus
  <2>3. \A x \in Reminders : Allowance(x) <= Allowance(x)'
    BY <1>4, NoReminderAssumption, NoWorkerAssumption
    DEF TypeOK, Structure, Consistent, Untouched, Allowance, MarkFailedStatus
  <2>4. UNCHANGED <<delivered, strays>>
    BY <1>4 DEF MarkFailedStatus
  <2> QED
    BY <2>1, <2>2, <2>3, <2>4, Quiet
<1> QED
  BY <1>1, <1>2, <1>3, <1>4

LEMMA QuietEnd ==
  ASSUME TypeOK, TypeOK', Structure, Account, NEW w \in Workers,
         FinishJob(w) \/ GatewayFails(w)
  PROVE  Account'
<1>1. CASE FinishJob(w)
  <2>1. \A x \in Reminders : Senders(x)' \subseteq Senders(x)
    BY <1>1, NoReminderAssumption, NoWorkerAssumption
    DEF TypeOK, Structure, Consistent, Untouched, Senders, MaySend, FinishJob
  <2>2. \A x \in Reminders : Open(x)' => Open(x)
    BY <1>1, NoReminderAssumption, NoWorkerAssumption
    DEF TypeOK, Structure, Consistent, Untouched, Open, Claimed, FinishJob
  <2>3. \A x \in Reminders : Allowance(x) <= Allowance(x)'
    BY <1>1, NoReminderAssumption, NoWorkerAssumption
    DEF TypeOK, Structure, Consistent, Untouched, Allowance, FinishJob
  <2>4. UNCHANGED <<delivered, strays>>
    BY <1>1 DEF FinishJob
  <2> QED
    BY <2>1, <2>2, <2>3, <2>4, Quiet
<1>2. CASE GatewayFails(w)
  <2>1. \A x \in Reminders : Senders(x)' \subseteq Senders(x)
    BY <1>2, NoReminderAssumption, NoWorkerAssumption
    DEF TypeOK, Structure, Consistent, Untouched, Senders, MaySend, GatewayFails
  <2>2. \A x \in Reminders : Open(x)' => Open(x)
    BY <1>2, NoReminderAssumption, NoWorkerAssumption
    DEF TypeOK, Structure, Consistent, Untouched, Open, Claimed, GatewayFails
  <2>3. \A x \in Reminders : Allowance(x) <= Allowance(x)'
    BY <1>2, NoReminderAssumption, NoWorkerAssumption
    DEF TypeOK, Structure, Consistent, Untouched, Allowance, GatewayFails
  <2>4. UNCHANGED <<delivered, strays>>
    BY <1>2 DEF GatewayFails
  <2> QED
    BY <2>1, <2>2, <2>3, <2>4, Quiet
<1> QED
  BY <1>1, <1>2

LEMMA QuietQueue ==
  ASSUME TypeOK, TypeOK', Structure, Account, NEW r \in Reminders, ExpireDeadLock(r) \/ DetectStalled(r)
  PROVE  Account'
<1>1. CASE ExpireDeadLock(r)
  <2>1. \A x \in Reminders : Senders(x)' \subseteq Senders(x)
    BY <1>1, NoReminderAssumption, NoWorkerAssumption
    DEF TypeOK, Structure, Consistent, Untouched, Senders, MaySend, ExpireDeadLock
  <2>2. \A x \in Reminders : Open(x)' => Open(x)
    BY <1>1, NoReminderAssumption, NoWorkerAssumption
    DEF TypeOK, Structure, Consistent, Untouched, Open, Claimed, ExpireDeadLock
  <2>3. \A x \in Reminders : Allowance(x) <= Allowance(x)'
    BY <1>1, NoReminderAssumption, NoWorkerAssumption
    DEF TypeOK, Structure, Consistent, Untouched, Allowance, ExpireDeadLock
  <2>4. UNCHANGED <<delivered, strays>>
    BY <1>1 DEF ExpireDeadLock
  <2> QED
    BY <2>1, <2>2, <2>3, <2>4, Quiet
<1>2. CASE DetectStalled(r)
  <2>1. \A x \in Reminders : Senders(x)' \subseteq Senders(x)
    BY <1>2, NoReminderAssumption, NoWorkerAssumption
    DEF TypeOK, Structure, Consistent, Untouched, Senders, MaySend, DetectStalled
  <2>2. \A x \in Reminders : Open(x)' => Open(x)
    BY <1>2, NoReminderAssumption, NoWorkerAssumption
    DEF TypeOK, Structure, Consistent, Untouched, Open, Claimed, DetectStalled
  <2>3. \A x \in Reminders : Allowance(x) <= Allowance(x)'
    BY <1>2, NoReminderAssumption, NoWorkerAssumption
    DEF TypeOK, Structure, Consistent, Untouched, Allowance, DetectStalled
  <2>4. UNCHANGED <<delivered, strays>>
    BY <1>2 DEF DetectStalled
  <2> QED
    BY <2>1, <2>2, <2>3, <2>4, Quiet
<1> QED
  BY <1>1, <1>2

LEMMA QuietFetch ==
  ASSUME TypeOK, TypeOK', Structure, Account, NEW r \in Reminders, NEW w \in Workers, FetchJob(w, r)
  PROVE  Account'
<1>1. CASE FetchJob(w, r)
  <2>1. \A x \in Reminders : Senders(x)' \subseteq Senders(x)
    BY <1>1, NoReminderAssumption, NoWorkerAssumption
    DEF TypeOK, Structure, Consistent, Untouched, Senders, MaySend, FetchJob
  <2>2. \A x \in Reminders : Open(x)' => Open(x)
    BY <1>1, NoReminderAssumption, NoWorkerAssumption
    DEF TypeOK, Structure, Consistent, Untouched, Open, Claimed, FetchJob
  <2>3. \A x \in Reminders : Allowance(x) <= Allowance(x)'
    BY <1>1, NoReminderAssumption, NoWorkerAssumption
    DEF TypeOK, Structure, Consistent, Untouched, Allowance, FetchJob
  <2>4. UNCHANGED <<delivered, strays>>
    BY <1>1 DEF FetchJob
  <2> QED
    BY <2>1, <2>2, <2>3, <2>4, Quiet
<1> QED
  BY <1>1

-----------------------------------------------------------------------------
(***************************************************************************)
(* The steps that change what is due, each for the reminder it is about.   *)
(* For every other reminder they are quiet.                                *)
(***************************************************************************)

LEMMA CreatePays ==
  ASSUME TypeOK, TypeOK', Structure, Account, NEW c \in Clients, NEW r \in Reminders,
         CreateReminder(c, r)
  PROVE  Account'
<1> SUFFICES ASSUME NEW x \in Reminders
             PROVE  Due(x)' <= Allowance(x)'
  BY DEF Account, Due
<1>1. Due(x) <= Allowance(x)
  BY DEF Account, Due
<1>2. CASE x # r
  <2>1. Senders(x)' \subseteq Senders(x)
    BY <1>2, NoReminderAssumption, NoWorkerAssumption
    DEF TypeOK, Structure, Consistent, Untouched, Senders, MaySend, CreateReminder
  <2>2. Open(x)' => Open(x)
    BY <1>2, NoReminderAssumption, NoWorkerAssumption
    DEF TypeOK, Structure, Consistent, Untouched, Open, Claimed, CreateReminder
  <2>3. Allowance(x) <= Allowance(x)'
    BY <1>2 DEF TypeOK, Allowance, Count, CreateReminder
  <2>4. delivered'[x] + strays'[x] <= delivered[x] + strays[x]
    BY <1>2 DEF TypeOK, Count, CreateReminder
  <2> QED
    BY <1>1, <2>1, <2>2, <2>3, <2>4, QuietReminder
<1>3. CASE x = r
  <2>1. Senders(x)' \subseteq Senders(x)
    BY <1>3, NoReminderAssumption, NoWorkerAssumption
    DEF TypeOK, Structure, Consistent, Untouched, Senders, MaySend, CreateReminder
  <2>2. Allowance(x) + 1 <= Allowance(x)'
    BY <1>3, NoReminderAssumption, NoWorkerAssumption
    DEF TypeOK, Structure, Consistent, Untouched, Allowance, Count, CreateReminder
  <2>3. delivered'[x] + strays'[x] <= delivered[x] + strays[x]
    BY <1>3 DEF TypeOK, CreateReminder
  <2> QED
    BY <1>1, <2>1, <2>2, <2>3, PaidReminder
<1> QED
  BY <1>2, <1>3

LEMMA RetryPays ==
  ASSUME TypeOK, TypeOK', Structure, Account, NEW c \in Clients,
         MarkReminderForRetry(c)
  PROVE  Account'
<1> SUFFICES ASSUME NEW x \in Reminders
             PROVE  Due(x)' <= Allowance(x)'
  BY DEF Account, Due
<1>1. Due(x) <= Allowance(x)
  BY DEF Account, Due
<1>2. CASE x # target[c]
  <2>1. Senders(x)' \subseteq Senders(x)
    BY <1>2, NoReminderAssumption, NoWorkerAssumption
    DEF TypeOK, Structure, Consistent, Untouched, Senders, MaySend, MarkReminderForRetry
  <2>2. Open(x)' => Open(x)
    BY <1>2, NoReminderAssumption, NoWorkerAssumption
    DEF TypeOK, Structure, Consistent, Untouched, Open, Claimed, MarkReminderForRetry
  <2>3. Allowance(x) <= Allowance(x)'
    BY <1>2 DEF TypeOK, Allowance, Count, MarkReminderForRetry
  <2>4. delivered'[x] + strays'[x] <= delivered[x] + strays[x]
    BY <1>2 DEF TypeOK, Count, MarkReminderForRetry
  <2> QED
    BY <1>1, <2>1, <2>2, <2>3, <2>4, QuietReminder
<1>3. CASE x = target[c]
  <2>1. Senders(x)' \subseteq Senders(x)
    BY <1>3, NoReminderAssumption, NoWorkerAssumption
    DEF TypeOK, Structure, Consistent, Untouched, Senders, MaySend, MarkReminderForRetry
  <2>2. Allowance(x) + 1 <= Allowance(x)'
    BY <1>3, NoReminderAssumption, NoWorkerAssumption
    DEF TypeOK, Structure, Consistent, Untouched, Allowance, Count, MarkReminderForRetry
  <2>3. delivered'[x] + strays'[x] <= delivered[x] + strays[x]
    BY <1>3 DEF TypeOK, MarkReminderForRetry
  <2> QED
    BY <1>1, <2>1, <2>2, <2>3, PaidReminder
<1> QED
  BY <1>2, <1>3

LEMMA LostVerdictPays ==
  ASSUME TypeOK, TypeOK', Structure, Account, NEW w \in Workers,
         LoseFailedStatus(w)
  PROVE  Account'
<1> SUFFICES ASSUME NEW x \in Reminders
             PROVE  Due(x)' <= Allowance(x)'
  BY DEF Account, Due
<1>1. Due(x) <= Allowance(x)
  BY DEF Account, Due
<1>2. CASE x # inHand[w]
  <2>1. Senders(x)' \subseteq Senders(x)
    BY <1>2, NoReminderAssumption, NoWorkerAssumption
    DEF TypeOK, Structure, Consistent, Untouched, Senders, MaySend, LoseFailedStatus
  <2>2. Open(x)' => Open(x)
    BY <1>2, NoReminderAssumption, NoWorkerAssumption
    DEF TypeOK, Structure, Consistent, Untouched, Open, Claimed, LoseFailedStatus
  <2>3. Allowance(x) <= Allowance(x)'
    BY <1>2 DEF TypeOK, Allowance, Count, LoseFailedStatus
  <2>4. delivered'[x] + strays'[x] <= delivered[x] + strays[x]
    BY <1>2 DEF TypeOK, Count, LoseFailedStatus
  <2> QED
    BY <1>1, <2>1, <2>2, <2>3, <2>4, QuietReminder
<1>3. CASE x = inHand[w]
  <2>1. Senders(x)' \subseteq Senders(x)
    BY <1>3, NoReminderAssumption, NoWorkerAssumption
    DEF TypeOK, Structure, Consistent, Untouched, Senders, MaySend, LoseFailedStatus
  <2>2. Allowance(x) + 1 <= Allowance(x)'
    BY <1>3, NoReminderAssumption, NoWorkerAssumption
    DEF TypeOK, Structure, Consistent, Untouched, Allowance, Count, LoseFailedStatus
  <2>3. delivered'[x] + strays'[x] <= delivered[x] + strays[x]
    BY <1>3 DEF TypeOK, LoseFailedStatus
  <2> QED
    BY <1>1, <2>1, <2>2, <2>3, PaidReminder
<1> QED
  BY <1>2, <1>3

LEMMA UnreadPays ==
  ASSUME TypeOK, TypeOK', Structure, Account, NEW w \in Workers,
         LoadReminderThrows(w)
  PROVE  Account'
<1> SUFFICES ASSUME NEW x \in Reminders
             PROVE  Due(x)' <= Allowance(x)'
  BY DEF Account, Due
<1>1. Due(x) <= Allowance(x)
  BY DEF Account, Due
<1>2. CASE x # inHand[w]
  <2>1. Senders(x)' \subseteq Senders(x)
    BY <1>2, NoReminderAssumption, NoWorkerAssumption
    DEF TypeOK, Structure, Consistent, Untouched, Senders, MaySend, LoadReminderThrows
  <2>2. Open(x)' => Open(x)
    BY <1>2, NoReminderAssumption, NoWorkerAssumption
    DEF TypeOK, Structure, Consistent, Untouched, Open, Claimed, LoadReminderThrows
  <2>3. Allowance(x) <= Allowance(x)'
    BY <1>2 DEF TypeOK, Allowance, Count, LoadReminderThrows
  <2>4. delivered'[x] + strays'[x] <= delivered[x] + strays[x]
    BY <1>2 DEF TypeOK, Count, LoadReminderThrows
  <2> QED
    BY <1>1, <2>1, <2>2, <2>3, <2>4, QuietReminder
<1>3. CASE x = inHand[w]
  <2>1. Senders(x)' \subseteq Senders(x)
    BY <1>3, NoReminderAssumption, NoWorkerAssumption
    DEF TypeOK, Structure, Consistent, Untouched, Senders, MaySend, LoadReminderThrows
  <2>2. Allowance(x) + 1 <= Allowance(x)'
    BY <1>3, NoReminderAssumption, NoWorkerAssumption
    DEF TypeOK, Structure, Consistent, Untouched, Allowance, Count, LoadReminderThrows
  <2>3. delivered'[x] + strays'[x] <= delivered[x] + strays[x]
    BY <1>3 DEF TypeOK, LoadReminderThrows
  <2> QED
    BY <1>1, <2>1, <2>2, <2>3, PaidReminder
<1> QED
  BY <1>2, <1>3

LEMMA LoadClaims ==
  ASSUME TypeOK, TypeOK', Structure, Account, NEW w \in Workers,
         LoadReminder(w)
  PROVE  Account'
<1> SUFFICES ASSUME NEW x \in Reminders
             PROVE  Due(x)' <= Allowance(x)'
  BY DEF Account, Due
<1>1. Due(x) <= Allowance(x)
  BY DEF Account, Due
<1>2. CASE x # inHand[w]
  <2>1. Senders(x)' \subseteq Senders(x)
    BY <1>2, NoReminderAssumption, NoWorkerAssumption
    DEF TypeOK, Structure, Consistent, Untouched, Senders, MaySend, LoadReminder
  <2>2. Open(x)' => Open(x)
    BY <1>2, NoReminderAssumption, NoWorkerAssumption
    DEF TypeOK, Structure, Consistent, Untouched, Open, Claimed, LoadReminder
  <2>3. Allowance(x) <= Allowance(x)'
    BY <1>2 DEF TypeOK, Allowance, Count, LoadReminder
  <2>4. delivered'[x] + strays'[x] <= delivered[x] + strays[x]
    BY <1>2 DEF TypeOK, Count, LoadReminder
  <2> QED
    BY <1>1, <2>1, <2>2, <2>3, <2>4, QuietReminder
\* The holder of the lock finds the row open and claims it.
<1>3. CASE x = inHand[w] /\ status[x] = "SCHEDULED" /\ lock[x] = w
  <2>1. Senders(x)' \subseteq Senders(x) \cup {w}
    BY <1>3 DEF TypeOK, Structure, Consistent, Untouched, Senders, MaySend, LoadReminder
  <2>2. Open(x)
    BY <1>3 DEF TypeOK, Structure, Consistent, Untouched, Open, Claimed, LoadReminder
  <2>3. ~Open(x)'
    BY <1>3 DEF TypeOK, Structure, Consistent, Untouched, Open, Claimed, LoadReminder
  <2>4. Allowance(x)' = Allowance(x)
    BY DEF Allowance, LoadReminder
  <2>5. UNCHANGED <<delivered, strays>>
    BY DEF LoadReminder
  <2> QED
    BY <1>1, <2>1, <2>2, <2>3, <2>4, <2>5, JoinedReminder, AccountTypes
\* Without the lock it counted as a sender before; a row that is not scheduled
\* ends the run.
<1>4. CASE x = inHand[w] /\ ~(status[x] = "SCHEDULED" /\ lock[x] = w)
  <2>1. Senders(x)' \subseteq Senders(x)
    BY <1>4 DEF TypeOK, Structure, Consistent, Untouched, Senders, MaySend, LoadReminder
  <2>2. Open(x)' => Open(x)
    BY <1>4 DEF TypeOK, Structure, Consistent, Untouched, Open, Claimed, LoadReminder
  <2>3. Allowance(x)' = Allowance(x)
    BY DEF Allowance, LoadReminder
  <2>4. UNCHANGED <<delivered, strays>>
    BY DEF LoadReminder
  <2> QED
    BY <1>1, <2>1, <2>2, <2>3, <2>4, QuietReminder, AccountTypes
<1> QED
  BY <1>2, <1>3, <1>4

LEMMA SendExchanges ==
  ASSUME TypeOK, TypeOK', Structure, Account, NEW w \in Workers,
         GatewaySends(w)
  PROVE  Account'
<1> SUFFICES ASSUME NEW x \in Reminders
             PROVE  Due(x)' <= Allowance(x)'
  BY DEF Account, Due
<1>1. Due(x) <= Allowance(x)
  BY DEF Account, Due
<1>2. CASE x # inHand[w]
  <2>1. Senders(x)' \subseteq Senders(x)
    BY <1>2, NoReminderAssumption, NoWorkerAssumption
    DEF TypeOK, Structure, Consistent, Untouched, Senders, MaySend, GatewaySends
  <2>2. Open(x)' => Open(x)
    BY <1>2, NoReminderAssumption, NoWorkerAssumption
    DEF TypeOK, Structure, Consistent, Untouched, Open, Claimed, GatewaySends
  <2>3. Allowance(x) <= Allowance(x)'
    BY <1>2 DEF TypeOK, Allowance, Count, GatewaySends
  <2>4. delivered'[x] + strays'[x] <= delivered[x] + strays[x]
    BY <1>2 DEF TypeOK, Count, GatewaySends
  <2> QED
    BY <1>1, <2>1, <2>2, <2>3, <2>4, QuietReminder
<1>3. CASE x = inHand[w]
  <2>1. w \in Senders(x)
    BY <1>3 DEF Senders, MaySend, GatewaySends
  <2>2. Senders(x)' \subseteq Senders(x) \ {w}
    BY <1>3 DEF TypeOK, Structure, Consistent, Untouched, Senders, MaySend, GatewaySends
  <2>3. Open(x)' => Open(x)
    BY <1>3 DEF TypeOK, Structure, Consistent, Untouched, Open, Claimed, GatewaySends
  <2>4. Allowance(x)' = Allowance(x)
    BY DEF Allowance, GatewaySends
  <2>5. delivered'[x] + strays'[x] <= delivered[x] + strays[x] + 1
    BY <1>3 DEF TypeOK, Count, GatewaySends
  <2> QED
    BY <1>1, <2>1, <2>2, <2>3, <2>4, <2>5, SentReminder, AccountTypes
<1> QED
  BY <1>2, <1>3

LEMMA LostReplyExchanges ==
  ASSUME TypeOK, TypeOK', Structure, Account, NEW w \in Workers,
         LoseConnection(w)
  PROVE  Account'
<1> SUFFICES ASSUME NEW x \in Reminders
             PROVE  Due(x)' <= Allowance(x)'
  BY DEF Account, Due
<1>1. Due(x) <= Allowance(x)
  BY DEF Account, Due
<1>2. CASE x # inHand[w]
  <2>1. Senders(x)' \subseteq Senders(x)
    BY <1>2, NoReminderAssumption, NoWorkerAssumption
    DEF TypeOK, Structure, Consistent, Untouched, Senders, MaySend, LoseConnection
  <2>2. Open(x)' => Open(x)
    BY <1>2, NoReminderAssumption, NoWorkerAssumption
    DEF TypeOK, Structure, Consistent, Untouched, Open, Claimed, LoseConnection
  <2>3. Allowance(x) <= Allowance(x)'
    BY <1>2 DEF TypeOK, Allowance, Count, LoseConnection
  <2>4. delivered'[x] + strays'[x] <= delivered[x] + strays[x]
    BY <1>2 DEF TypeOK, Count, LoseConnection
  <2> QED
    BY <1>1, <2>1, <2>2, <2>3, <2>4, QuietReminder
<1>3. CASE x = inHand[w] /\ wire[w] = "requested"
  <2>1. w \in Senders(x)
    BY <1>3 DEF Senders, MaySend, LoseConnection
  <2>2. Senders(x)' \subseteq Senders(x) \ {w}
    BY <1>3 DEF TypeOK, Structure, Consistent, Untouched, Senders, MaySend, LoseConnection
  <2>3. Open(x)' => Open(x)
    BY <1>3 DEF TypeOK, Structure, Consistent, Untouched, Open, Claimed, LoseConnection
  <2>4. Allowance(x)' = Allowance(x)
    BY DEF Allowance, LoseConnection
  <2>5. delivered'[x] + strays'[x] <= delivered[x] + strays[x] + 1
    BY <1>3 DEF TypeOK, Count, LoseConnection
  <2> QED
    BY <1>1, <2>1, <2>2, <2>3, <2>4, <2>5, SentReminder, AccountTypes
<1>4. CASE x = inHand[w] /\ wire[w] # "requested"
  <2>1. Senders(x)' \subseteq Senders(x)
    BY <1>4 DEF TypeOK, Structure, Consistent, Untouched, Senders, MaySend, LoseConnection
  <2>2. Open(x)' => Open(x)
    BY <1>4 DEF TypeOK, Structure, Consistent, Untouched, Open, Claimed, LoseConnection
  <2>3. Allowance(x)' = Allowance(x)
    BY DEF Allowance, LoseConnection
  <2>4. delivered'[x] + strays'[x] <= delivered[x] + strays[x]
    BY <1>4 DEF TypeOK, LoseConnection
  <2> QED
    BY <1>1, <2>1, <2>2, <2>3, <2>4, QuietReminder, AccountTypes
<1> QED
  BY <1>2, <1>3, <1>4

LEMMA LostLockPays ==
  ASSUME TypeOK, TypeOK', Structure, Account, NEW w \in Workers,
         LoseLock(w)
  PROVE  Account'
<1> SUFFICES ASSUME NEW x \in Reminders
             PROVE  Due(x)' <= Allowance(x)'
  BY DEF Account, Due
<1>1. Due(x) <= Allowance(x)
  BY DEF Account, Due
<1>2. CASE x # inHand[w]
  <2>1. Senders(x)' \subseteq Senders(x)
    BY <1>2, NoReminderAssumption, NoWorkerAssumption
    DEF TypeOK, Structure, Consistent, Untouched, Senders, MaySend, LoseLock
  <2>2. Open(x)' => Open(x)
    BY <1>2, NoReminderAssumption, NoWorkerAssumption
    DEF TypeOK, Structure, Consistent, Untouched, Open, Claimed, LoseLock
  <2>3. Allowance(x) <= Allowance(x)'
    BY <1>2 DEF TypeOK, Allowance, Count, LoseLock
  <2>4. delivered'[x] + strays'[x] <= delivered[x] + strays[x]
    BY <1>2 DEF TypeOK, Count, LoseLock
  <2> QED
    BY <1>1, <2>1, <2>2, <2>3, <2>4, QuietReminder
\* A handler that has not read the row yet may now send without the lock.
<1>3. CASE x = inHand[w] /\ stage[w] = "load_reminder"
  <2>1. Senders(x)' \subseteq Senders(x) \cup {w}
    BY <1>3, NoReminderAssumption, NoWorkerAssumption
    DEF TypeOK, Structure, Consistent, Untouched, Senders, MaySend, LoseLock
  <2>2. Open(x)' => Open(x)
    BY <1>3, NoReminderAssumption, NoWorkerAssumption
    DEF TypeOK, Structure, Consistent, Untouched, Open, Claimed, LoseLock
  <2>3. Allowance(x) + 1 <= Allowance(x)'
    BY <1>3 DEF TypeOK, Allowance, Count, LoseLock
  <2>4. UNCHANGED <<delivered, strays>>
    BY DEF LoseLock
  <2> QED
    BY <1>1, <2>1, <2>2, <2>3, <2>4, JoinedReminder, AccountTypes
\* One that has was counted before; only its row may open.
<1>4. CASE x = inHand[w] /\ stage[w] # "load_reminder"
  <2>1. Senders(x)' \subseteq Senders(x)
    BY <1>4, NoReminderAssumption, NoWorkerAssumption
    DEF TypeOK, Structure, Consistent, Untouched, Senders, MaySend, LoseLock
  <2>2. Allowance(x) + 1 <= Allowance(x)'
    BY <1>4 DEF TypeOK, Allowance, Count, LoseLock
  <2>3. UNCHANGED <<delivered, strays>>
    BY DEF LoseLock
  <2> QED
    BY <1>1, <2>1, <2>2, <2>3, PaidReminder, AccountTypes
<1> QED
  BY <1>2, <1>3, <1>4

LEMMA CrashPays ==
  ASSUME TypeOK, TypeOK', Structure, Account, NEW w \in Workers,
         Crash(w)
  PROVE  Account'
<1> SUFFICES ASSUME NEW x \in Reminders
             PROVE  Due(x)' <= Allowance(x)'
  BY DEF Account, Due
<1>1. Due(x) <= Allowance(x)
  BY DEF Account, Due
<1>2. CASE x # inHand[w]
  <2>1. Senders(x)' \subseteq Senders(x)
    BY <1>2, NoReminderAssumption, NoWorkerAssumption
    DEF TypeOK, Structure, Consistent, Untouched, Senders, MaySend, Crash
  <2>2. Open(x)' => Open(x)
    BY <1>2, NoReminderAssumption, NoWorkerAssumption
    DEF TypeOK, Structure, Consistent, Untouched, Open, Claimed, Crash
  <2>3. Allowance(x) <= Allowance(x)'
    BY <1>2 DEF TypeOK, Allowance, Count, Crash
  <2>4. delivered'[x] + strays'[x] <= delivered[x] + strays[x]
    BY <1>2 DEF TypeOK, Count, Crash
  <2> QED
    BY <1>1, <2>1, <2>2, <2>3, <2>4, QuietReminder
\* Its request is left behind ...
<1>3. CASE x = inHand[w] /\ wire[w] = "requested"
  <2>1. w \in Senders(x)
    BY <1>3 DEF Senders, MaySend
  <2>2. Senders(x)' \subseteq Senders(x) \ {w}
    BY <1>3, NoReminderAssumption, NoWorkerAssumption
    DEF TypeOK, Structure, Consistent, Untouched, Senders, MaySend, Crash
  <2>3. Allowance(x) + 1 <= Allowance(x)'
    BY <1>3 DEF TypeOK, Allowance, Count, Crash
  <2>4. delivered'[x] + strays'[x] <= delivered[x] + strays[x] + 1
    BY <1>3 DEF TypeOK, Count, Crash
  <2> QED
    BY <1>1, <2>1, <2>2, <2>3, <2>4, SentReminder, AccountTypes
\* ... or there is none.
<1>4. CASE x = inHand[w] /\ wire[w] # "requested"
  <2>1. Senders(x)' \subseteq Senders(x)
    BY <1>4, NoReminderAssumption, NoWorkerAssumption
    DEF TypeOK, Structure, Consistent, Untouched, Senders, MaySend, Crash
  <2>2. Allowance(x) + 1 <= Allowance(x)'
    BY <1>4 DEF TypeOK, Allowance, Count, Crash
  <2>3. delivered'[x] + strays'[x] <= delivered[x] + strays[x]
    BY <1>4 DEF TypeOK, Crash
  <2> QED
    BY <1>1, <2>1, <2>2, <2>3, PaidReminder
<1> QED
  BY <1>2, <1>3, <1>4

LEMMA StrayExchanges ==
  ASSUME TypeOK, TypeOK', Structure, Account, NEW r \in Reminders,
         ServeStray(r)
  PROVE  Account'
<1> SUFFICES ASSUME NEW x \in Reminders
             PROVE  Due(x)' <= Allowance(x)'
  BY DEF Account, Due
<1>1. Due(x) <= Allowance(x)
  BY DEF Account, Due
<1>2. Senders(x)' \subseteq Senders(x)
  BY DEF Senders, MaySend, ServeStray
<1>3. Open(x)' => Open(x)
  BY DEF Open, Claimed, ServeStray
<1>4. Allowance(x)' = Allowance(x)
  BY DEF Allowance, ServeStray
<1>5. delivered'[x] + strays'[x] <= delivered[x] + strays[x]
  BY DEF TypeOK, Count, ServeStray
<1> QED
  BY <1>1, <1>2, <1>3, <1>4, <1>5, QuietReminder, AccountTypes

-----------------------------------------------------------------------------
LEMMA AccountInit == Init => Account
<1> SUFFICES ASSUME Init, NEW r \in Reminders
             PROVE  Due(r) <= Allowance(r)
  BY DEF Account, Due
<1>1. Senders(r) = {}
  BY NoReminderAssumption DEF Init, Senders, MaySend
<1>2. Cardinality(Senders(r)) = 0
  BY <1>1, FS_EmptySet
<1>3. ~Open(r)
  BY DEF Init, Open
<1> QED
  BY <1>2, <1>3 DEF Init, Due, Allowance

LEMMA AccountStep ==
  TypeOK /\ TypeOK' /\ Structure /\ Account /\ [Next]_vars => Account'
<1> SUFFICES ASSUME TypeOK, TypeOK', Structure, Account, [Next]_vars
             PROVE  Account'
  OBVIOUS
<1>1. ASSUME NEW c \in Clients, ClientNext(c) PROVE Account'
  BY <1>1, CreatePays, RetryPays, QuietCommand, QuietRequest DEF ClientNext
<1>2. ASSUME NEW w \in Workers, WorkerNext(w) PROVE Account'
  BY <1>2, LoadClaims, QuietBeforeVerdict, QuietAfterVerdict, QuietEnd,
     LostVerdictPays, UnreadPays, SendExchanges, LostReplyExchanges, LostLockPays, CrashPays
  DEF WorkerNext, WorkerRun, GatewayServes
<1>3. CASE QueueNext
  BY <1>3, QuietQueue, QuietFetch, StrayExchanges DEF QueueNext
<1>4. CASE UNCHANGED vars
  BY <1>4 DEF vars, Account, Senders, MaySend, Open, Claimed, Allowance
<1> QED
  BY <1>1, <1>2, <1>3, <1>4 DEF Next

LEMMA AccountHolds == Spec => []Account
<1>1. TypeOK /\ [Next]_vars => TypeOK'
  BY TypeStep
<1> QED
  BY <1>1, TypeCorrect, StructureHolds, AccountInit, AccountStep, PTL DEF Spec

\* No reminder causes more messages than its creation, the retries an operator
\* wrote and the runs that ended without a verdict account for.
THEOREM Paid == Spec => []DeliveriesArePaid
<1>1. TypeOK /\ Account => DeliveriesArePaid
  <2> SUFFICES ASSUME TypeOK, Account, NEW r \in Reminders
               PROVE  delivered[r] <= Allowance(r)
    BY DEF DeliveriesArePaid
  <2>1. Due(r) <= Allowance(r)
    BY DEF Account, Due
  <2>2. Cardinality(Senders(r)) \in Nat
    BY SomeWorkers, SendersAreWorkers
  <2> QED
    BY <2>1, <2>2 DEF Due, TypeOK, Allowance
<1> QED
  BY <1>1, TypeCorrect, AccountHolds, PTL

-----------------------------------------------------------------------------
(***************************************************************************)
(* The subsystem implements the ledger: every step opens, reopens, faults, *)
(* delivers or settles one reminder of the ledger, or changes nothing in   *)
(* it.  A delivery needs a free allowance, which is what Account provides. *)
(***************************************************************************)

\* The ledger's allowances.
Allowances == [r \in Reminders |-> Allowance(r)]

LEMMA LedgerInit == Init => Ledger!Init
  BY DEF Init, Ledger!Init, Allowance

\* One more in the allowance of one reminder only is one more in Allowances.
LEMMA Allowed ==
  ASSUME NEW r \in Reminders,
         Allowance(r)' = Allowance(r) + 1,
         \A x \in Reminders : x # r => Allowance(x)' = Allowance(x)
  PROVE  Allowances' = [Allowances EXCEPT ![r] = @ + 1]
  BY DEF Allowances

LEMMA SameAllowances ==
  ASSUME \A x \in Reminders : Allowance(x)' = Allowance(x)
  PROVE  Allowances' = Allowances
  BY DEF Allowances

\* A handler with a request at the gateway has an allowance left, and so does
\* a request left behind.
LEMMA MayDeliver ==
  ASSUME TypeOK, Account, NEW r \in Reminders,
         strays[r] > 0 \/ Senders(r) # {}
  PROVE  delivered[r] < Allowance(r)
<1>1. Due(r) <= Allowance(r)
  BY DEF Account, Due
<1>2. Cardinality(Senders(r)) \in Nat
  BY SomeWorkers, SendersAreWorkers
<1>3. Senders(r) # {} => Cardinality(Senders(r)) # 0
  BY SomeWorkers, SendersAreWorkers, FS_EmptySet
<1> QED
  BY <1>1, <1>2, <1>3 DEF Due, TypeOK, Allowance

LedgerStep == [Ledger!Next]_(Ledger!vars)

\* Nothing of the ledger changes.
LEMMA Stutter ==
  ASSUME UNCHANGED <<status, retries, faults, delivered>>
  PROVE  LedgerStep
<1>1. Allowances' = Allowances
  BY SameAllowances DEF Allowance
<1> QED
  BY <1>1 DEF LedgerStep, Ledger!vars, Allowances

LEMMA StepSettles ==
  ASSUME NEW r \in Reminders, NEW s \in {"CANCELED", "FAILED", "SENT"},
         status[r] # "NONE",
         s = "SENT" => delivered[r] > 0,
         TypeOK,
         status' = [status EXCEPT ![r] = s],
         UNCHANGED <<retries, faults, delivered>>
  PROVE  LedgerStep
<1>1. Allowances' = Allowances
  BY SameAllowances DEF Allowance, TypeOK
<1>2. Ledger!Settle(r)
  BY <1>1 DEF Ledger!Settle, Ledger!Becomes, Allowances
<1> QED
  BY <1>2 DEF LedgerStep, Ledger!Next

LEMMA StepFaults ==
  ASSUME NEW r \in Reminders, TypeOK, status[r] # "NONE",
         faults' = [faults EXCEPT ![r] = @ + 1],
         UNCHANGED <<status, retries, delivered>>
  PROVE  LedgerStep
<1>1. Allowances' = [Allowances EXCEPT ![r] = @ + 1]
  <2>1. Allowance(r)' = Allowance(r) + 1
    BY DEF Allowance, TypeOK
  <2>2. \A x \in Reminders : x # r => Allowance(x)' = Allowance(x)
    BY DEF Allowance, TypeOK
  <2> QED
    BY <2>1, <2>2, Allowed
<1>2. Ledger!Fault(r)
  BY <1>1 DEF Ledger!Fault, Ledger!Allow, Allowances
<1> QED
  BY <1>2 DEF LedgerStep, Ledger!Next

LEMMA StepDelivers ==
  ASSUME NEW r \in Reminders, TypeOK, delivered[r] < Allowance(r),
         delivered' = [delivered EXCEPT ![r] = @ + 1],
         UNCHANGED <<status, retries, faults>>
  PROVE  LedgerStep
<1>1. Allowances' = Allowances
  BY SameAllowances DEF Allowance
<1>2. Ledger!Deliver(r)
  BY <1>1 DEF Ledger!Deliver, Allowances
<1> QED
  BY <1>2 DEF LedgerStep, Ledger!Next

LEMMA LedgerClient ==
  ASSUME TypeOK, Structure, NEW c \in Clients, ClientNext(c)
  PROVE  LedgerStep
<1>1. ASSUME NEW r \in Reminders, CreateReminder(c, r) PROVE LedgerStep
  <2>1. Allowances' = [Allowances EXCEPT ![r] = @ + 1]
    BY <1>1, Allowed DEF Allowance, TypeOK, CreateReminder
  <2>2. Ledger!Open(r)
    BY <1>1, <2>1
    DEF Ledger!Open, Ledger!Becomes, Ledger!Allow, Allowances, CreateReminder
  <2> QED
    BY <2>2 DEF LedgerStep, Ledger!Next
<1>2. ASSUME NEW r \in Reminders, DeleteReminder(c, r) PROVE LedgerStep
  BY <1>2, StepSettles DEF DeleteReminder
<1>3. ASSUME NEW r \in Reminders, UpdateReminder(c, r) \/ RetryReadFailed(c, r)
      PROVE  LedgerStep
  BY <1>3, Stutter DEF UpdateReminder, RetryReadFailed
<1>4. CASE MarkReminderForRetry(c)
  <2>1. target[c] \in Reminders /\ status[target[c]] # "NONE"
    BY <1>4 DEF MarkReminderForRetry, Structure, Consistent, Untouched, TypeOK
  <2>2. Allowances' = [Allowances EXCEPT ![target[c]] = @ + 1]
    BY <1>4, <2>1, Allowed DEF Allowance, Count, TypeOK, MarkReminderForRetry
  <2>3. Ledger!Reopen(target[c])
    BY <1>4, <2>1, <2>2
    DEF Ledger!Reopen, Ledger!Becomes, Ledger!Allow, Allowances, MarkReminderForRetry
  <2> QED
    BY <2>1, <2>3 DEF LedgerStep, Ledger!Next
<1>5. CASE AddJobFails(c)
  <2>1. target[c] \in Reminders /\ status[target[c]] # "NONE"
    BY <1>5 DEF AddJobFails, Structure, Consistent, Untouched, TypeOK
  <2>2. CASE step[c] = "retry_add"
    BY <1>5, <2>1, <2>2, StepSettles DEF AddJobFails
  <2>3. CASE step[c] # "retry_add"
    BY <1>5, <2>3, Stutter DEF AddJobFails
  <2> QED
    BY <2>2, <2>3
<1>6. CASE RemoveJob(c) \/ AddJob(c) \/ AbandonRequest(c)
  BY <1>6, Stutter DEF RemoveJob, AddJob, AbandonRequest
<1> QED
  BY <1>1, <1>2, <1>3, <1>4, <1>5, <1>6 DEF ClientNext

LEMMA LedgerWorker ==
  ASSUME TypeOK, Structure, Account, NEW w \in Workers, WorkerNext(w)
  PROVE  LedgerStep
\* A handler at work has a reminder, and its row exists.
<1>1. ASSUME stage[w] # "idle"
      PROVE  inHand[w] \in Reminders /\ status[inHand[w]] # "NONE"
  BY <1>1 DEF Structure, Consistent, Untouched, TypeOK
<1>2. CASE MarkSentStatus(w)
  <2>1. delivered[inHand[w]] > 0
    BY <1>2 DEF MarkSentStatus, Structure, Confirmed
  <2> QED
    BY <1>1, <1>2, <2>1, StepSettles DEF MarkSentStatus
<1>3. CASE MarkFailedStatus(w)
  BY <1>1, <1>3, StepSettles DEF MarkFailedStatus
<1>4. CASE LoadReminderThrows(w) \/ LoseFailedStatus(w)
  BY <1>1, <1>4, StepFaults DEF LoadReminderThrows, LoseFailedStatus, Count
<1>5. CASE LoseLock(w) \/ Crash(w)
  <2>1. stage[w] # "idle"
    BY <1>5 DEF LoseLock, Crash, Structure, Consistent
  <2> QED
    BY <1>1, <1>5, <2>1, StepFaults DEF LoseLock, Crash, Count
<1>6. CASE GatewaySends(w)
  <2>1. stage[w] # "idle"
    BY <1>6 DEF GatewaySends, Structure, Consistent
  <2>2. w \in Senders(inHand[w])
    BY <1>6 DEF GatewaySends, Senders, MaySend
  <2>3. delivered[inHand[w]] < Allowance(inHand[w])
    BY <1>1, <2>1, <2>2, MayDeliver
  <2> QED
    BY <1>1, <1>6, <2>1, <2>3, StepDelivers DEF GatewaySends, Count
<1>7. CASE \/ LoadReminder(w) \/ CheckGovernance(w) \/ DispatchGateway(w)
           \/ ReceiveReply(w) \/ MarkReminderMessage(w) \/ PersistOutbound(w)
           \/ WriteThrows(w) \/ FinishJob(w) \/ GatewayFails(w) \/ LoseConnection(w)
  BY <1>7, Stutter
  DEF LoadReminder, CheckGovernance, DispatchGateway, ReceiveReply,
      MarkReminderMessage, PersistOutbound, WriteThrows, FinishJob, GatewayFails,
      LoseConnection
<1> QED
  BY <1>2, <1>3, <1>4, <1>5, <1>6, <1>7 DEF WorkerNext, WorkerRun, GatewayServes

LEMMA LedgerQueue ==
  ASSUME TypeOK, Account, QueueNext
  PROVE  LedgerStep
<1>1. ASSUME NEW r \in Reminders, ServeStray(r) PROVE LedgerStep
  <2>1. CASE delivered' = Count(delivered, r)
    BY <1>1, <2>1, MayDeliver, StepDelivers DEF ServeStray, Count
  <2>2. CASE UNCHANGED delivered
    BY <1>1, <2>2, Stutter DEF ServeStray
  <2> QED
    BY <1>1, <2>1, <2>2 DEF ServeStray
<1>2. ASSUME NEW r \in Reminders, ExpireDeadLock(r) \/ DetectStalled(r)
      PROVE  LedgerStep
  BY <1>2, Stutter DEF ExpireDeadLock, DetectStalled
<1>3. ASSUME NEW r \in Reminders, NEW w \in Workers, FetchJob(w, r)
      PROVE  LedgerStep
  BY <1>3, Stutter DEF FetchJob
<1> QED
  BY <1>1, <1>2, <1>3 DEF QueueNext

\* Every behaviour of the reminder subsystem is one the ledger allows.
THEOREM Implements == Spec => ImplementsLedger
<1>1. TypeOK /\ Structure /\ Account /\ [Next]_vars => LedgerStep
  <2>1. ASSUME UNCHANGED vars PROVE LedgerStep
    BY <2>1, Stutter DEF vars
  <2> QED
    BY <2>1, LedgerClient, LedgerWorker, LedgerQueue DEF Next
<1> QED
  BY <1>1, LedgerInit, TypeCorrect, StructureHolds, AccountHolds, PTL
  DEF Spec, ImplementsLedger, Ledger!Spec, LedgerStep
=============================================================================
