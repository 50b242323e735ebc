-------------------------- MODULE WaGateway_proofs --------------------------
(***************************************************************************)
(* Proofs about the inbound side of wa-gateway: WaConnector, for any       *)
(* number of disconnects and of refused heartbeat writes, and              *)
(* InboundGuard, for any messages, calls, times and bounds.                *)
(***************************************************************************)
EXTENDS WaConnector, InboundGuard, SequenceTheorems, TLAPS

-----------------------------------------------------------------------------
(***************************************************************************)
(* The connector.  The invariant: there is at most one thing that will     *)
(* replace the socket, an attempt under way, an armed timer or a close     *)
(* handler, and none while the newest socket is alive or once it has been  *)
(* logged out.                                                             *)
(***************************************************************************)

USE ConnectorBounds
USE DEF Generation, NoSocket, handlerVars, ConnectStage, Connection, Live, Disconnect, Refuse

\* Only the newest socket lives, is handed out or has a close handler.
Newest ==
  \A g \in Generation :
    /\ g > connectionGeneration => connection[g] = "none"
    /\ g < connectionGeneration => connection[g] \in {"none", "closed"}
    /\ g = socket => connection[g] \in Live
    /\ connection[g] \in Live => g = currentSocket /\ g = socket
    /\ closing[g] # "none" => connection[g] \in {"closed", "loggedOut"}
    /\ closing[g] = "reconnect" => connection[g] = "closed"
    /\ closing[g] # "none" => g = connectionGeneration

\* What is under way excludes the rest.
OneDriver ==
  LET newest == connection[connectionGeneration] IN
  /\ connectStage # "idle" =>
       /\ newest = "none"
       /\ ~reconnectTimer
  /\ newest # "none" => connectStage = "idle"
  /\ reconnectTimer =>
       /\ newest \in {"none", "closed"}
       /\ closing[connectionGeneration] = "none"

\* Every attempt but the last has cost a disconnect.
AttemptsArePaid ==
  connectionGeneration <=
    IF connectStage = "preparing" \/ connection[connectionGeneration] \in Live
      THEN disconnects + 1
      ELSE disconnects

ConnectorIInv == ConnectorTypeOK /\ Newest /\ OneDriver /\ AttemptsArePaid

LEMMA ConnectorIInit == ConnectorInit => ConnectorIInv
<1> SUFFICES ASSUME ConnectorInit PROVE ConnectorIInv
  OBVIOUS
<1>1. ConnectorTypeOK
  <2>1. 1 \in Generation /\ 0 \in 0 .. MaxDisconnects /\ 0 \in 0 .. MaxRefusals
    OBVIOUS
  <2>2. connection \in [Generation -> Connection]
    BY DEF ConnectorInit
  <2>3. closing \in [Generation -> {"none", "reconnect", "stop"}]
    BY DEF ConnectorInit
  <2> QED
    BY <2>1, <2>2, <2>3 DEF ConnectorInit, ConnectorTypeOK
<1>2. Newest
  BY DEF ConnectorInit, Newest
<1>3. OneDriver
  BY DEF ConnectorInit, OneDriver
<1>4. AttemptsArePaid
  BY DEF ConnectorInit, AttemptsArePaid
<1> QED
  BY <1>1, <1>2, <1>3, <1>4 DEF ConnectorIInv

LEMMA ConnectingStep ==
  ASSUME ConnectorIInv, Connecting PROVE ConnectorIInv'
<1> USE DEF ConnectorIInv, ConnectorTypeOK
<1>1. CASE TimerFires
  <2>1. connectStage = "idle" /\ connectionGeneration <= disconnects
    BY <1>1 DEF TimerFires, OneDriver, AttemptsArePaid
  <2>2. ConnectorTypeOK'
    <3>1. connectionGeneration + 1 \in 1 .. MaxDisconnects + 1
      BY <2>1
    <3> QED
      BY <1>1, <2>1, <3>1 DEF TimerFires
  <2>3. Newest'
    BY <1>1, <2>1 DEF TimerFires, Newest, OneDriver
  <2>4. OneDriver'
    BY <1>1, <2>1, <2>2 DEF TimerFires, Newest, OneDriver
  <2>5. AttemptsArePaid'
    BY <1>1, <2>1 DEF TimerFires, AttemptsArePaid
  <2> QED
    BY <2>2, <2>3, <2>4, <2>5
<1>2. CASE SocketCreated
  <2>1. \A g \in Generation : connection[g] \notin Live
    BY <1>2 DEF SocketCreated, Newest, OneDriver
  <2>2. connection' = [connection EXCEPT ![connectionGeneration] = "connecting"]
    BY <1>2, <2>1 DEF SocketCreated
  <2>3. ConnectorTypeOK'
    BY <1>2, <2>2 DEF SocketCreated
  <2>4. Newest'
    BY <1>2, <2>1, <2>2 DEF SocketCreated, Newest, OneDriver
  <2>5. OneDriver' /\ AttemptsArePaid'
    BY <1>2, <2>2 DEF SocketCreated, Newest, OneDriver, AttemptsArePaid
  <2> QED
    BY <2>3, <2>4, <2>5
<1>3. CASE ConnectFails
  BY <1>3 DEF ConnectFails, Newest, OneDriver, AttemptsArePaid
<1>4. CASE FailureMarked
  BY <1>4 DEF FailureMarked, Newest, OneDriver, AttemptsArePaid
<1>5. CASE FailureRefused
  BY <1>5 DEF FailureRefused, Newest, OneDriver, AttemptsArePaid
<1> QED
  BY <1>1, <1>2, <1>3, <1>4, <1>5 DEF Connecting

LEMMA WhatsAppStep ==
  ASSUME ConnectorIInv, NEW g \in Generation, WhatsApp(g) PROVE ConnectorIInv'
<1> USE DEF ConnectorIInv, ConnectorTypeOK
<1>1. CASE SocketOpens(g)
  <2>1. g = connectionGeneration
    BY <1>1 DEF SocketOpens, Newest
  <2> QED
    BY <1>1, <2>1 DEF SocketOpens, Newest, OneDriver, AttemptsArePaid
<1>2. CASE SocketCloses(g)
  <2>1. g = connectionGeneration /\ connection[g] \in Live
    BY <1>2 DEF SocketCloses, Newest
  <2>2. PICK s \in {"closed", "loggedOut"} :
          /\ connection' = [connection EXCEPT ![g] = s]
          /\ socket' = NoSocket
          /\ closing' = [closing EXCEPT ![g] = IF s = "loggedOut" THEN "stop" ELSE "reconnect"]
    BY <1>2, <2>1 DEF SocketCloses
  <2>3. ConnectorTypeOK'
    BY <1>2, <2>2 DEF SocketCloses
  <2>4. Newest'
    BY <1>2, <2>1, <2>2 DEF SocketCloses, Newest
  <2>5. OneDriver' /\ AttemptsArePaid'
    BY <1>2, <2>1, <2>2 DEF SocketCloses, OneDriver, AttemptsArePaid
  <2> QED
    BY <2>3, <2>4, <2>5
<1> QED
  BY <1>1, <1>2 DEF WhatsApp

LEMMA HandlerStep ==
  ASSUME ConnectorIInv, NEW g \in Generation, Handler(g) PROVE ConnectorIInv'
<1> USE DEF ConnectorIInv, ConnectorTypeOK
<1>1. CASE OpenMarked(g)
  BY <1>1 DEF OpenMarked, Newest, OneDriver, AttemptsArePaid
<1>2. CASE OpenFails(g)
  BY <1>2 DEF OpenFails, Newest, OneDriver, AttemptsArePaid
<1>3. CASE CloseMarked(g)
  <2>1. g = connectionGeneration
    BY <1>3 DEF CloseMarked, Newest
  <2> QED
    BY <1>3, <2>1 DEF CloseMarked, Newest, OneDriver, AttemptsArePaid
<1>4. CASE CloseRefused(g)
  BY <1>4 DEF CloseRefused, Newest, OneDriver, AttemptsArePaid
<1> QED
  BY <1>1, <1>2, <1>3, <1>4 DEF Handler

LEMMA ConnectorIStep == ConnectorIInv /\ [ConnectorNext]_connectorVars => ConnectorIInv'
<1>1. ASSUME ConnectorIInv, Beat PROVE ConnectorIInv'
  BY <1>1 DEF Beat, ConnectorIInv, ConnectorTypeOK, Newest, OneDriver, AttemptsArePaid
<1>2. ASSUME ConnectorIInv, UNCHANGED connectorVars PROVE ConnectorIInv'
  BY <1>2 DEF connectorVars, ConnectorIInv, ConnectorTypeOK, Newest, OneDriver, AttemptsArePaid
<1> QED
  BY <1>1, <1>2, ConnectingStep, WhatsAppStep, HandlerStep DEF ConnectorNext

LEMMA ConnectorIAlways == ConnectorSpec => []ConnectorIInv
BY ConnectorIInit, ConnectorIStep, PTL DEF ConnectorSpec

\* The variables keep their types, for any number of sockets, attempts and
\* faults.
THEOREM ConnectorTypeCorrect == ConnectorSpec => []ConnectorTypeOK
  BY ConnectorIAlways, PTL DEF ConnectorIInv

\* While a socket is alive nothing is under way that would replace it.
THEOREM NoSecondSocket == ConnectorSpec => []LiveSocketIsLeftAlone
<1>1. ConnectorIInv => LiveSocketIsLeftAlone
  <2> SUFFICES ASSUME ConnectorIInv, NEW g \in Generation, connection[g] \in Live
               PROVE  /\ g = connectionGeneration /\ g = currentSocket /\ g = socket
                      /\ connectStage = "idle"
                      /\ ~reconnectTimer
                      /\ \A h \in Generation : closing[h] = "none"
    BY DEF LiveSocketIsLeftAlone
  <2>1. g = connectionGeneration /\ g = currentSocket /\ g = socket
    BY DEF ConnectorIInv, ConnectorTypeOK, Newest
  <2>2. connectStage = "idle" /\ ~reconnectTimer
    BY <2>1 DEF ConnectorIInv, ConnectorTypeOK, OneDriver
  <2>3. \A h \in Generation : closing[h] = "none"
    BY <2>1 DEF ConnectorIInv, ConnectorTypeOK, Newest
  <2> QED
    BY <2>1, <2>2, <2>3
<1> QED
  BY <1>1, ConnectorIAlways, PTL

\* The gateway is never left with a socket that has closed.
THEOREM NoDeadSocket == ConnectorSpec => []ExposedSocketIsLive
<1>1. ConnectorIInv => ExposedSocketIsLive
  BY DEF ConnectorIInv, ConnectorTypeOK, Newest, ExposedSocketIsLive
<1> QED
  BY <1>1, ConnectorIAlways, PTL

\* No attempt follows a logout.
THEOREM LogoutIsFinal == ConnectorSpec => LoggedOutStaysOut
<1>1. ConnectorIInv /\ [ConnectorNext]_connectorVars =>
        [LoggedOut => connectionGeneration' = connectionGeneration]_connectorVars
  <2> SUFFICES ASSUME ConnectorIInv, ConnectorNext, LoggedOut
               PROVE  connectionGeneration' = connectionGeneration
    BY DEF connectorVars
  <2>1. ~reconnectTimer
    BY DEF ConnectorIInv, ConnectorTypeOK, Newest, OneDriver, LoggedOut
  <2> QED
    BY <2>1 DEF ConnectorNext, Connecting, WhatsApp, Handler, TimerFires, SocketCreated,
                ConnectFails,
                FailureMarked, FailureRefused, SocketOpens, SocketCloses, OpenMarked,
                OpenFails, CloseMarked, CloseRefused, Beat
<1> QED
  BY <1>1, ConnectorIAlways, PTL DEF ConnectorSpec, LoggedOutStaysOut

-----------------------------------------------------------------------------
(***************************************************************************)
(* The inbound guard.                                                      *)
(***************************************************************************)

HIDE ConnectorBounds
USE MessagesAssumption, TimesAssumption, BoundsAssumption
USE DEF runVars, fateVars, clockVars, GoTo, Fault, Current

-----------------------------------------------------------------------------
(***************************************************************************)
(* Batches.                                                                *)
(***************************************************************************)

\* A batch consists of its head and the rest.
LEMMA HeadAndRest ==
  ASSUME NEW S, NEW s \in Seq(S), s # <<>>
  PROVE  /\ Head(s) \in S
         /\ Tail(s) \in Seq(S)
         /\ Elements(s) = {Head(s)} \cup Elements(Tail(s))
<1>1. Head(s) \in S /\ Tail(s) \in Seq(S) /\ Len(Tail(s)) = Len(s) - 1
  BY HeadTailProperties
<1>2. \A i \in 1 .. Len(Tail(s)) : Tail(s)[i] = s[i + 1]
  BY HeadTailProperties
<1>3. Len(s) \in Nat \ {0} /\ Head(s) = s[1]
  BY EmptySeq
<1>4. \A i \in 2 .. Len(s) : i - 1 \in 1 .. Len(Tail(s)) /\ s[i] = Tail(s)[i - 1]
  BY <1>1, <1>2, <1>3
<1>5. 1 .. Len(s) = {1} \cup 2 .. Len(s)
  BY <1>3
<1>6. Elements(s) \subseteq {Head(s)} \cup Elements(Tail(s))
  BY <1>3, <1>4, <1>5 DEF Elements
<1>7. \A i \in 1 .. Len(Tail(s)) : i + 1 \in 1 .. Len(s) /\ Tail(s)[i] = s[i + 1]
  BY <1>1, <1>2, <1>3
<1>8. {Head(s)} \cup Elements(Tail(s)) \subseteq Elements(s)
  BY <1>3, <1>7 DEF Elements
<1> QED
  BY <1>1, <1>6, <1>8

LEMMA ElementsType ==
  ASSUME NEW S, NEW s \in Seq(S)
  PROVE  Elements(s) \subseteq S
BY ElementOfSeq DEF Elements

LEMMA NoElements == Elements(<<>>) = {}
BY DEF Elements

\* What WhatsApp hands over is a sequence of messages that exist.
LEMMA BatchIsSequence ==
  ASSUME NEW S, NEW b \in Batches, Elements(b) \subseteq S
  PROVE  b \in Seq(S) /\ b # <<>>
<1>1. PICK n \in 1 .. MaxBatch : b \in [1 .. n -> Messages]
  BY DEF Batches
<1>2. Len(b) = n /\ b \in Seq(Messages)
  BY <1>1
<1>3. b \in [1 .. n -> S]
  BY <1>1, <1>2 DEF Elements
<1>4. b \in Seq(S)
  BY <1>1, <1>3
<1> QED
  BY <1>1, <1>2, <1>4

-----------------------------------------------------------------------------
(***************************************************************************)
(* Types, with what they rest on: a call is idle when it has no message,   *)
(* messages in a call exist, and no stamp is further ahead than the skew.  *)
(***************************************************************************)

Sane ==
  /\ TypeOK
  /\ startedAt <= now
  /\ \A r \in Runs : batch[r] \in Seq(sent)
  /\ \A r \in Runs : stage[r] = "idle" <=> batch[r] = <<>>
  /\ \A m \in sent \ Unstamped : stamp[m] <= now + Skew

LEMMA SaneInit == Init => Sane
<1>1. \A S : <<>> \in Seq(S)
  OBVIOUS
<1> QED
  BY <1>1 DEF Init, Sane, TypeOK, Stage

\* The message in progress exists.
LEMMA CurrentIsSent ==
  ASSUME Sane, NEW r \in Runs, stage[r] # "idle"
  PROVE  Current(r) \in sent /\ Current(r) \in Messages
BY HeadAndRest DEF Sane, TypeOK

\* Going on with the next message, or with none, keeps the calls sane.
LEMMA SaneContinue ==
  ASSUME Sane, NEW r \in Runs, stage[r] # "idle", Continue(r), sent' = sent
  PROVE  /\ batch' \in [Runs -> Seq(Messages)] /\ stage' \in [Runs -> Stage]
         /\ \A q \in Runs : batch'[q] \in Seq(sent')
         /\ \A q \in Runs : stage'[q] = "idle" <=> batch'[q] = <<>>
<1>1. Tail(batch[r]) \in Seq(sent) /\ Tail(batch[r]) \in Seq(Messages)
  BY HeadAndRest DEF Sane, TypeOK
<1> QED
  BY <1>1 DEF Sane, TypeOK, Continue, Stage

LEMMA SaneAbort ==
  ASSUME Sane, NEW r \in Runs, Abort(r), sent' = sent
  PROVE  /\ batch' \in [Runs -> Seq(Messages)] /\ stage' \in [Runs -> Stage]
         /\ lost' \subseteq Messages
         /\ \A q \in Runs : batch'[q] \in Seq(sent')
         /\ \A q \in Runs : stage'[q] = "idle" <=> batch'[q] = <<>>
<1>1. \A S : <<>> \in Seq(S)
  OBVIOUS
<1>2. Elements(batch[r]) \subseteq Messages
  BY ElementsType DEF Sane, TypeOK
<1> QED
  BY <1>1, <1>2 DEF Sane, TypeOK, Abort, Stage

LEMMA SaneStep == Sane /\ [Next]_vars => Sane'
<1> SUFFICES ASSUME Sane, [Next]_vars PROVE Sane'
  OBVIOUS
<1>1. CASE Tick
  BY <1>1 DEF Sane, TypeOK, Tick
<1>2. ASSUME NEW m \in Messages, SendMessage(m) PROVE Sane'
  <2>1. \A r \in Runs : batch[r] \in Seq(sent')
    BY <1>2, SeqMonotonic DEF Sane, TypeOK, SendMessage
  <2>2. stamp' \in [Messages -> Int]
    BY <1>2 DEF Sane, TypeOK, SendMessage
  <2>3. \A x \in sent' \ Unstamped : stamp'[x] <= now + Skew
    BY <1>2 DEF Sane, TypeOK, SendMessage
  <2> QED
    BY <1>2, <2>1, <2>2, <2>3 DEF Sane, TypeOK, SendMessage
<1>3. CASE Restart
  <2>1. \A S : <<>> \in Seq(S)
    OBVIOUS
  <2>2. \A r \in Runs : Elements(batch[r]) \subseteq Messages
    BY ElementsType DEF Sane, TypeOK
  <2>3. lost' \subseteq Messages
    BY <1>3, <2>2 DEF Sane, TypeOK, Restart
  <2>4. /\ \A r \in Runs : batch'[r] = <<>> /\ stage'[r] = "idle"
        /\ batch' \in [Runs -> Seq(Messages)] /\ stage' \in [Runs -> Stage]
    BY <1>3, <2>1 DEF Restart, Stage
  <2>5. /\ UNCHANGED <<now, sent, stamp, claimUntil, taken, unread, admitted, refused, settled>>
        /\ startedAt' = now /\ faults' \in 0 .. MaxFaults
    BY <1>3 DEF Sane, TypeOK, Restart
  <2>6. TypeOK'
    BY <2>3, <2>4, <2>5 DEF Sane, TypeOK
  <2>7. \A r \in Runs : batch'[r] \in Seq(sent)
    BY <2>1, <2>4
  <2> QED
    BY <2>4, <2>5, <2>6, <2>7 DEF Sane, TypeOK
<1>4. ASSUME NEW r \in Runs, Call(r) PROVE Sane'
  <2>1. CASE Deliver(r)
    <3>1. PICK b \in Batches :
            /\ Elements(b) \subseteq sent
            /\ \/ /\ batch' = [batch EXCEPT ![r] = b]
                  /\ stage' = [stage EXCEPT ![r] = "claim"]
                  /\ taken' = taken \cup Elements(b)
                  /\ unread' = unread \ Elements(b)
               \/ /\ unread' = unread \cup (Elements(b) \ taken)
                  /\ batch' = batch /\ stage' = stage /\ taken' = taken
      BY <2>1 DEF Deliver, runVars
    <3>2. b \in Seq(sent) /\ b \in Seq(Messages) /\ b # <<>>
      BY <3>1, BatchIsSequence DEF Sane, TypeOK
    <3>3. taken' \subseteq Messages /\ unread' \subseteq Messages
      BY <3>1 DEF Sane, TypeOK
    <3> QED
      BY <2>1, <3>1, <3>2, <3>3 DEF Sane, TypeOK, Deliver, Stage
  <2>2. CASE Claim(r)
    <3>1. CASE Claimed(Current(r))
      BY <2>2, <3>1, SaneContinue DEF Sane, TypeOK, Claim
    <3>2. CASE ~Claimed(Current(r))
      <4>1. claimUntil' \in [Messages -> Nat]
        <5>1. Current(r) \in Messages
          BY <2>2, CurrentIsSent DEF Claim
        <5>2. claimUntil \in [Messages -> Nat] /\ now + ClaimTtl \in Nat
          BY DEF Sane, TypeOK
        <5> QED
          BY <2>2, <3>2, <5>1, <5>2 DEF Claim
      <4> QED
        BY <2>2, <3>2, <4>1 DEF Sane, TypeOK, Claim, Stage
    <3> QED
      BY <3>1, <3>2
  <2>3. CASE ClaimResent(r)
    <3>1. Current(r) \in Messages /\ claimUntil' \in [Messages -> Nat]
      BY <2>3, CurrentIsSent DEF Sane, TypeOK, ClaimResent
    <3> QED
      <4>1. /\ batch' \in [Runs -> Seq(Messages)] /\ stage' \in [Runs -> Stage]
            /\ \A q \in Runs : batch'[q] \in Seq(sent')
            /\ \A q \in Runs : stage'[q] = "idle" <=> batch'[q] = <<>>
        BY <2>3, SaneContinue DEF ClaimResent
      <4>2. lost' \subseteq Messages /\ faults' \in 0 .. MaxFaults
        BY <2>3, <3>1 DEF Sane, TypeOK, ClaimResent
      <4> QED
        BY <2>3, <3>1, <4>1, <4>2 DEF Sane, TypeOK, ClaimResent
  <2>4. CASE ClaimThrows(r)
    <3>1. /\ batch' \in [Runs -> Seq(Messages)] /\ stage' \in [Runs -> Stage]
          /\ lost' \subseteq Messages
          /\ \A q \in Runs : batch'[q] \in Seq(sent')
          /\ \A q \in Runs : stage'[q] = "idle" <=> batch'[q] = <<>>
      BY <2>4, SaneAbort DEF ClaimThrows
    <3> QED
      BY <2>4, <3>1 DEF Sane, TypeOK, ClaimThrows
  <2>5. CASE Guard(r)
    <3>1. Current(r) \in Messages
      BY <2>5, CurrentIsSent DEF Guard
    <3>2. CASE Refused(Current(r))
      BY <2>5, <3>1, <3>2, SaneContinue DEF Sane, TypeOK, Guard
    <3>3. CASE ~Refused(Current(r))
      <4>1. admitted' \in [Messages -> Nat]
        <5>1. admitted \in [Messages -> Nat] /\ admitted[Current(r)] + 1 \in Nat
          BY <3>1 DEF Sane, TypeOK
        <5> QED
          BY <2>5, <3>3, <5>1 DEF Guard
      <4> QED
        BY <2>5, <3>1, <3>3, <4>1 DEF Sane, TypeOK, Guard, Stage
    <3> QED
      BY <3>2, <3>3
  <2>6. CASE Prepare(r)
    BY <2>6 DEF Sane, TypeOK, Prepare, Stage
  <2>7. CASE HandlerThrows(r)
    <3>1. /\ batch' \in [Runs -> Seq(Messages)] /\ stage' \in [Runs -> Stage]
          /\ lost' \subseteq Messages
          /\ \A q \in Runs : batch'[q] \in Seq(sent')
          /\ \A q \in Runs : stage'[q] = "idle" <=> batch'[q] = <<>>
      BY <2>7, SaneAbort DEF HandlerThrows
    <3> QED
      BY <2>7, <3>1 DEF Sane, TypeOK, HandlerThrows
  <2>8. CASE Respond(r)
    <3>1. Current(r) \in Messages
      BY <2>8, CurrentIsSent DEF Respond
    <3> QED
      BY <2>8, <3>1, SaneContinue DEF Sane, TypeOK, Respond
  <2> QED
    BY <1>4, <2>1, <2>2, <2>3, <2>4, <2>5, <2>6, <2>7, <2>8 DEF Call
<1>5. CASE UNCHANGED vars
  BY <1>5 DEF Sane, TypeOK, vars
<1> QED
  BY <1>1, <1>2, <1>3, <1>4, <1>5 DEF Next

\* The variables keep their types, for every value of the constants.
THEOREM TypeCorrect == Spec => []TypeOK
<1>1. Sane => TypeOK
  BY DEF Sane
<1> QED
  BY SaneInit, SaneStep, <1>1, PTL DEF Spec

LEMMA SaneAlways == Spec => []Sane
BY SaneInit, SaneStep, PTL DEF Spec

-----------------------------------------------------------------------------
(***************************************************************************)
(* A message is handled once.  The first claim on it is taken after it was *)
(* sent; the next one a lifetime later, when the message is too old.       *)
(***************************************************************************)

Guarding(r, m) == stage[r] = "guard" /\ Current(r) = m

TooOld(m) == now - stamp[m] > MaxAge

\* A message without a claim has not got to the guards; a claim reaches a
\* lifetime beyond the moment the message was sent.
ClaimComesFirst ==
  \A m \in Messages \ Unstamped :
    /\ claimUntil[m] = 0 => admitted[m] = 0 /\ \A r \in Runs : ~Guarding(r, m)
    /\ claimUntil[m] # 0 => m \in sent /\ claimUntil[m] >= stamp[m] - Skew + ClaimTtl

\* Of a message that is not too old, there is one admission or one call at
\* the guards, not both and not two.
OneChance ==
  \A m \in Messages \ Unstamped :
    /\ admitted[m] <= 1
    /\ \A q \in Runs : admitted[m] = 1 /\ Guarding(q, m) => TooOld(m)
    /\ \A q, r \in Runs : Guarding(q, m) /\ Guarding(r, m) /\ q # r => TooOld(m)

Once == ClaimComesFirst /\ OneChance

LEMMA OnceInit == Init => Once
BY DEF Init, Once, ClaimComesFirst, OneChance, Guarding

\* Steps that neither claim nor admit.
LEMMA OnceQuiet ==
  ASSUME Sane, Sane', Once, claimUntil' = claimUntil, admitted' = admitted,
         \A q \in Runs, m \in Messages : Guarding(q, m)' => Guarding(q, m),
         sent \subseteq sent', \A m \in sent \ Unstamped : stamp'[m] = stamp[m],
         now' >= now
  PROVE  Once'
<1> USE DEF Sane, TypeOK
<1>1. ClaimComesFirst'
  BY DEF Once, ClaimComesFirst
<1>2. \A m \in Messages \ Unstamped, q \in Runs : Guarding(q, m) => claimUntil[m] # 0
  BY DEF Once, ClaimComesFirst
<1>3. \A m \in Messages \ Unstamped : claimUntil[m] # 0 /\ TooOld(m) => TooOld(m)'
  BY DEF Once, ClaimComesFirst, TooOld
<1>4. OneChance'
  BY <1>2, <1>3 DEF Once, OneChance
<1> QED
  BY <1>1, <1>4 DEF Once

\* ... in particular those of a call that touches its batch and stage only.
LEMMA OnceStill ==
  ASSUME Sane, Sane', Once, UNCHANGED <<now, sent, stamp, claimUntil, admitted>>,
         \A q \in Runs, m \in Messages : Guarding(q, m)' => Guarding(q, m)
  PROVE  Once'
<1>1. now' >= now
  BY DEF Sane, TypeOK
<1> QED
  BY <1>1, OnceQuiet

\* A call that goes on or ends is not at the guards.
LEMMA LeavesGuards ==
  ASSUME Sane, NEW r \in Runs, Continue(r) \/ Abort(r)
  PROVE  \A q \in Runs, m \in Messages : Guarding(q, m)' => Guarding(q, m) /\ q # r
BY DEF Sane, TypeOK, Continue, Abort, Guarding

\* A claim is taken: if it is not the first, the message is too old.
LEMMA OnceClaim ==
  ASSUME ClaimOutlivesAge, Sane, Sane', Once, NEW r \in Runs, stage[r] = "claim",
         ~Claimed(Current(r)),
         claimUntil' = [claimUntil EXCEPT ![Current(r)] = now + ClaimTtl],
         admitted' = admitted, sent' = sent, stamp' = stamp, now' = now,
         \A q \in Runs, m \in Messages :
           Guarding(q, m)' => Guarding(q, m) \/ (q = r /\ m = Current(r))
  PROVE  Once'
<1> DEFINE c == Current(r)
<1>1. c \in Messages /\ c \in sent
  BY CurrentIsSent
<1>2. c \notin Unstamped => stamp[c] <= now + Skew /\ stamp[c] \in Int
  BY <1>1 DEF Sane, TypeOK
<1>3. ~Guarding(r, c)
  BY DEF Guarding
<1>4. claimUntil'[c] = now + ClaimTtl /\ \A m \in Messages \ {c} : claimUntil'[m] = claimUntil[m]
  BY <1>1 DEF Sane, TypeOK
<1>5. ClaimComesFirst'
  <2> SUFFICES ASSUME NEW m \in Messages \ Unstamped
               PROVE  /\ claimUntil'[m] = 0 =>
                           admitted'[m] = 0 /\ \A q \in Runs : ~Guarding(q, m)'
                      /\ claimUntil'[m] # 0 =>
                           m \in sent' /\ claimUntil'[m] >= stamp'[m] - Skew + ClaimTtl
    BY DEF ClaimComesFirst
  <2>1. CASE m = c
    <3>1. now \in Nat /\ Skew \in Nat /\ ClaimTtl \in Nat \ {0}
      BY DEF Sane, TypeOK
    <3>2. claimUntil'[m] = now + ClaimTtl /\ stamp'[m] = stamp[m]
      BY <1>4, <2>1
    <3>3. stamp[m] <= now + Skew /\ stamp[m] \in Int
      BY <1>2, <2>1
    <3>4. claimUntil'[m] # 0 /\ claimUntil'[m] >= stamp'[m] - Skew + ClaimTtl
      BY <3>1, <3>2, <3>3
    <3> QED
      BY <1>1, <2>1, <3>4
  <2>2. CASE m # c
    BY <1>4, <2>2 DEF Once, ClaimComesFirst
  <2> QED
    BY <2>1, <2>2
<1>6. c \notin Unstamped /\ claimUntil[c] # 0 => TooOld(c)
  BY <1>1, <1>2 DEF Sane, TypeOK, Once, ClaimComesFirst, Claimed, TooOld, ClaimOutlivesAge
<1>7. c \notin Unstamped /\ ~TooOld(c) => admitted[c] = 0 /\ \A q \in Runs : ~Guarding(q, c)
  BY <1>1, <1>6 DEF Once, ClaimComesFirst
<1>8. \A m \in Messages : TooOld(m)' <=> TooOld(m)
  BY DEF TooOld
<1>9. OneChance'
  BY <1>1, <1>7, <1>8 DEF Once, OneChance
<1> QED
  BY <1>5, <1>9 DEF Once

\* A message is let in: it is not too old, so this is its one chance.
LEMMA OnceGuard ==
  ASSUME ClaimOutlivesAge, Sane, Sane', Once, NEW r \in Runs, Guard(r)
  PROVE  Once'
<1> DEFINE c == Current(r)
<1>1. c \in Messages /\ Guarding(r, c)
  BY CurrentIsSent DEF Guard, Guarding
<1>2. CASE Refused(c)
  <2>1. Continue(r) /\ UNCHANGED <<now, sent, stamp, claimUntil, admitted>>
    BY <1>2 DEF Guard
  <2> QED
    BY <2>1, LeavesGuards, OnceStill
<1>3. CASE ~Refused(c)
  <2>1. \A q \in Runs, m \in Messages : Guarding(q, m)' => Guarding(q, m) /\ q # r
    BY <1>3 DEF Guard, Guarding, Sane, TypeOK
  <2>2. /\ admitted'[c] = admitted[c] + 1
        /\ \A m \in Messages \ {c} : admitted'[m] = admitted[m]
    BY <1>1, <1>3 DEF Guard, Sane, TypeOK
  <2>3. c \notin Unstamped => ~TooOld(c)
    BY <1>3 DEF Refused, Stale, TooOld, ClaimOutlivesAge
  <2>4. c \notin Unstamped =>
          claimUntil[c] # 0 /\ admitted[c] = 0 /\ \A q \in Runs : Guarding(q, c) => q = r
    <3>1. c \notin Unstamped => claimUntil[c] # 0
      BY <1>1 DEF Once, ClaimComesFirst
    <3>2. c \notin Unstamped => admitted[c] <= 1 /\ admitted[c] # 1
      BY <1>1, <2>3 DEF Once, OneChance
    <3>3. admitted[c] \in Nat
      BY <1>1 DEF Sane, TypeOK
    <3>4. c \notin Unstamped => \A q \in Runs : Guarding(q, c) => q = r
      BY <1>1, <2>3 DEF Once, OneChance
    <3> QED
      BY <3>1, <3>2, <3>3, <3>4
  <2>5. claimUntil' = claimUntil /\ sent' = sent /\ stamp' = stamp /\ now' = now
    BY DEF Guard
  <2>6. ClaimComesFirst'
    BY <2>1, <2>2, <2>4, <2>5 DEF Once, ClaimComesFirst
  <2>7. \A m \in Messages : TooOld(m)' <=> TooOld(m)
    BY <2>5 DEF TooOld
  <2>8. OneChance'
    BY <1>1, <2>1, <2>2, <2>4, <2>7 DEF Once, OneChance
  <2> QED
    BY <2>6, <2>8 DEF Once
<1> QED
  BY <1>2, <1>3

LEMMA OnceStep == ClaimOutlivesAge /\ Sane /\ Once /\ [Next]_vars => Once'
<1> SUFFICES ASSUME ClaimOutlivesAge, Sane, Once, [Next]_vars PROVE Once'
  OBVIOUS
<1>0. Sane'
  BY SaneStep
<1>1. CASE Tick
  BY <1>0, <1>1, OnceQuiet DEF Tick, Guarding, Sane, TypeOK
<1>2. ASSUME NEW m \in Messages, SendMessage(m) PROVE Once'
  <2>1. \A x \in sent \ Unstamped : stamp'[x] = stamp[x]
    BY <1>2 DEF SendMessage, Sane, TypeOK
  <2> QED
    BY <1>0, <1>2, <2>1, OnceQuiet DEF SendMessage, Guarding, Sane, TypeOK
<1>3. CASE Restart
  BY <1>0, <1>3, OnceQuiet DEF Restart, Guarding, Sane, TypeOK
<1>4. ASSUME NEW r \in Runs, Call(r) PROVE Once'
  <2>1. CASE Deliver(r)
    <3>1. \A q \in Runs, m \in Messages : Guarding(q, m)' => Guarding(q, m)
      BY <2>1 DEF Deliver, Guarding, Sane, TypeOK
    <3> QED
      BY <1>0, <2>1, <3>1, OnceStill DEF Deliver
  <2>2. CASE Claim(r)
    <3>1. CASE Claimed(Current(r))
      BY <1>0, <2>2, <3>1, LeavesGuards, OnceStill DEF Claim
    <3>2. CASE ~Claimed(Current(r))
      <4>1. \A q \in Runs, m \in Messages :
              Guarding(q, m)' => Guarding(q, m) \/ (q = r /\ m = Current(r))
        BY <2>2, <3>2 DEF Claim, Guarding, Sane, TypeOK
      <4> QED
        BY <1>0, <2>2, <3>2, <4>1, OnceClaim DEF Claim
    <3> QED
      BY <3>1, <3>2
  <2>3. CASE ClaimResent(r)
    <3>1. \A q \in Runs, m \in Messages : Guarding(q, m)' => Guarding(q, m)
      BY <2>3, LeavesGuards DEF ClaimResent
    <3> QED
      BY <1>0, <2>3, <3>1, OnceClaim DEF ClaimResent
  <2>4. CASE ClaimThrows(r)
    BY <1>0, <2>4, LeavesGuards, OnceStill DEF ClaimThrows
  <2>5. CASE Guard(r)
    BY <1>0, <2>5, OnceGuard
  <2>6. CASE Prepare(r)
    <3>1. \A q \in Runs, m \in Messages : Guarding(q, m)' => Guarding(q, m)
      BY <2>6 DEF Prepare, Guarding, Sane, TypeOK
    <3> QED
      BY <1>0, <2>6, <3>1, OnceStill DEF Prepare
  <2>7. CASE HandlerThrows(r)
    BY <1>0, <2>7, LeavesGuards, OnceStill DEF HandlerThrows
  <2>8. CASE Respond(r)
    BY <1>0, <2>8, LeavesGuards, OnceStill DEF Respond
  <2> QED
    BY <1>4, <2>1, <2>2, <2>3, <2>4, <2>5, <2>6, <2>7, <2>8 DEF Call
<1>5. CASE UNCHANGED vars
  BY <1>0, <1>5, OnceQuiet DEF vars, Guarding, Sane, TypeOK
<1> QED
  BY <1>1, <1>2, <1>3, <1>4, <1>5 DEF Next

\* A stamped message gets past the guards at most once, across redeliveries,
\* concurrent calls, lapsed claims and restarts, provided the claim outlives
\* the age at which a message is turned away.
THEOREM AtMostOnce == ClaimOutlivesAge => (Spec => []HandledOnce)
<1>1. Once => HandledOnce
  BY DEF Once, OneChance, HandledOnce
<1>2. ClaimOutlivesAge /\ Sane /\ Once /\ [Next]_vars => Once'
  BY OnceStep
<1>3. ASSUME ClaimOutlivesAge PROVE Sane /\ Once /\ [Next]_vars => Once'
  BY <1>2, <1>3
<1>4. ASSUME ClaimOutlivesAge PROVE Spec => []HandledOnce
  BY <1>1, <1>3, <1>4, OnceInit, SaneAlways, PTL DEF Spec
<1> QED
  BY <1>4

-----------------------------------------------------------------------------
(***************************************************************************)
(* A message once turned away is never let in: the watermark and its age   *)
(* only grow.                                                              *)
(***************************************************************************)

TurnedAway ==
  \A m \in refused \ Unstamped : m \in sent /\ (BeforeStart(m) \/ Stale(m))

LEMMA TurnedAwayInit == Init => TurnedAway
BY DEF Init, TurnedAway

LEMMA TurnedAwayStep == Sane /\ TurnedAway /\ [Next]_vars => TurnedAway'
<1> SUFFICES ASSUME Sane, TurnedAway, [Next]_vars PROVE TurnedAway'
  OBVIOUS
<1> USE DEF Sane, TypeOK
<1>1. ASSUME refused' = refused, sent' = sent, stamp' = stamp,
             now' \in Nat, now' >= now, startedAt' \in Nat, startedAt' >= startedAt
      PROVE  TurnedAway'
  <2> SUFFICES ASSUME NEW m \in refused \ Unstamped
               PROVE  m \in sent' /\ (BeforeStart(m)' \/ Stale(m)')
    BY <1>1 DEF TurnedAway
  <2>1. stamp[m] \in Int /\ stamp'[m] = stamp[m] /\ now \in Nat /\ startedAt \in Nat
    BY <1>1
  <2>2. BeforeStart(m) => BeforeStart(m)'
    BY <1>1, <2>1 DEF BeforeStart
  <2>3. Stale(m) => Stale(m)'
    BY <1>1, <2>1 DEF Stale
  <2> QED
    BY <1>1, <2>2, <2>3 DEF TurnedAway
<1>2. CASE Tick
  BY <1>1, <1>2 DEF Tick
<1>3. ASSUME NEW m \in Messages, SendMessage(m) PROVE TurnedAway'
  <2>1. \A x \in sent \ Unstamped : stamp'[x] = stamp[x]
    BY <1>3 DEF SendMessage
  <2> QED
    BY <1>3, <2>1 DEF SendMessage, TurnedAway, BeforeStart, Stale
<1>4. CASE Restart
  BY <1>1, <1>4 DEF Restart
<1>5. ASSUME NEW r \in Runs, Call(r) PROVE TurnedAway'
  <2>1. CASE Guard(r)
    <3>1. Current(r) \in sent
      BY <2>1, CurrentIsSent DEF Guard
    <3> QED
      BY <2>1, <3>1 DEF Guard, Refused, TurnedAway, BeforeStart, Stale
  <2>2. CASE ~Guard(r)
    BY <1>1, <1>5, <2>2 DEF Call, Deliver, Claim, ClaimResent, ClaimThrows, Prepare,
                            HandlerThrows, Respond
  <2> QED
    BY <2>1, <2>2
<1>6. CASE UNCHANGED vars
  BY <1>1, <1>6 DEF vars
<1> QED
  BY <1>2, <1>3, <1>4, <1>5, <1>6 DEF Next

LEMMA NotLetIn ==
  Sane /\ TurnedAway /\ [Next]_vars =>
    [\A m \in refused \ Unstamped : admitted'[m] = admitted[m]]_vars
<1> SUFFICES ASSUME Sane, TurnedAway, [Next]_vars, NEW m \in refused \ Unstamped
             PROVE  admitted'[m] = admitted[m]
  OBVIOUS
<1>1. ASSUME NEW r \in Runs, Guard(r) PROVE admitted'[m] = admitted[m]
  <2>1. Refused(m) /\ m \in Messages
    BY DEF TurnedAway, Refused, Sane, TypeOK
  <2> QED
    BY <1>1, <2>1 DEF Guard, Sane, TypeOK
<1>2. CASE \A r \in Runs : ~Guard(r)
  BY <1>2 DEF Next, Call, vars, Tick, SendMessage, Restart, Deliver, Claim, ClaimResent,
              ClaimThrows, Prepare, HandlerThrows, Respond
<1> QED
  BY <1>1, <1>2

\* A backlog message stays out, with or without an age guard.
THEOREM StaysOut == Spec => RefusedForGood
BY TurnedAwayInit, TurnedAwayStep, NotLetIn, SaneAlways, PTL DEF Spec, RefusedForGood

-----------------------------------------------------------------------------
(***************************************************************************)
(* Nothing a call has gone into is dropped but by faults: a message that   *)
(* has a claim met its fate or is with the call that took it, and only     *)
(* such messages have one.                                                 *)
(***************************************************************************)

Fates == refused \cup settled \cup lost

InBatch(q, m) == m \in Elements(batch[q])

Holds(q, m) == stage[q] \notin {"idle", "claim"} /\ Current(q) = m

Traced ==
  /\ \A m \in taken : m \in Fates \/ \E q \in Runs : InBatch(q, m)
  /\ \A m \in Messages : claimUntil[m] # 0 => m \in Fates \/ \E q \in Runs : Holds(q, m)

LEMMA TracedInit == Init => Traced
BY DEF Init, Traced

\* What a step must do for the messages in calls, new and claimed ones.
LEMMA TracedBy ==
  ASSUME Traced, Fates \subseteq Fates',
         \A q \in Runs, m \in Messages :
           InBatch(q, m) => m \in Fates' \/ \E p \in Runs : InBatch(p, m)',
         \A q \in Runs, m \in Messages :
           Holds(q, m) => m \in Fates' \/ \E p \in Runs : Holds(p, m)',
         taken \subseteq Messages,
         \A m \in taken' \ taken : \E p \in Runs : InBatch(p, m)',
         \A m \in Messages : claimUntil'[m] # 0 =>
           claimUntil[m] # 0 \/ m \in Fates' \/ \E p \in Runs : Holds(p, m)'
  PROVE  Traced'
BY DEF Traced

LEMMA HeldIsInBatch ==
  ASSUME Sane, NEW q \in Runs, NEW m, Holds(q, m)
  PROVE  InBatch(q, m)
<1>1. batch[q] \in Seq(sent) /\ batch[q] # <<>>
  BY DEF Holds, Sane
<1> QED
  BY <1>1, HeadAndRest DEF Holds, InBatch

\* Going on, a call gives up its message and no other.
LEMMA ContinueKeeps ==
  ASSUME Sane, NEW r \in Runs, stage[r] # "idle", Continue(r), NEW q \in Runs, NEW m
  PROVE  /\ InBatch(q, m) => InBatch(q, m)' \/ (q = r /\ m = Current(r))
         /\ Holds(q, m) => Holds(q, m)' \/ (q = r /\ m = Current(r))
<1>1. CASE q = r
  <2>1. Elements(batch[r]) = {Current(r)} \cup Elements(Tail(batch[r]))
    BY HeadAndRest DEF Sane
  <2>2. batch'[r] = Tail(batch[r])
    BY DEF Continue, Sane, TypeOK
  <2> QED
    BY <1>1, <2>1, <2>2 DEF InBatch, Holds
<1>2. CASE q # r
  BY <1>2 DEF Continue, InBatch, Holds, Sane, TypeOK
<1> QED
  BY <1>1, <1>2

\* A call that ends early loses what it had.
LEMMA AbortLoses ==
  ASSUME Sane, NEW r \in Runs, Abort(r), NEW q \in Runs, NEW m
  PROVE  /\ InBatch(q, m) => InBatch(q, m)' \/ m \in lost'
         /\ Holds(q, m) => Holds(q, m)' \/ m \in lost'
<1>1. CASE q = r
  BY <1>1, HeldIsInBatch DEF Abort, InBatch
<1>2. CASE q # r
  BY <1>2 DEF Abort, InBatch, Holds, Sane, TypeOK
<1> QED
  BY <1>1, <1>2

LEMMA TracedStep == Sane /\ Traced /\ [Next]_vars => Traced'
<1> SUFFICES ASSUME Sane, Traced, [Next]_vars PROVE Traced'
  OBVIOUS
<1>0. taken \subseteq Messages
  BY DEF Sane, TypeOK
<1>1. ASSUME UNCHANGED <<runVars, fateVars, claimUntil>> PROVE Traced'
  BY <1>1 DEF Traced, InBatch, Holds, Fates
<1>2. CASE Restart
  <2>1. \A q \in Runs, m \in Messages : InBatch(q, m) => m \in Fates'
    BY <1>2 DEF Restart, InBatch, Fates
  <2>2. \A q \in Runs, m \in Messages : Holds(q, m) => m \in Fates'
    BY <2>1, HeldIsInBatch
  <2>3. Fates \subseteq Fates' /\ taken' = taken /\ claimUntil' = claimUntil
    BY <1>2 DEF Restart, Fates
  <2> QED
    BY <1>0, <2>1, <2>2, <2>3, TracedBy
<1>3. ASSUME NEW r \in Runs, Call(r) PROVE Traced'
  <2>0. PICK c : c = Current(r)
    OBVIOUS
  <2>1. ASSUME stage[r] # "idle", Continue(r), Fates \subseteq Fates', taken' = taken,
               c \in Fates' \/ \E q \in Runs \ {r} : Holds(q, c),
               \A m \in Messages : claimUntil'[m] # 0 => claimUntil[m] # 0 \/ m \in Fates'
        PROVE  Traced'
    <3>1. ASSUME NEW q \in Runs \ {r}, Holds(q, c) PROVE Holds(q, c)' /\ InBatch(q, c)'
      <4>1. InBatch(q, c)
        BY <3>1, HeldIsInBatch
      <4> QED
        BY <2>1, <3>1, <4>1, ContinueKeeps
    <3>2. c \in Fates' \/ \E q \in Runs : Holds(q, c)' /\ InBatch(q, c)'
      BY <2>1, <3>1
    <3>3. \A q \in Runs, m \in Messages :
            /\ InBatch(q, m) => m \in Fates' \/ \E p \in Runs : InBatch(p, m)'
            /\ Holds(q, m) => m \in Fates' \/ \E p \in Runs : Holds(p, m)'
      <4> SUFFICES ASSUME NEW q \in Runs, NEW m \in Messages
                   PROVE  /\ InBatch(q, m) => m \in Fates' \/ \E p \in Runs : InBatch(p, m)'
                          /\ Holds(q, m) => m \in Fates' \/ \E p \in Runs : Holds(p, m)'
        OBVIOUS
      <4>1. /\ InBatch(q, m) => InBatch(q, m)' \/ m = c
            /\ Holds(q, m) => Holds(q, m)' \/ m = c
        BY <2>0, <2>1, ContinueKeeps
      <4> QED
        BY <3>2, <4>1
    <3> QED
      BY <1>0, <2>1, <3>3, TracedBy
  <2>2. ASSUME Abort(r), refused' = refused, settled' = settled, taken' = taken,
               claimUntil' = claimUntil
        PROVE  Traced'
    <3>1. Fates \subseteq Fates' /\ lost' \subseteq Fates'
      BY <2>2 DEF Abort, Fates
    <3>2. \A q \in Runs, m \in Messages :
            /\ InBatch(q, m) => m \in Fates' \/ \E p \in Runs : InBatch(p, m)'
            /\ Holds(q, m) => m \in Fates' \/ \E p \in Runs : Holds(p, m)'
      BY <2>2, <3>1, AbortLoses
    <3> QED
      BY <1>0, <2>2, <3>1, <3>2, TracedBy
  <2>3. ASSUME NEW s \in Stage \ {"idle", "claim"}, GoTo(r, s), stage[r] # "idle",
               UNCHANGED <<taken, refused, settled, lost>>,
               \A m \in Messages : claimUntil'[m] # 0 => claimUntil[m] # 0 \/ m = c
        PROVE  Traced'
    <3>1. Holds(r, c)' /\ Fates' = Fates
      BY <2>0, <2>3 DEF Holds, Fates, Sane, TypeOK
    <3>2. \A q \in Runs : \A m : InBatch(q, m) => InBatch(q, m)'
      BY <2>3 DEF InBatch
    <3>3. \A q \in Runs : \A m : Holds(q, m) => Holds(q, m)'
      BY <2>3 DEF Holds, Sane, TypeOK
    <3> QED
      BY <1>0, <2>3, <3>1, <3>2, <3>3, TracedBy
  <2>4. CASE Deliver(r)
    <3>1. Fates' = Fates /\ claimUntil' = claimUntil /\ batch[r] = <<>>
      BY <2>4 DEF Deliver, Fates, Sane
    <3>2. CASE UNCHANGED <<runVars, taken>>
      BY <3>1, <3>2 DEF Traced, InBatch, Holds, runVars, Current
    <3>3. CASE ~UNCHANGED <<runVars, taken>>
      <4>1. PICK b \in Batches : /\ batch' = [batch EXCEPT ![r] = b]
                                 /\ taken' = taken \cup Elements(b)
                                 /\ stage' = [stage EXCEPT ![r] = "claim"]
        BY <2>4, <3>3 DEF Deliver
      <4>2. \A q \in Runs, m \in Messages : InBatch(q, m) => InBatch(q, m)'
        BY <3>1, <4>1, NoElements DEF InBatch, Sane, TypeOK
      <4>3. \A q \in Runs, m \in Messages : Holds(q, m) => Holds(q, m)'
        BY <2>4, <4>1 DEF Deliver, Holds, Sane, TypeOK
      <4>4. \A m \in taken' \ taken : InBatch(r, m)'
        BY <4>1 DEF InBatch, Sane, TypeOK
      <4> QED
        BY <1>0, <3>1, <4>2, <4>3, <4>4, TracedBy
    <3> QED
      BY <3>2, <3>3
  <2>5. CASE Claim(r)
    <3>1. Fates' = Fates /\ taken' = taken /\ stage[r] = "claim" /\ c \in Messages
      BY <2>0, <2>5, CurrentIsSent DEF Claim, Fates
    <3>2. CASE Claimed(c)
      <4>1. claimUntil[c] # 0
        BY <2>0, <3>1, <3>2 DEF Claimed, Sane, TypeOK
      <4>2. c \in Fates \/ \E q \in Runs \ {r} : Holds(q, c)
        BY <2>0, <3>1, <4>1 DEF Traced, Holds
      <4> QED
        BY <2>0, <2>1, <2>5, <3>1, <3>2, <4>2 DEF Claim
    <3>3. CASE ~Claimed(c)
      <4>1. \A m \in Messages : claimUntil'[m] # 0 => claimUntil[m] # 0 \/ m = c
        BY <2>0, <2>5, <3>3 DEF Claim, Sane, TypeOK
      <4> QED
        BY <2>0, <2>3, <2>5, <3>1, <3>3, <4>1 DEF Claim, Stage
    <3> QED
      BY <3>2, <3>3
  <2>6. CASE ClaimResent(r)
    <3>1. stage[r] # "idle" /\ Continue(r) /\ Fates \subseteq Fates' /\ c \in Fates'
      BY <2>0, <2>6 DEF ClaimResent, Fates
    <3>2. \A m \in Messages : claimUntil'[m] # 0 => claimUntil[m] # 0 \/ m = c
      BY <2>0, <2>6 DEF ClaimResent, Sane, TypeOK
    <3> QED
      BY <2>1, <2>6, <3>1, <3>2 DEF ClaimResent
  <2>7. CASE ClaimThrows(r)
    BY <2>2, <2>7 DEF ClaimThrows
  <2>8. CASE Guard(r)
    <3>1. CASE Refused(c)
      <4>1. stage[r] # "idle" /\ Continue(r) /\ Fates \subseteq Fates' /\ c \in Fates'
        BY <2>0, <2>8, <3>1 DEF Guard, Fates
      <4> QED
        BY <2>1, <2>8, <4>1 DEF Guard
    <3>2. CASE ~Refused(c)
      BY <2>0, <2>3, <2>8, <3>2 DEF Guard, Stage
    <3> QED
      BY <3>1, <3>2
  <2>9. CASE Prepare(r)
    <3>1. PICK s \in {"respond", "deny"} : GoTo(r, s)
      BY <2>9 DEF Prepare
    <3> QED
      BY <2>3, <2>9, <3>1 DEF Prepare, Stage
  <2>10. CASE HandlerThrows(r)
    BY <2>2, <2>10 DEF HandlerThrows
  <2>11. CASE Respond(r)
    <3>1. stage[r] # "idle" /\ Continue(r) /\ Fates \subseteq Fates' /\ c \in Fates'
      BY <2>0, <2>11 DEF Respond, Fates
    <3> QED
      BY <2>1, <2>11, <3>1 DEF Respond
  <2> QED
    BY <1>3, <2>4, <2>5, <2>6, <2>7, <2>8, <2>9, <2>10, <2>11 DEF Call
<1>4. CASE Tick \/ (\E m \in Messages : SendMessage(m)) \/ UNCHANGED vars
  BY <1>1, <1>4 DEF Tick, SendMessage, vars
<1> QED
  BY <1>2, <1>3, <1>4 DEF Next

\* Calls are busy with messages of batches they went into, and only those are
\* ever claimed.
Taken ==
  /\ \A q \in Runs, m \in Messages : InBatch(q, m) => m \in taken
  /\ \A m \in Messages : claimUntil[m] # 0 => m \in taken
  /\ \A m \in unread : m \notin taken

LEMMA TakenInit == Init => Taken
BY NoElements DEF Init, Taken, InBatch

\* What calls hold, and what is claimed, must be no news.
LEMMA TakenBy ==
  ASSUME Taken, taken' = taken, unread' = unread,
         \A q \in Runs, m \in Messages : InBatch(q, m)' => InBatch(q, m),
         \A m \in Messages : claimUntil'[m] # 0 => claimUntil[m] # 0 \/ m \in taken
  PROVE  Taken'
BY DEF Taken

LEMMA ContinueAddsNone ==
  ASSUME Sane, NEW r \in Runs, stage[r] # "idle", Continue(r), NEW q \in Runs, NEW m,
         InBatch(q, m)'
  PROVE  InBatch(q, m)
<1>1. CASE q = r
  <2>1. Elements(batch[r]) = {Current(r)} \cup Elements(Tail(batch[r]))
    BY HeadAndRest DEF Sane
  <2>2. batch'[r] = Tail(batch[r])
    BY DEF Continue, Sane, TypeOK
  <2> QED
    BY <1>1, <2>1, <2>2 DEF InBatch
<1>2. CASE q # r
  BY <1>2 DEF Continue, InBatch, Sane, TypeOK
<1> QED
  BY <1>1, <1>2

LEMMA TakenStep == Sane /\ Taken /\ [Next]_vars => Taken'
<1> SUFFICES ASSUME Sane, Taken, [Next]_vars PROVE Taken'
  OBVIOUS
<1>1. ASSUME UNCHANGED <<batch, taken, unread, claimUntil>> PROVE Taken'
  BY <1>1 DEF Taken, InBatch
<1>2. CASE Restart
  BY <1>2, NoElements, TakenBy DEF Restart, InBatch
<1>3. ASSUME NEW r \in Runs, Call(r) PROVE Taken'
  <2>1. ASSUME Abort(r), UNCHANGED <<taken, unread, claimUntil>> PROVE Taken'
    <3>1. \A q \in Runs, m \in Messages : InBatch(q, m)' => InBatch(q, m)
      BY <2>1, NoElements DEF Abort, InBatch, Sane, TypeOK
    <3> QED
      BY <2>1, <3>1, TakenBy
  <2>2. ASSUME stage[r] # "idle", Continue(r), UNCHANGED <<taken, unread>>,
               \A m \in Messages : claimUntil'[m] # 0 => claimUntil[m] # 0 \/ m \in taken
        PROVE  Taken'
    <3>1. \A q \in Runs, m \in Messages : InBatch(q, m)' => InBatch(q, m)
      BY <2>2, ContinueAddsNone
    <3> QED
      BY <2>2, <3>1, TakenBy
  <2>3. ASSUME stage[r] # "idle" PROVE Current(r) \in Messages /\ Current(r) \in taken
    <3>1. Current(r) \in Elements(batch[r])
      BY <2>3, HeadAndRest DEF Sane
    <3>2. Current(r) \in Messages
      BY <2>3, CurrentIsSent DEF Sane, TypeOK
    <3> QED
      BY <3>1, <3>2 DEF Taken, InBatch
  <2>4. CASE Deliver(r)
    <3>1. PICK b \in Batches :
            /\ Elements(b) \subseteq sent
            /\ \/ /\ batch' = [batch EXCEPT ![r] = b]
                  /\ taken' = taken \cup Elements(b)
                  /\ unread' = unread \ Elements(b)
               \/ /\ unread' = unread \cup (Elements(b) \ taken)
                  /\ batch' = batch /\ taken' = taken
      BY <2>4 DEF Deliver, runVars
    <3>2. \A q \in Runs, m \in Messages : InBatch(q, m)' => m \in taken'
      BY <3>1 DEF Taken, InBatch, Sane, TypeOK
    <3>3. claimUntil' = claimUntil
      BY <2>4 DEF Deliver
    <3>4. \A m \in Messages : claimUntil'[m] # 0 => m \in taken'
      BY <3>1, <3>3 DEF Taken
    <3>5. \A m \in unread' : m \notin taken'
      BY <3>1 DEF Taken
    <3> QED
      BY <3>2, <3>4, <3>5 DEF Taken
  <2>5. CASE Claim(r)
    <3>1. \A m \in Messages : claimUntil'[m] # 0 => claimUntil[m] # 0 \/ m \in taken
      BY <2>3, <2>5 DEF Claim, Sane, TypeOK
    <3>2. CASE Continue(r)
      BY <2>2, <2>5, <3>1, <3>2 DEF Claim, fateVars
    <3>3. CASE batch' = batch
      BY <2>5, <3>1, <3>3, TakenBy DEF Claim, fateVars, InBatch
    <3> QED
      BY <2>5, <3>2, <3>3 DEF Claim, GoTo
  <2>6. CASE ClaimResent(r)
    <3>1. \A m \in Messages : claimUntil'[m] # 0 => claimUntil[m] # 0 \/ m \in taken
      BY <2>3, <2>6 DEF ClaimResent, Sane, TypeOK
    <3> QED
      BY <2>2, <2>6, <3>1 DEF ClaimResent
  <2>7. CASE ClaimThrows(r) \/ HandlerThrows(r)
    BY <2>1, <2>7 DEF ClaimThrows, HandlerThrows
  <2>8. CASE Guard(r)
    BY <1>1, <2>2, <2>8 DEF Guard, GoTo
  <2>9. CASE Prepare(r)
    BY <1>1, <2>9 DEF Prepare, GoTo, fateVars
  <2>10. CASE Respond(r)
    BY <2>2, <2>10 DEF Respond
  <2> QED
    BY <1>3, <2>4, <2>5, <2>6, <2>7, <2>8, <2>9, <2>10 DEF Call
<1>4. CASE Tick \/ (\E m \in Messages : SendMessage(m)) \/ UNCHANGED vars
  BY <1>1, <1>4 DEF Tick, SendMessage, vars, runVars, fateVars
<1> QED
  BY <1>2, <1>3, <1>4 DEF Next

\* Of the batches a call goes into every message is refused, settled or in a
\* call, but for what a fault took away; of those dropped unread none is
\* claimed.
THEOREM TakenAreAccounted == Spec => []TakenIsAccounted
<1>1. Sane /\ Traced /\ Taken => TakenIsAccounted
  BY DEF Traced, Taken, Fates, InBatch, TakenIsAccounted, Sane, TypeOK
<1> QED
  BY <1>1, TracedInit, TracedStep, TakenInit, TakenStep, SaneAlways, PTL DEF Spec
=============================================================================
