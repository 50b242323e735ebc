----------------------------- MODULE WaConnector -----------------------------
(***************************************************************************)
(* createWhatsAppConnector: how wa-gateway keeps one WhatsApp socket alive.*)
(*                                                                         *)
(*   connect() --- socket ---> open --- close ---> close handler           *)
(*      |  ^                                          |                    *)
(*      |  +------------ reconnect timer <------------+                    *)
(*      +-- fails --> heartbeat written --> reconnect timer                *)
(*                                                                         *)
(* Sockets are named by connectionGeneration, the attempt that made them.  *)
(* The handlers of connection.update run concurrently with each other and  *)
(* with connect(): each of their awaits is a step.  The heartbeat is the   *)
(* Redis key that the admin API and the assistant read; a Redis command    *)
(* may be refused with an error (read-only replica, loading, out of        *)
(* memory), whereas a lost Redis connection only delays it.                *)
(*                                                                         *)
(* Left out: pairing codes, QR codes, the bot's own LID, the backoff of    *)
(* the timer.                                                              *)
(***************************************************************************)
EXTENDS Naturals

CONSTANTS
  MaxDisconnects,  \* bound on closed sockets and failed attempts
  MaxRefusals      \* bound on refused heartbeat writes

ASSUME ConnectorBounds == MaxDisconnects \in Nat /\ MaxRefusals \in Nat

Generation == 1 .. MaxDisconnects + 1
NoSocket == 0

VARIABLES
  connectionGeneration,  \* attempts so far
  connectStage,          \* where connect() is
  reconnectTimer,        \* is the timer armed?
  currentSocket,         \* the connector's socket, possibly closed
  socket,                \* the socket handed to the rest of the gateway
  connection,            \* what WhatsApp makes of each socket
  opening,               \* sockets whose open handler has not finished
  closing,               \* pending close handlers: what they will do
  paired,                \* does the session have a user?
  heartbeat,             \* isConnected, as Redis has it
  disconnects, refusals  \* bounded events so far

handlerVars == <<opening, closing>>
connectorVars == <<connectionGeneration, connectStage, reconnectTimer, currentSocket, socket,
                  connection, handlerVars, paired, heartbeat, disconnects, refusals>>

ConnectStage == {"idle", "preparing", "mark_failed"}
Connection == {"none", "connecting", "open", "closed", "loggedOut", "discarded"}
Live == {"connecting", "open"}

ConnectorTypeOK ==
  /\ connectionGeneration \in Generation
  /\ connectStage \in ConnectStage
  /\ reconnectTimer \in BOOLEAN
  /\ currentSocket \in Generation \cup {NoSocket}
  /\ socket \in Generation \cup {NoSocket}
  /\ connection \in [Generation -> Connection]
  /\ opening \subseteq Generation
  /\ closing \in [Generation -> {"none", "reconnect", "stop"}]
  /\ paired \in BOOLEAN
  /\ heartbeat \in BOOLEAN
  /\ disconnects \in 0 .. MaxDisconnects
  /\ refusals \in 0 .. MaxRefusals

\* The process starts, reports itself disconnected and connects.
ConnectorInit ==
  /\ connectionGeneration = 1
  /\ connectStage = "preparing"
  /\ reconnectTimer = FALSE
  /\ currentSocket = NoSocket
  /\ socket = NoSocket
  /\ connection = [g \in Generation |-> "none"]
  /\ opening = {}
  /\ closing = [g \in Generation |-> "none"]
  /\ paired \in BOOLEAN
  /\ heartbeat = FALSE
  /\ disconnects = 0
  /\ refusals = 0

Disconnect ==
  /\ disconnects < MaxDisconnects
  /\ disconnects' = disconnects + 1

\* Redis answers a heartbeat write with an error.
Refuse ==
  /\ refusals < MaxRefusals
  /\ refusals' = refusals + 1

-----------------------------------------------------------------------------
(***************************************************************************)
(* connect() and the reconnect timer.                                      *)
(***************************************************************************)

\* Variant: an interval instead of a timeout, left to connect() to clear.
TimerFiresAgain ==
  /\ reconnectTimer
  /\ connectStage' = "preparing"
  /\ connectionGeneration' = connectionGeneration + 1
  /\ UNCHANGED <<reconnectTimer, currentSocket, socket, connection, handlerVars, paired,
                 heartbeat, disconnects, refusals>>

\* The timer's callback calls connect(), which returns at once while another
\* attempt is in flight.
TimerFires ==
  /\ reconnectTimer
  /\ reconnectTimer' = FALSE
  /\ IF connectStage = "idle"
       THEN /\ connectStage' = "preparing"
            /\ connectionGeneration' = connectionGeneration + 1
       ELSE UNCHANGED <<connectStage, connectionGeneration>>
  /\ UNCHANGED <<currentSocket, socket, connection, handlerVars, paired, heartbeat,
                 disconnects, refusals>>

\* Credentials and version are there: a new socket replaces the previous one,
\* whose listeners are removed.
SocketCreated ==
  LET g == connectionGeneration IN
  /\ connectStage = "preparing"
  /\ connectStage' = "idle"
  /\ currentSocket' = g
  /\ socket' = g
  /\ connection' = [h \in Generation |->
                      IF h = g THEN "connecting"
                      ELSE IF h = currentSocket /\ connection[h] \in Live THEN "discarded"
                      ELSE connection[h]]
  /\ UNCHANGED <<connectionGeneration, reconnectTimer, handlerVars, paired, heartbeat,
                 disconnects, refusals>>

\* Credentials, the stored LID or the version cannot be had.
ConnectFails ==
  /\ connectStage = "preparing"
  /\ Disconnect
  /\ connectStage' = "mark_failed"
  /\ UNCHANGED <<connectionGeneration, reconnectTimer, currentSocket, socket, connection,
                 handlerVars, paired, heartbeat, refusals>>

\* The failed attempt reports itself and only then arms the timer.
FailureMarked ==
  /\ connectStage = "mark_failed"
  /\ connectStage' = "idle"
  /\ heartbeat' = FALSE
  /\ reconnectTimer' = TRUE
  /\ UNCHANGED <<connectionGeneration, currentSocket, socket, connection, handlerVars,
                 paired, disconnects, refusals>>

\* The report is refused: connect() rejects, unhandled, without a timer.
FailureRefused ==
  /\ connectStage = "mark_failed"
  /\ Refuse
  /\ connectStage' = "idle"
  /\ UNCHANGED <<connectionGeneration, reconnectTimer, currentSocket, socket, connection,
                 handlerVars, paired, heartbeat, disconnects>>

-----------------------------------------------------------------------------
(***************************************************************************)
(* WhatsApp opens and closes sockets; updates of any but the newest        *)
(* generation are ignored.                                                 *)
(***************************************************************************)

SocketOpens(g) ==
  /\ connection[g] = "connecting"
  /\ connection' = [connection EXCEPT ![g] = "open"]
  /\ paired' = TRUE
  /\ IF g = connectionGeneration
       THEN reconnectTimer' = FALSE /\ opening' = opening \cup {g}
       ELSE UNCHANGED <<reconnectTimer, opening>>
  /\ UNCHANGED <<connectionGeneration, connectStage, currentSocket, socket, closing,
                 heartbeat, disconnects, refusals>>

\* Variant: the closed socket stays with the rest of the gateway.
SocketClosesExposed(g) ==
  \E s \in {"closed", "loggedOut"} :
    /\ connection[g] \in Live
    /\ Disconnect
    /\ connection' = [connection EXCEPT ![g] = s]
    /\ closing' = IF g = connectionGeneration
                    THEN [closing EXCEPT ![g] =
                            IF s = "loggedOut" THEN "stop" ELSE "reconnect"]
                    ELSE closing
    /\ UNCHANGED <<connectionGeneration, connectStage, reconnectTimer, currentSocket,
                   socket, opening, paired, heartbeat, refusals>>

SocketCloses(g) ==
  \E s \in {"closed", "loggedOut"} :
    /\ connection[g] \in Live
    /\ Disconnect
    /\ connection' = [connection EXCEPT ![g] = s]
    /\ IF g = connectionGeneration
         THEN /\ socket' = NoSocket
              /\ closing' = [closing EXCEPT ![g] =
                               IF s = "loggedOut" THEN "stop" ELSE "reconnect"]
         ELSE UNCHANGED <<socket, closing>>
    /\ UNCHANGED <<connectionGeneration, connectStage, reconnectTimer, currentSocket,
                   opening, paired, heartbeat, refusals>>

\* The open handler has learnt the bot's ids and reports the connection, even
\* if it has closed meanwhile.
OpenMarked(g) ==
  /\ g \in opening
  /\ opening' = opening \ {g}
  /\ heartbeat' = TRUE
  /\ UNCHANGED <<connectionGeneration, connectStage, reconnectTimer, currentSocket, socket,
                 connection, closing, paired, disconnects, refusals>>

\* Variant: the catch arms the timer, whichever of the awaits has thrown.
OpenFailsRearms(g) ==
  /\ g \in opening
  /\ Refuse
  /\ opening' = opening \ {g}
  /\ reconnectTimer' = TRUE
  /\ UNCHANGED <<connectionGeneration, connectStage, currentSocket, socket, connection,
                 closing, paired, heartbeat, disconnects>>

\* One of its awaits throws; the handler's catch logs it.
OpenFails(g) ==
  /\ g \in opening
  /\ Refuse
  /\ opening' = opening \ {g}
  /\ UNCHANGED <<connectionGeneration, connectStage, reconnectTimer, currentSocket, socket,
                 connection, closing, paired, heartbeat, disconnects>>

\* Variant: the close handler arms the timer whatever the reason.
CloseMarkedAlwaysRearms(g) ==
  /\ closing[g] # "none"
  /\ closing' = [closing EXCEPT ![g] = "none"]
  /\ heartbeat' = FALSE
  /\ reconnectTimer' = TRUE
  /\ UNCHANGED <<connectionGeneration, connectStage, currentSocket, socket, connection,
                 opening, paired, disconnects, refusals>>

\* Variant: the close handler counts on the timer of the attempt before it.
CloseMarkedLeavesTimer(g) ==
  /\ closing[g] # "none"
  /\ closing' = [closing EXCEPT ![g] = "none"]
  /\ heartbeat' = FALSE
  /\ UNCHANGED <<connectionGeneration, connectStage, reconnectTimer, currentSocket, socket,
                 connection, opening, paired, disconnects, refusals>>

\* The close handler reports the loss and then arms the timer.
CloseMarked(g) ==
  /\ closing[g] # "none"
  /\ closing' = [closing EXCEPT ![g] = "none"]
  /\ heartbeat' = FALSE
  /\ reconnectTimer' = (reconnectTimer \/ closing[g] = "reconnect")
  /\ UNCHANGED <<connectionGeneration, connectStage, currentSocket, socket, connection,
                 opening, paired, disconnects, refusals>>

\* The report is refused: the handler's catch logs it, no timer is armed.
CloseRefused(g) ==
  /\ closing[g] # "none"
  /\ Refuse
  /\ closing' = [closing EXCEPT ![g] = "none"]
  /\ UNCHANGED <<connectionGeneration, connectStage, reconnectTimer, currentSocket, socket,
                 connection, opening, paired, heartbeat, disconnects>>

\* Every ten seconds: is there a socket that has a user?  (A refused beat
\* changes nothing and the next one follows.)
Beat ==
  /\ heartbeat' = (socket # NoSocket /\ paired)
  /\ UNCHANGED <<connectionGeneration, connectStage, reconnectTimer, currentSocket, socket,
                 connection, handlerVars, paired, disconnects, refusals>>

-----------------------------------------------------------------------------
Connecting == TimerFires \/ SocketCreated \/ ConnectFails \/ FailureMarked \/ FailureRefused

WhatsApp(g) == SocketOpens(g) \/ SocketCloses(g)

Handler(g) == OpenMarked(g) \/ OpenFails(g) \/ CloseMarked(g) \/ CloseRefused(g)

ConnectorNext ==
  \/ Connecting
  \/ \E g \in Generation : WhatsApp(g) \/ Handler(g)
  \/ Beat

ConnectorSpec == ConnectorInit /\ [][ConnectorNext]_connectorVars

\* Timers fire and pending awaits settle; the WhatsApp library opens a socket
\* or gives it up (connect timeout, keep-alive).
Fairness ==
  /\ WF_connectorVars(Connecting)
  /\ \A g \in Generation : WF_connectorVars(WhatsApp(g) /\ connection[g] = "connecting")
  /\ \A g \in Generation : WF_connectorVars(OpenMarked(g) \/ OpenFails(g))
  /\ \A g \in Generation : WF_connectorVars(CloseMarked(g) \/ CloseRefused(g))
  /\ WF_connectorVars(Beat)

FairConnectorSpec == ConnectorSpec /\ Fairness

-----------------------------------------------------------------------------
(***************************************************************************)
(* Properties.                                                             *)
(***************************************************************************)

LoggedOut == \E g \in Generation : connection[g] = "loggedOut"

\* While a socket is alive it is the newest attempt's, the gateway sends on
\* that very socket, and nothing is under way that would replace it: no armed
\* timer, no attempt, no close handler about to arm the timer.  A second
\* connection would make WhatsApp drop the first ("connection replaced").
LiveSocketIsLeftAlone ==
  \A g \in Generation : connection[g] \in Live =>
    /\ g = connectionGeneration /\ g = currentSocket /\ g = socket
    /\ connectStage = "idle"
    /\ ~reconnectTimer
    /\ \A h \in Generation : closing[h] = "none"

\* The gateway never sends on a socket that has closed: internal dispatch
\* answers "not ready" instead.
ExposedSocketIsLive == socket # NoSocket => connection[socket] \in Live

\* Once WhatsApp has logged the session out, no further attempt is made, by
\* any handler or timer that was under way.
LoggedOutStaysOut == [][LoggedOut => connectionGeneration' = connectionGeneration]_connectorVars

\* A logout is reported for good in the end, whatever the open handler and the
\* periodic beat wrote around it.
LogoutIsReported == LoggedOut ~> [](~heartbeat)

\* Connected again, or logged out.
ConnectedAgain == \E g \in Generation : connection[g] \in {"open", "loggedOut"}

\* Whichever way attempts fail and sockets close, and
\* however their handlers and timers overlap, the gateway is connected again
\* as long as Redis has refused no report.
ReconnectsUnlessRefused == []<>(ConnectedAgain \/ refusals > 0)
=============================================================================
