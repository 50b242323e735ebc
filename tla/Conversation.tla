----------------------------- MODULE Conversation -----------------------------
(***************************************************************************)
(* Orchestrator.handleInboundMessage for one user in one chat: the terms   *)
(* gate (docs/onboarding-consent.md), commands, and tools that need more   *)
(* details or a confirmation and wait for the user's next message.         *)
(*                                                                         *)
(*   load state --> load consent --> classify --+--> consent stage         *)
(*                                              +--> command               *)
(*                                              +--> follow-up of a tool   *)
(*                                              +--> new tool, or an answer*)
(*                                                                         *)
(* The gateway handles messages concurrently, so a call of the handler     *)
(* goes on with what it loaded although other calls have written the       *)
(* consent row (Postgres) and the conversation state (Redis) since.  Each  *)
(* message is handled once: that is InboundGuard's HandledOnce.            *)
(*                                                                         *)
(* A message is what the pipeline makes of its text:                       *)
(*   "yes", "no", "cancel"  SIM, NAO, cancela                              *)
(*   "ask"      asks for a tool and leaves out a detail                    *)
(*   "remove"   asks for the removal of a given task or reminder           *)
(*   "do"       asks for any other tool, with all its details              *)
(*   "command"  starts with the command prefix                             *)
(*   "talk"     anything else                                              *)
(***************************************************************************)
EXTENDS Naturals, FiniteSets

CONSTANTS
  Messages,   \* the user's messages; a pending tool is named by its request
  NoTool,     \* no tool pending
  MaxAborts   \* bound on calls that throw or die

ASSUME MessagesAssumption == IsFiniteSet(Messages)
ASSUME NoToolAssumption == NoTool \notin Messages
ASSUME MaxAbortsAssumption == MaxAborts \in Nat

VARIABLES
  privileged,  \* is the user never gated?
  consent,     \* the user's UserConsent row, "NONE" before there is one
  state,       \* the chat's conversation state
  lapsed,      \* is the state past its expiresAt?
  kind,        \* what the messages are
  step,        \* the await a message's call is at
  seen,        \* the conversation state the call goes by
  gate,        \* the consent status the call goes by
  accepted,    \* history: has the user accepted?
  served,      \* history: messages answered by a command, a tool or the AI
  ran,         \* history: how often a request's tool was executed
  raced,       \* history: calls that found a request in another call's hands
  lost,        \* history: calls that ended after the tool, before the clean-up
  aborts

callVars == <<kind, step, seen, gate>>
pastVars == <<accepted, served, ran, raced, lost>>
vars == <<privileged, consent, state, lapsed, callVars, pastVars, aborts>>

Kind == {"yes", "no", "cancel", "ask", "remove", "do", "command", "talk"}

Status == {"NONE", "PENDING", "ACCEPTED", "DECLINED"}

Step == {"unsent", "load_state", "clear_expired", "load_consent", "clear_waiting",
         "classify", "accept", "clear_accepted", "decline", "mark_pending",
         "wait_consent", "ask", "confirm", "ask_again", "execute", "drop", "clear", "done"}

State == [mode : {"NONE", "WAITING_CONSENT"}, tool : {NoTool}]
           \cup [mode : {"WAITING_TOOL_DETAILS", "WAITING_TOOL_CONFIRMATION"}, tool : Messages]

Waiting(mode, t) == [mode |-> mode, tool |-> t]
NoState == Waiting("NONE", NoTool)
WaitingConsent == Waiting("WAITING_CONSENT", NoTool)

TypeOK ==
  /\ privileged \in BOOLEAN
  /\ consent \in Status
  /\ state \in State
  /\ lapsed \in BOOLEAN
  /\ kind \in [Messages -> Kind]
  /\ step \in [Messages -> Step]
  /\ seen \in [Messages -> State]
  /\ gate \in [Messages -> Status]
  /\ accepted \in BOOLEAN
  /\ served \subseteq Messages
  /\ ran \in [Messages -> Nat]
  /\ raced \in [Messages -> Nat]
  /\ lost \in [Messages -> Nat]
  /\ aborts \in 0 .. MaxAborts

\* A new user, or one who has accepted before.
Init ==
  /\ privileged \in BOOLEAN
  /\ consent \in {"NONE", "ACCEPTED"}
  /\ state = NoState
  /\ lapsed = FALSE
  /\ kind = [m \in Messages |-> "talk"]
  /\ step = [m \in Messages |-> "unsent"]
  /\ seen = [m \in Messages |-> NoState]
  /\ gate = [m \in Messages |-> "NONE"]
  /\ accepted = (consent = "ACCEPTED")
  /\ served = {}
  /\ ran = [m \in Messages |-> 0]
  /\ raced = [m \in Messages |-> 0]
  /\ lost = [m \in Messages |-> 0]
  /\ aborts = 0

Count(f, x) == [f EXCEPT ![x] = @ + 1]

At(m, s) == step[m] = s
Goto(m, s) == step' = [step EXCEPT ![m] = s]

\* The call returns and forgets what it loaded.
Finish(m) == Goto(m, "done") /\ seen' = [seen EXCEPT ![m] = NoState]

SetState(s) == state' = s /\ lapsed' = FALSE
ClearState == SetState(NoState)

InFlight(m) == step[m] \notin {"unsent", "done"}

\* The calls that work on the pending request t.
Holders(t) == {m \in Messages : seen[m].tool = t}

-----------------------------------------------------------------------------
(***************************************************************************)
(* The user, and the ten minutes a state lives.                            *)
(***************************************************************************)

\* A message over the rate limit goes no further: it counts as not sent.
Send(m) ==
  /\ At(m, "unsent")
  /\ \E k \in Kind : kind' = [kind EXCEPT ![m] = k]
  /\ Goto(m, "load_state")
  /\ UNCHANGED <<privileged, consent, state, lapsed, seen, gate, pastVars, aborts>>

Lapse ==
  /\ state # NoState
  /\ ~lapsed
  /\ lapsed' = TRUE
  /\ UNCHANGED <<privileged, consent, state, callVars, pastVars, aborts>>

\* Redis drops the key, rounded up to a second later.
Evict ==
  /\ lapsed
  /\ ClearState
  /\ UNCHANGED <<privileged, consent, callVars, pastVars, aborts>>

-----------------------------------------------------------------------------
(***************************************************************************)
(* buildContext and classifyMessage.                                       *)
(***************************************************************************)

LoadState(m) ==
  /\ At(m, "load_state")
  /\ IF lapsed
       THEN Goto(m, "clear_expired") /\ UNCHANGED <<seen, raced>>
       ELSE /\ Goto(m, "load_consent")
            /\ seen' = [seen EXCEPT ![m] = state]
            /\ raced' = IF state.tool # NoTool /\ Holders(state.tool) # {}
                          THEN Count(raced, state.tool) ELSE raced
  /\ UNCHANGED <<privileged, consent, state, lapsed, kind, gate, accepted, served,
                 ran, lost, aborts>>

ClearExpired(m) ==
  /\ At(m, "clear_expired")
  /\ ClearState
  /\ Goto(m, "load_consent")
  /\ UNCHANGED <<privileged, consent, kind, seen, gate, pastVars, aborts>>

\* Variant: once the waiting state is gone the gate is taken to be open.
LoadConsentByState(m) ==
  /\ At(m, "load_consent")
  /\ gate' = [gate EXCEPT ![m] =
                IF seen[m].mode = "WAITING_CONSENT" \/ consent = "NONE" THEN consent ELSE "ACCEPTED"]
  /\ Goto(m, IF consent = "ACCEPTED" /\ seen[m] = WaitingConsent
               THEN "clear_waiting" ELSE "classify")
  /\ UNCHANGED <<privileged, consent, state, lapsed, kind, seen, pastVars, aborts>>

\* checkConsentGate: who need not consent, or has done so, is not kept waiting.
LoadConsent(m) ==
  /\ At(m, "load_consent")
  /\ gate' = [gate EXCEPT ![m] = consent]
  /\ Goto(m, IF (privileged \/ consent = "ACCEPTED") /\ seen[m] = WaitingConsent
               THEN "clear_waiting" ELSE "classify")
  /\ UNCHANGED <<privileged, consent, state, lapsed, kind, seen, pastVars, aborts>>

ClearWaiting(m) ==
  /\ At(m, "clear_waiting")
  /\ ClearState
  /\ seen' = [seen EXCEPT ![m] = NoState]
  /\ Goto(m, "classify")
  /\ UNCHANGED <<privileged, consent, kind, gate, pastVars, aborts>>

Required(m) == ~privileged /\ gate[m] # "ACCEPTED"

\* Repeated text, the assistant's own echo, moderation, a group in which the
\* bot is not addressed or not allowed.
Ignore(m) ==
  /\ At(m, "classify")
  /\ Finish(m)
  /\ UNCHANGED <<privileged, consent, state, lapsed, kind, gate, pastVars, aborts>>

-----------------------------------------------------------------------------
(***************************************************************************)
(* enforceConsent.                                                         *)
(***************************************************************************)

\* Variant: a user may decline at any time.
EnforceConsentAlways(m) ==
  /\ At(m, "classify")
  /\ Required(m) \/ kind[m] = "no"
  /\ Goto(m, CASE kind[m] = "yes" -> "accept"
               [] kind[m] = "no"  -> "decline"
               [] OTHER -> IF gate[m] = "PENDING" THEN "wait_consent" ELSE "mark_pending")
  /\ UNCHANGED <<privileged, consent, state, lapsed, kind, seen, gate, pastVars, aborts>>

EnforceConsent(m) ==
  /\ At(m, "classify")
  /\ Required(m)
  /\ Goto(m, CASE kind[m] = "yes" -> "accept"
               [] kind[m] = "no"  -> "decline"
               [] OTHER -> IF gate[m] = "PENDING" THEN "wait_consent" ELSE "mark_pending")
  /\ UNCHANGED <<privileged, consent, state, lapsed, kind, seen, gate, pastVars, aborts>>

AcceptConsent(m) ==
  /\ At(m, "accept")
  /\ consent' = "ACCEPTED"
  /\ accepted' = TRUE
  /\ Goto(m, "clear_accepted")
  /\ UNCHANGED <<privileged, state, lapsed, kind, seen, gate, served, ran, raced,
                 lost, aborts>>

ClearAccepted(m) ==
  /\ At(m, "clear_accepted")
  /\ ClearState
  /\ Finish(m)
  /\ UNCHANGED <<privileged, consent, kind, gate, pastVars, aborts>>

DeclineConsent(m) ==
  /\ At(m, "decline")
  /\ consent' = "DECLINED"
  /\ Goto(m, "wait_consent")
  /\ UNCHANGED <<privileged, state, lapsed, kind, seen, gate, pastVars, aborts>>

MarkPending(m) ==
  /\ At(m, "mark_pending")
  /\ consent' = "PENDING"
  /\ Goto(m, "wait_consent")
  /\ UNCHANGED <<privileged, state, lapsed, kind, seen, gate, pastVars, aborts>>

\* ... and the reply with the link to the terms.
WaitForConsent(m) ==
  /\ At(m, "wait_consent")
  /\ SetState(WaitingConsent)
  /\ Finish(m)
  /\ UNCHANGED <<privileged, consent, kind, gate, accepted, served, ran, raced, lost, aborts>>

-----------------------------------------------------------------------------
(***************************************************************************)
(* Commands, follow-ups, new tools, answers.                               *)
(***************************************************************************)

Open(m) == At(m, "classify") /\ ~Required(m)

\* runCommandRouter: also while a tool waits for details.
RunCommand(m) ==
  /\ Open(m)
  /\ kind[m] = "command"
  /\ served' = served \cup {m}
  /\ Finish(m)
  /\ UNCHANGED <<privileged, consent, state, lapsed, kind, gate, accepted, ran, raced,
                 lost, aborts>>

\* runSlotFilling, by the pending request the call has loaded.
FollowUp(m) ==
  /\ Open(m)
  /\ kind[m] # "command"
  /\ \/ /\ seen[m].mode = "WAITING_TOOL_CONFIRMATION"
        /\ Goto(m, IF kind[m] = "yes" THEN "execute" ELSE "drop")
     \/ /\ seen[m].mode = "WAITING_TOOL_DETAILS"
        /\ IF kind[m] = "cancel" THEN Goto(m, "drop")
           ELSE \E s \in {"execute", "ask_again"} : Goto(m, s)
  /\ UNCHANGED <<privileged, consent, state, lapsed, kind, seen, gate, pastVars, aborts>>

\* handleAddressedMessage.
NewRequest(m) ==
  /\ Open(m)
  /\ seen[m] = NoState
  /\ \/ kind[m] = "ask" /\ Goto(m, "ask")
     \/ kind[m] = "remove" /\ Goto(m, "confirm")
     \/ kind[m] = "do" /\ Goto(m, "execute")
  /\ UNCHANGED <<privileged, consent, state, lapsed, kind, seen, gate, pastVars, aborts>>

\* A greeting, a trigger, the language model, or nothing while muted.
Answer(m) ==
  /\ Open(m)
  /\ seen[m] = NoState
  /\ kind[m] # "command"
  /\ served' = served \cup {m}
  /\ Finish(m)
  /\ UNCHANGED <<privileged, consent, state, lapsed, kind, gate, accepted, ran, raced,
                 lost, aborts>>

\* Variant: what the follow-up stores does not say which tool it is for.
AskUnnamed(m) ==
  /\ \/ At(m, "ask") /\ SetState(Waiting("WAITING_TOOL_DETAILS", m))
     \/ At(m, "confirm") /\ SetState(Waiting("WAITING_TOOL_CONFIRMATION", m))
     \/ At(m, "ask_again") /\ SetState(Waiting("WAITING_TOOL_DETAILS", NoTool))
  /\ served' = served \cup {m}
  /\ Finish(m)
  /\ UNCHANGED <<privileged, consent, kind, gate, accepted, ran, raced, lost, aborts>>

\* The request is stored and the user asked for details or a confirmation.
Ask(m) ==
  /\ \/ At(m, "ask") /\ SetState(Waiting("WAITING_TOOL_DETAILS", m))
     \/ At(m, "confirm") /\ SetState(Waiting("WAITING_TOOL_CONFIRMATION", m))
     \/ At(m, "ask_again") /\ SetState(Waiting("WAITING_TOOL_DETAILS", seen[m].tool))
  /\ served' = served \cup {m}
  /\ Finish(m)
  /\ UNCHANGED <<privileged, consent, kind, gate, accepted, ran, raced, lost, aborts>>

\* The request a call executes: the one it has loaded, or its own.
Tool(m) == IF seen[m].tool = NoTool THEN m ELSE seen[m].tool

\* Variant: the state is left to lapse once the tool has been executed.
ExecuteToolAndReturn(m) ==
  /\ At(m, "execute")
  /\ ran' = Count(ran, Tool(m))
  /\ served' = served \cup {m}
  /\ Finish(m)
  /\ UNCHANGED <<privileged, consent, state, lapsed, kind, gate, accepted, raced, lost,
                 aborts>>

ExecuteTool(m) ==
  /\ At(m, "execute")
  /\ ran' = Count(ran, Tool(m))
  /\ served' = served \cup {m}
  /\ Goto(m, "clear")
  /\ UNCHANGED <<privileged, consent, state, lapsed, kind, seen, gate, accepted, raced,
                 lost, aborts>>

\* clearConversationState, whatever the state has become.
Clear(m) ==
  /\ step[m] \in {"drop", "clear"}
  /\ ClearState
  /\ Finish(m)
  /\ UNCHANGED <<privileged, consent, kind, gate, pastVars, aborts>>

-----------------------------------------------------------------------------
\* Redis, Postgres or a tool throws, or the gateway dies.
Abort(m) ==
  /\ InFlight(m)
  /\ aborts < MaxAborts
  /\ aborts' = aborts + 1
  /\ lost' = IF At(m, "clear") THEN Count(lost, Tool(m)) ELSE lost
  /\ Finish(m)
  /\ UNCHANGED <<privileged, consent, state, lapsed, kind, gate, accepted, served,
                 ran, raced>>

Handle(m) ==
  \/ LoadState(m) \/ ClearExpired(m)
  \/ LoadConsent(m) \/ ClearWaiting(m)
  \/ Ignore(m)
  \/ EnforceConsent(m)
  \/ AcceptConsent(m) \/ ClearAccepted(m)
  \/ DeclineConsent(m) \/ MarkPending(m) \/ WaitForConsent(m)
  \/ RunCommand(m) \/ FollowUp(m) \/ NewRequest(m) \/ Answer(m)
  \/ Ask(m) \/ ExecuteTool(m) \/ Clear(m)

Next ==
  \/ Lapse
  \/ Evict
  \/ \E m \in Messages : Send(m) \/ Handle(m) \/ Abort(m)

Spec == Init /\ [][Next]_vars

-----------------------------------------------------------------------------
(***************************************************************************)
(* Properties.                                                             *)
(***************************************************************************)

\* "keeps tools/AI blocked": no command, tool or answer before the user has
\* accepted the terms, whatever lapses, is declined or overtaken meanwhile.
ServedOnlyAccepted == served # {} => privileged \/ accepted

\* The terms are accepted and no call is under way that has seen otherwise.
AcceptanceSettled ==
  /\ consent = "ACCEPTED"
  /\ \A m \in Messages : InFlight(m) =>
       step[m] \in {"load_state", "clear_expired", "load_consent"} \/ ~Required(m)

\* From then on nothing the user writes closes the gate again.
AcceptanceHolds == [][AcceptanceSettled => AcceptanceSettled']_vars

\* A request is executed once, and once more for each call that found it in
\* the hands of another and each call that died before its clean-up.
RunsArePaid == \A t \in Messages : ran[t] <= 1 + raced[t] + lost[t]

\* "SIM: status ACCEPTED, timestamp saved, consent gate removed"
\* (docs/onboarding-consent.md:13): an accepted user is not gated again.
AcceptanceIsFinal == [][consent = "ACCEPTED" => consent' = "ACCEPTED"]_vars
=============================================================================
