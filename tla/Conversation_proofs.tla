-------------------------- MODULE Conversation_proofs --------------------------
(***************************************************************************)
(* Proofs about Conversation, for any number of messages and failures.     *)
(***************************************************************************)
EXTENDS Conversation, FiniteSetTheorems, TLAPS

USE DEF At, Goto, Finish, SetState, ClearState, Count, callVars, pastVars

(***************************************************************************)
(* Types.  A call that stores a request again still knows which one.       *)
(***************************************************************************)
Fresh == {"unsent", "load_state", "clear_expired", "ask", "confirm", "done"}

Named ==
  \A m \in Messages :
    /\ step[m] = "ask_again" => seen[m].tool # NoTool
    /\ step[m] \in Fresh => seen[m] = NoState

TInv == TypeOK /\ Named

LEMMA States ==
  /\ NoState \in State /\ WaitingConsent \in State
  /\ NoState.tool = NoTool /\ WaitingConsent.tool = NoTool
  /\ \A t \in Messages : /\ Waiting("WAITING_TOOL_DETAILS", t) \in State
                         /\ Waiting("WAITING_TOOL_CONFIRMATION", t) \in State
                         /\ Waiting("WAITING_TOOL_DETAILS", t).tool = t
                         /\ Waiting("WAITING_TOOL_CONFIRMATION", t).tool = t
  BY DEF NoState, WaitingConsent, Waiting, State

\* A tool is pending in a state that waits for its user, and only there.
LEMMA PendingTools ==
  ASSUME NEW s \in State
  PROVE  /\ s.tool \in Messages \cup {NoTool}
         /\ s.tool \in Messages
              <=> s.mode \in {"WAITING_TOOL_DETAILS", "WAITING_TOOL_CONFIRMATION"}
  BY NoToolAssumption DEF State

LEMMA TypesInit == Init => TInv
<1> SUFFICES ASSUME Init PROVE TInv
  OBVIOUS
<1>1. accepted \in BOOLEAN
  BY Zenon DEF Init
<1>2. consent \in Status /\ privileged \in BOOLEAN
  BY DEF Init, Status
<1>3. Named
  BY DEF Init, Named, Fresh
<1>4. aborts \in 0 .. MaxAborts
  BY MaxAbortsAssumption DEF Init
<1>5. seen \in [Messages -> State] /\ state \in State /\ lapsed \in BOOLEAN
  BY States DEF Init
<1>6. /\ kind \in [Messages -> Kind] /\ step \in [Messages -> Step]
      /\ gate \in [Messages -> Status] /\ served \subseteq Messages
      /\ ran \in [Messages -> Nat] /\ raced \in [Messages -> Nat]
      /\ lost \in [Messages -> Nat]
  BY DEF Init, Status, Kind, Step
<1> QED
  BY <1>1, <1>2, <1>3, <1>4, <1>5, <1>6 DEF TInv, TypeOK

LEMMA TypesStep == TInv /\ [Next]_vars => TInv'
<1> SUFFICES ASSUME TInv, [Next]_vars PROVE TInv'
  OBVIOUS
<1> USE States DEF TInv, TypeOK, Named, Fresh, Step
<1>1. CASE Lapse
  BY <1>1 DEF Lapse
<1>2. CASE Evict
  BY <1>2 DEF Evict
<1>3. ASSUME NEW m \in Messages, Send(m) PROVE TInv'
  BY <1>3 DEF Send
<1>4. ASSUME NEW m \in Messages, Handle(m) PROVE TInv'
  <2>1. CASE LoadState(m)
    <3>1. state.tool # NoTool => state.tool \in Messages
      BY PendingTools
    <3>2. raced' \in [Messages -> Nat]
      BY <2>1, <3>1 DEF LoadState
    <3>3. /\ seen' \in [Messages -> State]
          /\ step' \in [Messages -> Step]
          /\ Named'
      BY <2>1 DEF LoadState
    <3> QED
      BY <2>1, <3>2, <3>3 DEF LoadState
  <2>2. CASE ClearExpired(m)
    BY <2>2 DEF ClearExpired
  <2>3. CASE LoadConsent(m)
    BY <2>3 DEF LoadConsent
  <2>4. CASE ClearWaiting(m)
    BY <2>4 DEF ClearWaiting
  <2>5. CASE Ignore(m)
    BY <2>5 DEF Ignore
  <2>6. CASE EnforceConsent(m)
    BY <2>6 DEF EnforceConsent
  <2>7. CASE AcceptConsent(m)
    BY <2>7 DEF AcceptConsent, Status
  <2>8. CASE ClearAccepted(m)
    BY <2>8 DEF ClearAccepted
  <2>9. CASE DeclineConsent(m) \/ MarkPending(m)
    BY <2>9 DEF DeclineConsent, MarkPending, Status
  <2>10. CASE WaitForConsent(m)
    BY <2>10 DEF WaitForConsent
  <2>11. CASE RunCommand(m) \/ Answer(m)
    BY <2>11 DEF RunCommand, Answer
  <2>12. CASE FollowUp(m)
    <3>1. seen[m].tool # NoTool
      BY <2>12, PendingTools, NoToolAssumption DEF FollowUp
    <3> QED
      BY <2>12, <3>1 DEF FollowUp
  <2>13. CASE NewRequest(m)
    BY <2>13 DEF NewRequest
  <2>14. CASE Ask(m)
    <3>1. At(m, "ask_again") => seen[m].tool \in Messages
      BY PendingTools
    <3> QED
      BY <2>14, <3>1 DEF Ask
  <2>15. CASE ExecuteTool(m)
    <3>1. Tool(m) \in Messages
      BY PendingTools DEF Tool
    <3> QED
      BY <2>15, <3>1 DEF ExecuteTool
  <2>16. CASE Clear(m)
    BY <2>16 DEF Clear
  <2> QED
    BY <1>4, <2>1, <2>2, <2>3, <2>4, <2>5, <2>6, <2>7, <2>8, <2>9, <2>10, <2>11, <2>12,
       <2>13, <2>14, <2>15, <2>16 DEF Handle
<1>5. ASSUME NEW m \in Messages, Abort(m) PROVE TInv'
  <2>1. Tool(m) \in Messages
    BY PendingTools DEF Tool
  <2> QED
    BY <1>5, <2>1, MaxAbortsAssumption DEF Abort
<1>6. CASE UNCHANGED vars
  BY <1>6 DEF vars
<1> QED
  BY <1>1, <1>2, <1>3, <1>4, <1>5, <1>6 DEF Next

\* The variables keep their types; in particular a stored request never loses
\* its tool, so that a follow-up always finds what it is a follow-up of.
THEOREM TypeCorrect == Spec => []TypeOK
<1>1. TInv => TypeOK
  BY DEF TInv
<1> QED
  BY <1>1, TypesInit, TypesStep, PTL DEF Spec

LEMMA Types == Spec => []TInv
  BY TypesInit, TypesStep, PTL DEF Spec

(***************************************************************************)
(* The gate.  A call is past it or before it according to the consent the  *)
(* call has loaded, and that is an acceptance only if there was one.       *)
(***************************************************************************)
Serving == {"ask", "confirm", "ask_again", "execute", "drop", "clear"}
Gating == {"accept", "clear_accepted", "decline", "mark_pending", "wait_consent"}

Gated ==
  /\ consent = "ACCEPTED" => accepted
  /\ \A m \in Messages :
       /\ gate[m] = "ACCEPTED" => accepted
       /\ step[m] \in Serving => ~Required(m)
       /\ step[m] \in Gating => Required(m)
  /\ ServedOnlyAccepted

LEMMA GatedInit == Init => Gated
<1> SUFFICES ASSUME Init PROVE Gated
  OBVIOUS
<1>1. consent = "ACCEPTED" => accepted
  BY Zenon DEF Init
<1> QED
  BY <1>1 DEF Init, Gated, Serving, Gating, ServedOnlyAccepted

\* What a step that serves a message needs to know.
LEMMA PastTheGate ==
  ASSUME Gated, NEW m \in Messages, ~Required(m)
  PROVE  privileged \/ accepted
  BY DEF Gated, Required

LEMMA GatedStep == TInv /\ Gated /\ [Next]_vars => Gated'
<1> SUFFICES ASSUME TInv, Gated, [Next]_vars PROVE Gated'
  OBVIOUS
<1> USE DEF TInv, TypeOK, Gated, Serving, Gating, Required, ServedOnlyAccepted
<1>1. CASE Lapse \/ Evict \/ UNCHANGED vars
  BY <1>1 DEF Lapse, Evict, vars
<1>2. ASSUME NEW m \in Messages, Send(m) \/ Abort(m) PROVE Gated'
  BY <1>2 DEF Send, Abort
<1>3. ASSUME NEW m \in Messages, Handle(m) PROVE Gated'
  <2>1. CASE LoadState(m) \/ ClearExpired(m)
    BY <2>1 DEF LoadState, ClearExpired
  <2>2. CASE LoadConsent(m)
    BY <2>2 DEF LoadConsent
  <2>3. CASE ClearWaiting(m) \/ Ignore(m)
    BY <2>3 DEF ClearWaiting, Ignore
  <2>4. CASE EnforceConsent(m)
    BY <2>4 DEF EnforceConsent
  <2>5. CASE AcceptConsent(m) \/ ClearAccepted(m)
    BY <2>5 DEF AcceptConsent, ClearAccepted
  <2>6. CASE DeclineConsent(m) \/ MarkPending(m) \/ WaitForConsent(m)
    BY <2>6 DEF DeclineConsent, MarkPending, WaitForConsent
  <2>7. CASE RunCommand(m) \/ Answer(m)
    <3>1. privileged \/ accepted
      BY <2>7, PastTheGate DEF RunCommand, Answer, Open
    <3> QED
      BY <2>7, <3>1 DEF RunCommand, Answer
  <2>8. CASE FollowUp(m) \/ NewRequest(m)
    BY <2>8 DEF FollowUp, NewRequest, Open
  <2>9. CASE Ask(m) \/ ExecuteTool(m)
    <3>1. privileged \/ accepted
      BY <2>9, PastTheGate DEF Ask, ExecuteTool
    <3> QED
      BY <2>9, <3>1 DEF Ask, ExecuteTool
  <2>10. CASE Clear(m)
    BY <2>10 DEF Clear
  <2> QED
    BY <1>3, <2>1, <2>2, <2>3, <2>4, <2>5, <2>6, <2>7, <2>8, <2>9, <2>10 DEF Handle
<1> QED
  BY <1>1, <1>2, <1>3 DEF Next

\* No command, tool or answer before the user has accepted the terms, however
\* many messages are handled at once and whatever fails.
THEOREM NoneServedUngated == Spec => []ServedOnlyAccepted
<1>1. Gated => ServedOnlyAccepted
  BY DEF Gated
<1> QED
  BY <1>1, GatedInit, GatedStep, Types, PTL DEF Spec

\* Once the terms are accepted and every call that has seen otherwise is over,
\* no message closes the gate again.
THEOREM AcceptedForGood == Spec => AcceptanceHolds
<1>1. TInv /\ Gated /\ [Next]_vars => [AcceptanceSettled => AcceptanceSettled']_vars
  <2> SUFFICES ASSUME TInv, Gated, Next, AcceptanceSettled PROVE AcceptanceSettled'
    BY DEF AcceptanceSettled, InFlight, Required, vars
  <2> USE DEF TInv, TypeOK, Gated, Gating, AcceptanceSettled, InFlight, Required
  <2>1. CASE Lapse \/ Evict
    BY <2>1 DEF Lapse, Evict
  <2>2. ASSUME NEW m \in Messages, Send(m) \/ Abort(m) PROVE AcceptanceSettled'
    BY <2>2 DEF Send, Abort
  <2>3. ASSUME NEW m \in Messages, Handle(m) PROVE AcceptanceSettled'
    <3>1. CASE LoadState(m) \/ ClearExpired(m)
      BY <3>1 DEF LoadState, ClearExpired
    <3>2. CASE LoadConsent(m)
      BY <3>2 DEF LoadConsent
    <3>3. CASE ClearWaiting(m) \/ Ignore(m)
      BY <3>3 DEF ClearWaiting, Ignore
    <3>4. CASE EnforceConsent(m)
      BY <3>4 DEF EnforceConsent
    <3>5. CASE AcceptConsent(m) \/ ClearAccepted(m)
      BY <3>5 DEF AcceptConsent, ClearAccepted
    <3>6. CASE DeclineConsent(m) \/ MarkPending(m) \/ WaitForConsent(m)
      BY <3>6 DEF DeclineConsent, MarkPending, WaitForConsent
    <3>7. CASE RunCommand(m) \/ Answer(m) \/ FollowUp(m) \/ NewRequest(m)
      BY <3>7 DEF RunCommand, Answer, FollowUp, NewRequest, Open
    <3>8. CASE Ask(m) \/ ExecuteTool(m) \/ Clear(m)
      BY <3>8 DEF Ask, ExecuteTool, Clear
    <3> QED
      BY <2>3, <3>1, <3>2, <3>3, <3>4, <3>5, <3>6, <3>7, <3>8 DEF Handle
  <2> QED
    BY <2>1, <2>2, <2>3 DEF Next
<1> QED
  BY <1>1, GatedInit, GatedStep, Types, PTL DEF Spec, AcceptanceHolds

(***************************************************************************)
(* The account of a request t: what has been executed and what still may   *)
(* be.  Readers may execute t, one more call if the stored request has not *)
(* been read, and t's own call while it may turn out to ask for nothing.   *)
(***************************************************************************)
Readers(t) == {m \in Messages : seen[m].tool = t /\ step[m] # "clear"}

Unread(t) == state.tool = t /\ Holders(t) = {}

Undecided == {"unsent", "load_state", "clear_expired", "load_consent", "clear_waiting",
              "classify", "ask", "confirm"}

Own(t) == step[t] \in Undecided \/ (step[t] = "execute" /\ seen[t].tool = NoTool)

Bit(b) == IF b THEN 1 ELSE 0

Balanced(t) ==
  ran[t] + Cardinality(Readers(t)) + Bit(Unread(t)) + Bit(Own(t)) <= 1 + raced[t] + lost[t]

Account == \A t \in Messages : Balanced(t)

-----------------------------------------------------------------------------
(***************************************************************************)
(* Counting readers, and the steps that leave an account alone.            *)
(***************************************************************************)
LEMMA SomeMessages ==
  ASSUME NEW S \in SUBSET Messages
  PROVE  IsFiniteSet(S) /\ Cardinality(S) \in Nat
  BY MessagesAssumption, FS_Subset, FS_CardinalityType

LEMMA NoMoreReaders ==
  ASSUME NEW S \in SUBSET Messages, NEW T \in SUBSET Messages, S \subseteq T
  PROVE  Cardinality(S) <= Cardinality(T)
  BY SomeMessages, FS_Subset

LEMMA OneReaderMore ==
  ASSUME NEW S \in SUBSET Messages, NEW T \in SUBSET Messages, NEW m \in Messages,
         S \subseteq T \cup {m}
  PROVE  Cardinality(S) <= Cardinality(T) + 1
<1>1. IsFiniteSet(T) /\ Cardinality(T) \in Nat
  BY SomeMessages
<1>2. /\ IsFiniteSet(T \cup {m})
      /\ Cardinality(T \cup {m}) = IF m \in T THEN Cardinality(T) ELSE Cardinality(T) + 1
  BY <1>1, FS_AddElement, Zenon
<1>3. Cardinality(S) <= Cardinality(T \cup {m})
  BY NoMoreReaders
<1>4. Cardinality(S) \in Nat /\ Cardinality(T \cup {m}) \in Nat
  BY SomeMessages
<1> QED
  BY <1>1, <1>2, <1>3, <1>4

LEMMA OneReaderLess ==
  ASSUME NEW S \in SUBSET Messages, NEW T \in SUBSET Messages, NEW m \in T,
         S \subseteq T \ {m}
  PROVE  Cardinality(S) + 1 <= Cardinality(T)
<1>1. /\ IsFiniteSet(T \ {m})
      /\ Cardinality(T \ {m}) = Cardinality(T) - 1
  BY SomeMessages, FS_RemoveElement
<1>2. Cardinality(S) <= Cardinality(T \ {m})
  BY NoMoreReaders
<1>3. Cardinality(S) \in Nat /\ Cardinality(T) \in Nat
  BY SomeMessages
<1> QED
  BY <1>1, <1>2, <1>3

LEMMA ReaderCounts ==
  ASSUME NEW t \in Messages
  PROVE  /\ Readers(t) \in SUBSET Messages /\ Readers(t)' \in SUBSET Messages
         /\ Cardinality(Readers(t)) \in Nat /\ Cardinality(Readers(t)') \in Nat
<1>1. Readers(t) \in SUBSET Messages /\ Readers(t)' \in SUBSET Messages
  BY DEF Readers
<1> QED
  BY <1>1, SomeMessages

LEMMA Counters ==
  ASSUME TInv, NEW t \in Messages
  PROVE  ran[t] \in Nat /\ raced[t] \in Nat /\ lost[t] \in Nat
  BY DEF TInv, TypeOK

\* Nothing is added on the left, nothing taken away on the right.
LEMMA Quiet ==
  ASSUME TInv, TInv', NEW t \in Messages, Balanced(t),
         ran'[t] = ran[t], raced[t] <= raced'[t], lost[t] <= lost'[t],
         Readers(t)' \subseteq Readers(t), Unread(t)' => Unread(t), Own(t)' => Own(t)
  PROVE  Balanced(t)'
<1>1. Cardinality(Readers(t)') <= Cardinality(Readers(t))
  BY ReaderCounts, NoMoreReaders
<1>2. Bit(Unread(t)') <= Bit(Unread(t)) /\ Bit(Own(t)') <= Bit(Own(t))
  BY DEF Bit
<1>3. /\ Bit(Unread(t)) \in Nat /\ Bit(Unread(t)') \in Nat
      /\ Bit(Own(t)) \in Nat /\ Bit(Own(t)') \in Nat
  BY DEF Bit
<1>4. ran'[t] \in Nat /\ raced'[t] \in Nat /\ lost'[t] \in Nat
  BY DEF TInv, TypeOK
<1> QED
  BY <1>1, <1>2, <1>3, <1>4, ReaderCounts, Counters DEF Balanced

\* A reader of t gives it up; t may be stored, for another call to read.
LEMMA GivenBack ==
  ASSUME TInv, TInv', NEW t \in Messages, Balanced(t),
         ran'[t] = ran[t], raced'[t] = raced[t], lost'[t] = lost[t],
         NEW m \in Readers(t), Readers(t)' \subseteq Readers(t) \ {m}, Own(t)' => Own(t)
  PROVE  Balanced(t)'
<1>1. Cardinality(Readers(t)') + 1 <= Cardinality(Readers(t))
  BY ReaderCounts, OneReaderLess
<1>2. Bit(Unread(t)') <= 1 /\ Bit(Own(t)') <= Bit(Own(t))
  BY DEF Bit
<1>3. /\ Bit(Unread(t)) \in Nat /\ Bit(Unread(t)') \in Nat
      /\ Bit(Own(t)) \in Nat /\ Bit(Own(t)') \in Nat
  BY DEF Bit
<1> QED
  BY <1>1, <1>2, <1>3, ReaderCounts, Counters DEF Balanced

\* A call ends and leaves the conversation state alone.
LEMMA Released ==
  ASSUME TInv, TInv', NEW m \in Messages, NEW t \in Messages, Balanced(t),
         step[m] # "clear", Finish(m), UNCHANGED <<state, ran, raced, lost>>
  PROVE  Balanced(t)'
<1> USE DEF TInv, TypeOK
<1>1. Own(t)' => Own(t)
  BY DEF Own, Undecided
<1>2. CASE seen[m].tool = t
  <2>1. m \in Readers(t) /\ Readers(t)' \subseteq Readers(t) \ {m}
    BY <1>2, States, NoToolAssumption DEF Readers
  <2> QED
    BY <1>1, <2>1, GivenBack
<1>3. CASE seen[m].tool # t
  <2>1. Readers(t)' \subseteq Readers(t)
    BY States, NoToolAssumption DEF Readers
  <2>2. Unread(t)' => Unread(t)
    BY <1>3 DEF Unread, Holders
  <2> QED
    BY <1>1, <2>1, <2>2, Quiet
<1> QED
  BY <1>2, <1>3

\* A call goes on or ends, and the state is emptied or unchanged.
LEMMA Moved ==
  ASSUME TInv, TInv', NEW m \in Messages, NEW t \in Messages, Balanced(t),
         NEW s \in Step, step' = [step EXCEPT ![m] = s],
         step[m] # "clear" \/ s = "done",
         Own(m)' => Own(m),
         UNCHANGED <<ran, raced, lost>>,
         \/ state' = state /\ seen' = seen
         \/ state'.tool # t /\ (seen' = seen \/ seen' = [seen EXCEPT ![m] = NoState])
  PROVE  Balanced(t)'
<1> USE DEF TInv, TypeOK
<1>1. Own(t)' => Own(t)
  BY DEF Own
<1>2. Readers(t)' \subseteq Readers(t)
  <2>1. ASSUME NEW n \in Messages, seen'[n].tool = t, step'[n] # "clear"
        PROVE  seen[n].tool = t /\ step[n] # "clear"
    BY <2>1, States, NoToolAssumption, TInv, TInv' DEF Named, Fresh
  <2> QED
    BY <2>1 DEF Readers
<1>3. Unread(t)' => Unread(t)
  BY DEF Unread, Holders
<1> QED
  BY <1>1, <1>2, <1>3, Quiet

-----------------------------------------------------------------------------
(***************************************************************************)
(* Every step keeps every account.                                         *)
(***************************************************************************)
LEMMA AccountInit == Init => Account
<1> SUFFICES ASSUME Init, NEW t \in Messages PROVE Balanced(t)
  BY DEF Account
<1>1. Readers(t) = {}
  BY NoToolAssumption, States DEF Init, Readers
<1>2. ~Unread(t)
  BY NoToolAssumption, States DEF Init, Unread
<1> QED
  BY <1>1, <1>2, FS_EmptySet DEF Init, Balanced, Bit

\* A call reads the conversation state.
LEMMA LoadKeepsAccount ==
  ASSUME TInv, TInv', NEW m \in Messages, NEW t \in Messages, Balanced(t), LoadState(m)
  PROVE  Balanced(t)'
<1> USE DEF TInv, TypeOK
<1>1. Own(t)' => Own(t)
  BY DEF LoadState, Own, Undecided
<1>2. step[m] = "load_state" /\ seen[m].tool = NoTool
  BY States DEF LoadState, Named, Fresh
<1>3. CASE lapsed
  <2>1. Readers(t)' \subseteq Readers(t) /\ (Unread(t)' => Unread(t))
    BY <1>2, <1>3 DEF LoadState, Readers, Unread, Holders
  <2> QED
    BY <1>1, <1>3, <2>1, Quiet DEF LoadState
<1>4. CASE ~lapsed /\ state.tool # t
  <2>1. Readers(t)' \subseteq Readers(t) /\ ~Unread(t)'
    BY <1>2, <1>4 DEF LoadState, Readers, Unread
  <2>2. raced[t] <= raced'[t]
    BY <1>4 DEF LoadState
  <2> QED
    BY <1>1, <1>4, <2>1, <2>2, Quiet DEF LoadState
<1>5. CASE ~lapsed /\ state.tool = t
  <2>1. Readers(t)' \subseteq Readers(t) \cup {m} /\ ~Unread(t)'
    BY <1>2, <1>5 DEF LoadState, Readers, Unread, Holders
  <2>2. Cardinality(Readers(t)') <= Cardinality(Readers(t)) + 1
    BY <2>1, ReaderCounts, OneReaderMore
  <2>3. ran'[t] = ran[t] /\ lost'[t] = lost[t]
    BY DEF LoadState
  <2>4. Bit(Own(t)') <= Bit(Own(t)) /\ Bit(Own(t)) \in Nat /\ Bit(Own(t)') \in Nat
    BY <1>1 DEF Bit
  <2>5. Bit(Unread(t)') = 0
    BY <2>1 DEF Bit
  <2>6. CASE Holders(t) = {}
    <3>1. Bit(Unread(t)) = 1
      BY <1>5, <2>6 DEF Unread, Bit
    <3>2. raced'[t] = raced[t]
      BY <1>5, <2>6 DEF LoadState
    <3> QED
      BY <2>2, <2>3, <2>4, <2>5, <3>1, <3>2, ReaderCounts, Counters DEF Balanced
  <2>7. CASE Holders(t) # {}
    <3>1. Bit(Unread(t)) = 0
      BY <2>7 DEF Unread, Bit
    <3>2. raced'[t] = raced[t] + 1
      BY <1>5, <2>7, NoToolAssumption DEF LoadState
    <3> QED
      BY <2>2, <2>3, <2>4, <2>5, <3>1, <3>2, ReaderCounts, Counters DEF Balanced
  <2> QED
    BY <2>6, <2>7
<1> QED
  BY <1>3, <1>4, <1>5

\* A call stores the request it has, its own or the one it has read.
LEMMA AskKeepsAccount ==
  ASSUME TInv, TInv', NEW m \in Messages, NEW t \in Messages, Balanced(t), Ask(m)
  PROVE  Balanced(t)'
<1> USE DEF TInv, TypeOK
<1>1. /\ step' = [step EXCEPT ![m] = "done"] /\ seen' = [seen EXCEPT ![m] = NoState]
      /\ UNCHANGED <<ran, raced, lost>> /\ step[m] # "clear"
  BY DEF Ask
<1>2. Readers(t)' \subseteq Readers(t)
  BY <1>1, States, NoToolAssumption DEF Readers
<1>3. (Own(t)' => Own(t)) /\ ~Own(m)'
  BY <1>1 DEF Own, Undecided
<1>4. CASE state'.tool # t
  BY <1>1, <1>2, <1>3, <1>4, Quiet DEF Unread
<1>5. CASE At(m, "ask_again") /\ state'.tool = t
  <2>1. seen[m].tool = t
    BY <1>5, States, PendingTools DEF Ask, Waiting
  <2>2. m \in Readers(t) /\ Readers(t)' \subseteq Readers(t) \ {m}
    BY <1>1, <2>1, States, NoToolAssumption DEF Readers
  <2> QED
    BY <1>1, <1>3, <2>2, GivenBack
<1>6. CASE ~At(m, "ask_again") /\ state'.tool = t
  <2>1. t = m
    BY <1>6, States DEF Ask, Waiting
  <2>2. Bit(Own(t)) = 1 /\ Bit(Own(t)') = 0
    BY <1>3, <1>6, <2>1 DEF Ask, Own, Undecided, Bit
  <2>3. Cardinality(Readers(t)') <= Cardinality(Readers(t))
    BY <1>2, ReaderCounts, NoMoreReaders
  <2>4. Bit(Unread(t)') \in {0, 1} /\ Bit(Unread(t)) \in Nat
    BY DEF Bit
  <2> QED
    BY <1>1, <2>2, <2>3, <2>4, ReaderCounts, Counters DEF Balanced
<1> QED
  BY <1>4, <1>5, <1>6

\* A call executes a tool: it was counted for that.
LEMMA ExecuteKeepsAccount ==
  ASSUME TInv, TInv', NEW m \in Messages, NEW t \in Messages, Balanced(t), ExecuteTool(m)
  PROVE  Balanced(t)'
<1> USE DEF TInv, TypeOK
<1>1. /\ step[m] = "execute" /\ step' = [step EXCEPT ![m] = "clear"]
      /\ UNCHANGED <<state, seen, raced, lost>>
  BY DEF ExecuteTool
<1>2. Readers(t)' \subseteq Readers(t) \ {m}
  BY <1>1 DEF Readers
<1>3. (Unread(t)' => Unread(t)) /\ (Own(t)' => Own(t)) /\ ~Own(m)'
  BY <1>1 DEF Unread, Holders, Own, Undecided
<1>4. CASE t # Tool(m)
  <2>1. ran'[t] = ran[t]
    BY <1>4 DEF ExecuteTool
  <2> QED
    BY <1>1, <1>2, <1>3, <2>1, Quiet
<1>5. CASE t = Tool(m)
  <2>1. ran'[t] = ran[t] + 1
    BY <1>5 DEF ExecuteTool
  <2>2. Bit(Unread(t)') <= Bit(Unread(t)) /\ Bit(Unread(t)) \in Nat /\ Bit(Unread(t)') \in Nat
    BY <1>3 DEF Bit
  <2>3. CASE seen[m].tool = NoTool
    <3>1. t = m
      BY <1>5, <2>3 DEF Tool
    <3>2. Bit(Own(t)) = 1 /\ Bit(Own(t)') = 0
      BY <1>1, <1>3, <2>3, <3>1 DEF Own, Bit
    <3>3. Cardinality(Readers(t)') <= Cardinality(Readers(t))
      BY <1>2, ReaderCounts, NoMoreReaders
    <3> QED
      BY <1>1, <2>1, <2>2, <3>2, <3>3, ReaderCounts, Counters DEF Balanced
  <2>4. CASE seen[m].tool # NoTool
    <3>1. m \in Readers(t)
      BY <1>1, <1>5, <2>4 DEF Tool, Readers
    <3>2. Cardinality(Readers(t)') + 1 <= Cardinality(Readers(t))
      BY <1>2, <3>1, ReaderCounts, OneReaderLess
    <3>3. Bit(Own(t)') <= Bit(Own(t)) /\ Bit(Own(t)) \in Nat /\ Bit(Own(t)') \in Nat
      BY <1>3 DEF Bit
    <3> QED
      BY <1>1, <2>1, <2>2, <3>2, <3>3, ReaderCounts, Counters DEF Balanced
  <2> QED
    BY <2>3, <2>4
<1> QED
  BY <1>4, <1>5

\* A call dies; after its tool was executed that is counted as a loss.
LEMMA AbortKeepsAccount ==
  ASSUME TInv, TInv', NEW m \in Messages, NEW t \in Messages, Balanced(t), Abort(m)
  PROVE  Balanced(t)'
<1> USE DEF TInv, TypeOK
<1>1. CASE ~At(m, "clear")
  BY <1>1, Released DEF Abort
<1>2. CASE At(m, "clear")
  <2>1. /\ step' = [step EXCEPT ![m] = "done"] /\ seen' = [seen EXCEPT ![m] = NoState]
        /\ UNCHANGED <<state, ran, raced>>
        /\ lost' = [lost EXCEPT ![Tool(m)] = @ + 1]
    BY <1>2 DEF Abort
  <2>2. Readers(t)' \subseteq Readers(t)
    BY <2>1, States, NoToolAssumption DEF Readers
  <2>3. Own(t)' => Own(t)
    BY <2>1 DEF Own, Undecided
  <2>4. CASE t # Tool(m)
    <3>1. seen[m].tool # t
      BY <2>4, NoToolAssumption DEF Tool
    <3>2. Unread(t)' => Unread(t)
      BY <2>1, <3>1 DEF Unread, Holders
    <3>3. lost'[t] = lost[t]
      BY <2>1, <2>4
    <3> QED
      BY <2>1, <2>2, <2>3, <3>2, <3>3, Quiet
  <2>5. CASE t = Tool(m)
    <3>1. lost'[t] = lost[t] + 1
      BY <2>1, <2>5
    <3>2. Cardinality(Readers(t)') <= Cardinality(Readers(t))
      BY <2>2, ReaderCounts, NoMoreReaders
    <3>3. /\ Bit(Unread(t)') \in {0, 1} /\ Bit(Unread(t)) \in Nat
          /\ Bit(Own(t)') <= Bit(Own(t)) /\ Bit(Own(t)) \in Nat /\ Bit(Own(t)') \in Nat
      BY <2>3 DEF Bit
    <3> QED
      BY <2>1, <3>1, <3>2, <3>3, ReaderCounts, Counters DEF Balanced
  <2> QED
    BY <2>4, <2>5
<1> QED
  BY <1>1, <1>2

LEMMA AccountStep == TInv /\ TInv' /\ Account /\ [Next]_vars => Account'
<1> SUFFICES ASSUME TInv, TInv', Account, [Next]_vars, NEW t \in Messages
             PROVE  Balanced(t)'
  BY DEF Account
<1> Balanced(t)
  BY DEF Account
<1>1. CASE Lapse \/ UNCHANGED vars
  <2>1. UNCHANGED <<step, seen, state, ran, raced, lost>>
    BY <1>1 DEF Lapse, vars
  <2> QED
    BY <2>1 DEF Balanced, Readers, Unread, Holders, Own
<1>2. CASE Evict
  <2>1. Readers(t)' = Readers(t) /\ ~Unread(t)' /\ (Own(t)' => Own(t))
    BY <1>2, States, NoToolAssumption DEF Evict, Readers, Unread, Own
  <2> QED
    BY <1>2, <2>1, Counters, Quiet DEF Evict
<1>3. ASSUME NEW m \in Messages, Send(m) \/ Abort(m) PROVE Balanced(t)'
  <2>1. CASE Send(m)
    BY <2>1, Moved DEF Send, Own, Undecided, Step, TInv, TypeOK
  <2> QED
    BY <1>3, <2>1, AbortKeepsAccount
<1>4. ASSUME NEW m \in Messages, Handle(m) PROVE Balanced(t)'
  <2> USE States, NoToolAssumption
  <2> DEFINE Goes(s) == step' = [step EXCEPT ![m] = s]
  <2>1. CASE ClearExpired(m)
    BY <2>1, Moved DEF ClearExpired, Own, Undecided, Step, TInv, TypeOK
  <2>2. CASE LoadConsent(m)
    BY <2>2, Moved DEF LoadConsent, Own, Undecided, Step, TInv, TypeOK
  <2>3. CASE ClearWaiting(m)
    BY <2>3, Moved DEF ClearWaiting, Own, Undecided, Step, TInv, TypeOK
  <2>4. CASE Ignore(m) \/ RunCommand(m) \/ Answer(m)
    BY <2>4, Released DEF Ignore, RunCommand, Answer, Open
  <2>5. CASE EnforceConsent(m)
    <3>1. \E s \in Gating : Goes(s)
      BY <2>5 DEF EnforceConsent, Gating
    <3>2. PICK s \in Gating : Goes(s)
      BY <3>1
    <3>3. s \in Step /\ (Own(m)' => Own(m))
      BY <2>5, <3>2 DEF EnforceConsent, Gating, Own, Undecided, Step, TInv, TypeOK
    <3>4. step[m] # "clear" /\ UNCHANGED <<state, seen, ran, raced, lost>>
      BY <2>5 DEF EnforceConsent
    <3> QED
      BY <3>2, <3>3, <3>4, Moved
  <2>6. CASE AcceptConsent(m) \/ DeclineConsent(m) \/ MarkPending(m)
    BY <2>6, Moved
    DEF AcceptConsent, DeclineConsent, MarkPending, Own, Undecided, Step, TInv, TypeOK
  <2>7. CASE ClearAccepted(m) \/ WaitForConsent(m) \/ Clear(m)
    <3>1. /\ Goes("done") /\ seen' = [seen EXCEPT ![m] = NoState]
          /\ state' \in {NoState, WaitingConsent} /\ UNCHANGED <<ran, raced, lost>>
      BY <2>7 DEF ClearAccepted, WaitForConsent, Clear
    <3>2. state'.tool # t /\ "done" \in Step
      BY <3>1 DEF Step
    <3>3. Own(m)' => Own(m)
      BY <3>1 DEF Own, Undecided, TInv, TypeOK
    <3> QED
      BY <3>1, <3>2, <3>3, Moved
  <2>8. CASE FollowUp(m) \/ NewRequest(m)
    <3>1. /\ \E s \in Serving : Goes(s)
          /\ At(m, "classify") /\ UNCHANGED <<state, seen, ran, raced, lost>>
      BY <2>8 DEF FollowUp, NewRequest, Serving, Open
    <3> QED
      BY <3>1, Moved DEF Serving, Own, Undecided, Step, TInv, TypeOK
  <2> QED
    BY <1>4, <2>1, <2>2, <2>3, <2>4, <2>5, <2>6, <2>7, <2>8, LoadKeepsAccount,
       AskKeepsAccount, ExecuteKeepsAccount DEF Handle
<1> QED
  BY <1>1, <1>2, <1>3, <1>4 DEF Next

\* However the answers to a request overlap, lapse or die, its tool is executed
\* once, and once more only for each call that came upon it in another's hands
\* and each that died before its clean-up.
THEOREM NoUnpaidRun == Spec => []RunsArePaid
<1>1. TInv /\ Account => RunsArePaid
  <2> SUFFICES ASSUME TInv, Account, NEW t \in Messages
               PROVE  ran[t] <= 1 + raced[t] + lost[t]
    BY DEF RunsArePaid
  <2>1. Bit(Unread(t)) \in Nat /\ Bit(Own(t)) \in Nat
    BY DEF Bit
  <2> QED
    BY <2>1, ReaderCounts, Counters DEF Account, Balanced
<1> QED
  BY <1>1, AccountInit, AccountStep, Types, PTL DEF Spec
=============================================================================
