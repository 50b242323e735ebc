------------------------------- MODULE Outbound -------------------------------
(***************************************************************************)
(* What the gateway does with the list of actions the orchestrator answers *)
(* to one message (outbound-actions.ts and outbound/handlers/*.ts), inside *)
(* the acknowledgement of the command (command-reaction-ack.ts) and the    *)
(* try of messages-upsert-handler.ts.                                      *)
(*                                                                         *)
(* An action is a plan: steps inside the handler's try, steps after it and *)
(* the steps of its catch.  Every step is an await that may fail; a failed *)
(* step goes to the nearest catch, ending the actions in between.  Speech  *)
(* that is dispatched as a text opens a second list inside the first.      *)
(***************************************************************************)
EXTENDS Integers, Sequences, FiniteSets

CONSTANTS
  Commands,     \* lists answered to the commands that show progress
  Messages,     \* lists answered to every other message
  Denials,      \* lists of the answer governance gives in place of an execution
  Dispatched,   \* of each kind of audio: the lists answered to its transcript
  MaxFaults     \* failing calls and lost connections

\* The kinds of action.  A list, an error, a hand-over or a suggestion goes out
\* as a text does; transcriptions are told apart by what becomes of the words.
Kinds == {"noop", "text", "job", "voice", "video", "image", "spoken", "transcribe",
          "translate", "sticker", "hidetag", "delete", "mute"}

ASSUME OutboundAssumption == MaxFaults \in Nat
ASSUME ListsAssumption ==
  /\ Commands \cup Messages \cup Denials \subseteq Seq(Kinds)
  /\ \A kind \in {"spoken", "translate"} : Dispatched[kind] \subseteq Seq(Kinds)

VARIABLES
  socket,    \* whether the gateway holds a socket
  stage,     \* where the handler of the message is
  route,     \* how the list came about: command, message or denial
  frames,    \* the lists being executed, an inner one last
  mark,      \* the reaction on the message
  sent,      \* messages delivered to the chat
  stored,    \* messages written to the history
  due,       \* replies the lists so far call for
  owed,      \* jobs and mutes of the lists so far that are not done
  noticed,   \* an exception reached a catch that tells the sender or the log
  lost,      \* a closing reaction could not be sent
  faults

vars == <<socket, stage, route, frames, mark, sent, stored, due, owed, noticed, lost, faults>>
exec == <<frames, stage, noticed>>
effects == <<mark, sent, stored, due, owed, lost>>

-----------------------------------------------------------------------------
(* Plans. *)
React(m) == [do |-> "react", mark |-> m]
Step(d) == [do |-> d, mark |-> "none"]
SendTextAndPersist == <<Step("send"), Step("persist")>>
Plan(try, after, catch, quiet) ==
  [try |-> try, after |-> after, catch |-> catch, quiet |-> quiet]
Plain(steps) == Plan(<<>>, steps, <<>>, FALSE)
Apology == <<React("bad")>> \o SendTextAndPersist

(* Mutant: a failing write to the queue is logged and forgotten. *)
EnqueueQuietly == {Plan(<<>>, <<Step("job")>>, <<>>, TRUE)}
EnqueueJob == {Plain(<<Step("job")>>)}

(* Sound by its leading bytes, if they tell, and by its mime type; only Opus *)
(* in Ogg goes out as it is, all else through ffmpeg, whose every failure,   *)
(* also a timeout or an empty or unfit output, is answered by a text.        *)
Sounds == [bytes : {"ogg", "other", "unknown", "empty"}, mime : {"ogg_opus", "ogg", "other"}]
DetectContainer(sound) ==
  IF sound.bytes = "unknown" THEN IF sound.mime = "other" THEN "other" ELSE "ogg"
  ELSE sound.bytes
IsAlreadyPttCompatible(sound) == DetectContainer(sound) = "ogg" /\ sound.mime = "ogg_opus"
NormalizeToVoiceNote(sound) ==
  IF IsAlreadyPttCompatible(sound) THEN <<>> ELSE <<Step("transcode")>>
ReplyAudio ==
  {IF sound.bytes = "empty" THEN Plain(SendTextAndPersist)
   ELSE Plan(NormalizeToVoiceNote(sound), SendTextAndPersist, SendTextAndPersist, FALSE) :
     sound \in Sounds}

(* A video from its bytes or address, or the fallback text.                  *)
ReplyVideo == {Plain(SendTextAndPersist)}

(* The image, its fallback text when sending or storing it failed, or the    *)
(* text alone when no image was read; a failing text is logged.              *)
FetchedImages == BOOLEAN
ReplyImage ==
  {IF fetched THEN Plan(SendTextAndPersist, <<>>, SendTextAndPersist, TRUE)
   ELSE Plan(<<>>, SendTextAndPersist, <<>>, TRUE) : fetched \in FetchedImages}

(* Reactions of an audio action, which a command leaves to its own.          *)
Progress(kind, m) == IF kind = "spoken" THEN <<React(m)>> ELSE <<>>

(* Mutant: a failure is answered without the closing reaction. *)
FailedUnmarked(kind) == SendTextAndPersist
Failed(kind) == Progress(kind, "bad") \o SendTextAndPersist

(* What follows the transcription, unless the transcript is empty: the text; *)
(* the dispatch of the command's template, which may render to nothing; for  *)
(* speech a question about what is missing or the dispatch of a command or   *)
(* of the words themselves.                                                  *)
EmptyTranscript(kind) == {Failed(kind)}
TranscribeOnly == {SendTextAndPersist}
DispatchTemplate == {<<Step("dispatch")>>, Failed("translate")}
Heard == {"candidate", "follow_up", "none"}
RouteSpeech ==
  {(IF heard = "follow_up" THEN SendTextAndPersist ELSE <<Step("dispatch")>>)
     \o Progress("spoken", "ok") : heard \in Heard}

Transcribed(kind) ==
  EmptyTranscript(kind) \cup
  CASE kind = "transcribe" -> TranscribeOnly
    [] kind = "translate"  -> DispatchTemplate
    [] kind = "spoken"     -> RouteSpeech

(* Speech recognition not configured; no audio; or the whole way.            *)
Audio(kind) ==
  {Plain(SendTextAndPersist), Plain(Progress(kind, "busy") \o Failed(kind))} \cup
  {Plan(Progress(kind, "busy") \o <<Step("socket"), Step("download"), Step("transcribe")>>
          \o steps, <<>>, Failed(kind), FALSE) : steps \in Transcribed(kind)}

(* No socket; no source; an image or a sticker converted; a video, which if  *)
(* of unknown length is measured first and if too long is refused at once.   *)
MediaSources == {"none", "image", "video", "long_video", "unmeasured_video"}
Transform(source) ==
  CASE source \in {"image", "video"} -> <<Step("convert")>>
    [] source = "unmeasured_video" -> <<Step("probe"), Step("convert")>>
StickerPlan(source) ==
  CASE source = "none" -> Plain(<<React("busy")>> \o Apology)
    [] source = "long_video" -> Plan(<<React("busy"), Step("download")>>, Apology, Apology, FALSE)
    [] OTHER -> Plan(<<React("busy"), Step("download")>> \o Transform(source)
                       \o SendTextAndPersist \o <<React("ok")>>, <<>>, Apology, FALSE)
Sticker == IF socket THEN {StickerPlan(source) : source \in MediaSources}
           ELSE {Plain(SendTextAndPersist)}

(* The text or the quoted media again, with every participant mentioned; an  *)
(* unfit quotation is answered by a text, as is an error of any step.  The   *)
(* outcome is recorded outside the try.                                      *)
HidetagFailed == SendTextAndPersist \o <<Step("record")>>
HidetagContents ==
  {<<>>, <<Step("download")>>, <<Step("download"), Step("convert")>>}
Hidetag ==
  {Plan(content \o SendTextAndPersist, <<Step("record")>>, HidetagFailed, FALSE) :
     content \in HidetagContents}
  \cup {Plan(content, HidetagFailed, HidetagFailed, FALSE) : content \in HidetagContents}

DeleteMessage == {Plain(<<Step("record")>>)}
Mute == {Plain(<<Step("mute")>> \o SendTextAndPersist \o <<Step("record")>>)}

Plans(kind) ==
  CASE kind = "noop" -> {Plain(<<>>)}
    [] kind = "text" -> {Plain(SendTextAndPersist)}
    [] kind = "job" -> EnqueueJob
    [] kind = "voice" -> ReplyAudio
    [] kind = "video" -> ReplyVideo
    [] kind = "image" -> ReplyImage
    [] kind \in {"spoken", "transcribe", "translate"} -> Audio(kind)
    [] kind = "sticker" -> Sticker
    [] kind = "hidetag" -> Hidetag
    [] kind = "delete" -> DeleteMessage
    [] kind = "mute" -> Mute

Replying(list) == Cardinality({i \in DOMAIN list : list[i] \notin {"noop", "job", "delete"}})
Owing(list) == {list[i] : i \in DOMAIN list} \cap {"job", "mute"}

Frame(kind, rest, plan) ==
  [kind |-> kind, rest |-> rest, try |-> plan.try, after |-> plan.after,
   catch |-> plan.catch, quiet |-> plan.quiet]
Open(list) == Frame("none", list, Plain(<<>>))

-----------------------------------------------------------------------------
Init ==
  /\ socket = TRUE
  /\ stage = "received" /\ route = "none" /\ frames = <<>> /\ mark = "none"
  /\ sent = 0 /\ stored = 0 /\ due = 0 /\ owed = {}
  /\ noticed = FALSE /\ lost = FALSE /\ faults = 0

(* The connection goes, and comes back. *)
Disconnect ==
  /\ socket /\ faults < MaxFaults /\ stage # "done"
  /\ socket' = FALSE /\ faults' = faults + 1
  /\ UNCHANGED <<stage, route, frames, mark, sent, stored, due, owed, noticed, lost>>

Reconnect ==
  /\ ~socket /\ stage # "done"
  /\ socket' = TRUE
  /\ UNCHANGED <<stage, route, frames, mark, sent, stored, due, owed, noticed, lost, faults>>

MayFail == faults < MaxFaults
OneFault == MayFail /\ faults' = faults + 1

(* A reaction is sent or given up, never an exception. *)
Reacting(m) ==
  \/ /\ socket /\ mark' = m
     /\ UNCHANGED <<lost, faults>>
  \/ /\ IF socket THEN OneFault ELSE UNCHANGED faults
     /\ lost' = (lost \/ m # "busy")
     /\ UNCHANGED mark

Execute(list, how) ==
  /\ route' = how /\ frames' = <<Open(list)>>
  /\ due' = Replying(list) /\ owed' = Owing(list)

(* Governance lets the message through or answers it outside the try; the    *)
(* command's reaction comes before the orchestrator, which may throw.        *)
Receive ==
  /\ stage = "received"
  /\ \/ /\ \E list \in Denials : Execute(list, "denial")
        /\ stage' = "running"
        /\ UNCHANGED <<mark, lost, faults>>
     \/ /\ \E list \in Messages : Execute(list, "message")
        /\ stage' = "running"
        /\ UNCHANGED <<mark, lost, faults>>
     \/ /\ \E list \in Commands : Execute(list, "command")
        /\ stage' = "running"
        /\ Reacting("busy")
  /\ UNCHANGED <<socket, sent, stored, noticed>>

OrchestratorThrows ==
  /\ stage = "running" /\ Len(frames) = 1 /\ frames[1].kind = "none" /\ route # "denial"
  /\ OneFault
  /\ frames' = <<>> /\ stage' = "failed" /\ noticed' = TRUE /\ due' = 0 /\ owed' = {}
  /\ UNCHANGED <<socket, route, mark, sent, stored, lost>>

-----------------------------------------------------------------------------
(* The executor. *)
top == frames[Len(frames)]
Remaining(f) == f.try \o f.after
Running == stage = "running" /\ frames # <<>>
Doing(d) == Running /\ Remaining(top) # <<>> /\ Head(Remaining(top)).do = d
ThenGo(f) == [frames EXCEPT ![Len(frames)] = f]
Rest(f) == IF f.try # <<>> THEN [f EXCEPT !.try = Tail(@)] ELSE [f EXCEPT !.after = Tail(@)]

Continue == frames' = ThenGo(Rest(top)) /\ UNCHANGED <<stage, noticed>>

Catches(f) == (f.try # <<>> /\ f.catch # <<>>) \/ f.quiet
Caught(f) ==
  IF f.try # <<>> THEN [f EXCEPT !.try = <<>>, !.after = f.catch, !.catch = <<>>]
  ELSE [f EXCEPT !.after = <<>>]

(* The exception ends every list inside the handler that catches it, or the  *)
(* execution: then the command's catch, for a denial the end of the batch.   *)
Raise ==
  LET catching == {i \in DOMAIN frames : Catches(frames[i])}
      i == CHOOSE x \in catching : \A y \in catching : y <= x
  IN  IF catching = {}
      THEN frames' = <<>> /\ stage' = "failed" /\ noticed' = TRUE
      ELSE /\ frames' = Append(SubSeq(frames, 1, i - 1), Caught(frames[i]))
           /\ noticed' = (noticed \/ frames[i].try # <<>>)
           /\ UNCHANGED stage

TakeAction ==
  /\ Running /\ Remaining(top) = <<>> /\ top.rest # <<>>
  /\ \E plan \in Plans(Head(top.rest)) :
       frames' = ThenGo(Frame(Head(top.rest), Tail(top.rest), plan))
  /\ UNCHANGED <<socket, stage, route, effects, noticed, faults>>

EndOfList ==
  /\ Running /\ Remaining(top) = <<>> /\ top.rest = <<>>
  /\ frames' = SubSeq(frames, 1, Len(frames) - 1)
  /\ stage' = IF Len(frames) = 1 THEN "succeeded" ELSE stage
  /\ UNCHANGED <<socket, route, effects, noticed, faults>>

ReactStep ==
  /\ Doing("react")
  /\ Reacting(Head(Remaining(top)).mark)
  /\ Continue
  /\ UNCHANGED <<socket, route, sent, stored, due, owed>>

(* Quoting the message first and, after an error, without the quotation: an  *)
(* error that arrives although the message went out sends it a second time.  *)
SendStep ==
  /\ Doing("send")
  /\ \/ socket /\ sent' = sent + 1 /\ Continue /\ UNCHANGED faults
     \/ socket /\ OneFault /\ sent' = sent + 2 /\ Continue
     \/ socket /\ OneFault /\ sent' \in {sent, sent + 1} /\ Raise
     \/ ~socket /\ Raise /\ UNCHANGED <<sent, faults>>
  /\ UNCHANGED <<socket, route, mark, stored, due, owed, lost>>

(* The history, the audit trail and the counters are rows and keys elsewhere. *)
PersistStep ==
  /\ Doing("persist")
  /\ \/ stored' = stored + 1 /\ Continue /\ UNCHANGED faults
     \/ OneFault /\ Raise /\ UNCHANGED stored
  /\ UNCHANGED <<socket, route, mark, sent, due, owed, lost>>

RecordStep ==
  /\ Doing("record")
  /\ \/ Continue /\ UNCHANGED faults
     \/ OneFault /\ Raise
  /\ UNCHANGED <<socket, route, effects>>

(* The media may have gone, be unfit, or take too long. *)
MediaStep(d) ==
  /\ Doing(d)
  /\ Continue \/ Raise
  /\ UNCHANGED <<socket, route, effects, faults>>

DownloadStep == MediaStep("download")
ConvertStep == MediaStep("convert")
ProbeStep == MediaStep("probe")
TranscodeStep == MediaStep("transcode")
TranscribeStep == MediaStep("transcribe")

SocketStep ==
  /\ Doing("socket")
  /\ IF socket THEN Continue ELSE Raise
  /\ UNCHANGED <<socket, route, effects, faults>>

OweStep(d) ==
  /\ Doing(d)
  /\ \/ owed' = owed \ {d} /\ Continue /\ UNCHANGED faults
     \/ OneFault /\ Raise /\ UNCHANGED owed
  /\ UNCHANGED <<socket, route, mark, sent, stored, due, lost>>

(* Mutant: a dispatch without an answer is taken for an answered one. *)
Unanswered == Rest(top)
TranscriptFallback == [Rest(top) EXCEPT !.try = SendTextAndPersist \o @]

(* The transcript goes through the orchestrator as a message of its own; its *)
(* list runs inside this one.  Without an answer the transcript is sent.     *)
DispatchStep ==
  /\ Doing("dispatch")
  /\ \/ \E list \in Dispatched[top.kind] :
          IF Replying(list) + Cardinality(Owing(list)) = 0
          THEN /\ frames' = ThenGo(TranscriptFallback)
               /\ UNCHANGED <<due, owed, faults, stage, noticed>>
          ELSE /\ frames' = Append(ThenGo([top EXCEPT !.try = <<Step("await")>> \o Tail(@)]),
                                   Open(list))
               /\ due' = due - 1 + Replying(list)
               /\ owed' = owed \cup Owing(list)
               /\ UNCHANGED <<faults, stage, noticed>>
     \/ OneFault /\ Raise /\ UNCHANGED <<due, owed>>
  /\ UNCHANGED <<socket, route, mark, sent, stored, lost>>

AwaitStep ==
  /\ Doing("await")
  /\ Continue
  /\ UNCHANGED <<socket, route, effects, faults>>

(* The command's closing reaction. *)
Close ==
  /\ stage \in {"succeeded", "failed"}
  /\ IF route = "command" THEN Reacting(IF stage = "succeeded" THEN "ok" ELSE "bad")
     ELSE UNCHANGED <<mark, lost, faults>>
  /\ stage' = "done"
  /\ UNCHANGED <<socket, route, frames, sent, stored, due, owed, noticed>>

Next ==
  \/ Receive \/ OrchestratorThrows \/ TakeAction \/ EndOfList
  \/ ReactStep \/ SendStep \/ PersistStep \/ RecordStep \/ SocketStep
  \/ DownloadStep \/ ConvertStep \/ ProbeStep \/ TranscodeStep \/ TranscribeStep
  \/ OweStep("job") \/ OweStep("mute") \/ DispatchStep \/ AwaitStep
  \/ Close \/ Disconnect \/ Reconnect

Spec == Init /\ [][Next]_vars

-----------------------------------------------------------------------------
(* A handler that has ended leaves no message marked as being processed,     *)
(* whichever branch of the handlers it took and however lists were nested,   *)
(* unless the closing reaction itself could not be sent.                     *)
MarkSettles == stage = "done" /\ mark = "busy" => lost

(* Without a failing call every action that replies has put exactly one      *)
(* message in the chat, through every fallback and dispatch, and every       *)
(* message is in the history.                                                *)
OneReplyEach == stage = "done" /\ faults = 0 => sent = due /\ stored = sent

(* A job or a mute of an executed list that was not done, though its         *)
(* announcement may have been sent, has ended in a catch that tells the      *)
(* sender or closes the command as failed: it is never passed over.          *)
OmissionIsNoticed == stage = "done" /\ owed # {} => noticed

-----------------------------------------------------------------------------
(* The inductive invariants behind these.                                    *)

Media == {"download", "convert", "probe", "transcode", "transcribe"}
Steps ==
  {React(m) : m \in {"busy", "ok", "bad"}} \cup
  {Step(d) : d \in Media \cup {"send", "persist", "record", "job", "mute", "dispatch",
                               "await", "socket"}}
Frames == [kind: Kinds \cup {"none"}, rest: Seq(Kinds), try: Seq(Steps), after: Seq(Steps),
           catch: Seq(Steps), quiet: BOOLEAN]

TypeOK ==
  /\ socket \in BOOLEAN /\ noticed \in BOOLEAN /\ lost \in BOOLEAN
  /\ stage \in {"received", "running", "succeeded", "failed", "done"}
  /\ route \in {"none", "command", "message", "denial"}
  /\ frames \in Seq(Frames)
  /\ mark \in {"none", "busy", "ok", "bad"}
  /\ sent \in Nat /\ stored \in Nat /\ due \in Int /\ faults \in Nat
  /\ owed \subseteq {"job", "mute"}

Does(s) == {s[k].do : k \in DOMAIN s}
Marks(s) == {s[k].mark : k \in DOMAIN s}
Closing == {"ok", "bad"}
Closes(s) == s # <<>> /\ s[1].mark \in Closing

(* Speech is dispatched from a try, never from a catch.                      *)
DispatchIsTried(f) ==
  /\ "dispatch" \notin Does(f.after) \cup Does(f.catch)
  /\ "dispatch" \in Does(f.try) => f.kind \in {"spoken", "translate"}

(* An action that marks the message as being processed does so first, and    *)
(* each way through it and through its catch comes to a closing reaction.    *)
BusyComesFirst(f) ==
  /\ \A k \in DOMAIN f.try : f.try[k].mark = "busy" =>
       /\ k = 1 /\ Len(f.try) > 1 /\ Closes(f.catch)
       /\ Marks(f.try) \cap Closing # {} \/ Closes(f.after)
  /\ \A k \in DOMAIN f.after : f.after[k].mark = "busy" =>
       k = 1 /\ Len(f.after) > 1 /\ f.after[2].mark \in Closing
  /\ "busy" \notin Marks(f.catch)

(* A job or a mute is no part of an action whose failures are only logged.   *)
QuietOwesNothing(f) ==
  f.quiet => (Does(f.after) \cup Does(f.catch)) \cap {"job", "mute"} = {}

(* While media may still fail, nothing has been sent, and the catch sends as *)
(* much as the way it replaces; a dispatch stands for a reply.               *)
Count(s, d) == Cardinality({k \in DOMAIN s : s[k].do \in {d, "dispatch"}})
Replies == {"send", "persist"}
MediaComeFirst(s) ==
  \A j, k \in DOMAIN s : j < k /\ s[k].do \in Media => s[j].do \notin Replies \cup {"dispatch"}
FallbackReplies(f) ==
  /\ (Does(f.after) \cup Does(f.catch)) \cap Media = {}
  /\ MediaComeFirst(f.try)
  /\ Does(f.try) \cap Media # {} =>
       /\ f.catch # <<>>
       /\ \A d \in Replies : Count(f.catch, d) = Count(f.try, d) + Count(f.after, d)

Sound(f) ==
  /\ f \in Frames
  /\ f.kind = "none" => f.try = <<>> /\ f.after = <<>> /\ ~f.quiet
  /\ DispatchIsTried(f) /\ BusyComesFirst(f) /\ QuietOwesNothing(f) /\ FallbackReplies(f)

(* A list that waits for an inner one has its catch ahead.                   *)
FramesAreSound ==
  /\ \A i \in DOMAIN frames : Sound(frames[i])
  /\ \A i \in 1..Len(frames) - 1 : frames[i].try # <<>> /\ Head(frames[i].try).do = "await"
  /\ frames = <<>> <=> stage # "running"

(* A message marked as being processed is in the hands of an action that     *)
(* still has its closing reaction before it, or of the command's own.        *)
WillClose(f) ==
  IF f.try = <<>> THEN Closes(f.after)
  ELSE Closes(f.try) \/ (Closes(f.catch) /\ (Marks(f.try) \cap Closing # {} \/ Closes(f.after)))
MarkIsMinded ==
  mark = "busy" /\ ~lost =>
    /\ stage # "done"
    /\ route = "command" \/ \E i \in DOMAIN frames : WillClose(frames[i])

(* Before a message is received nothing has been done about it.              *)
NothingYet == stage = "received" => mark = "none" /\ sent = 0 /\ stored = 0

(* What is owed and not yet noticed as failed is still ahead.                *)
Ahead(f, d) ==
  d \in {f.rest[k] : k \in DOMAIN f.rest} \cup Does(f.try) \cup Does(f.after)
OwedIsAhead ==
  ~noticed => \A d \in owed : \E i \in DOMAIN frames : Ahead(frames[i], d)

(* Without a failing call every message still due is ahead: as a step of a   *)
(* list, as a dispatch that stands for one, or as an action not yet taken.   *)
(* The running total p adds up what is left from list to list.               *)
Left(f, d) == Count(f.try, d) + Count(f.after, d) + Replying(f.rest)
Owes(fs, d, n) ==
  \E p \in [0..Len(fs) -> 0..n] :
    /\ p[0] = 0 /\ p[Len(fs)] = n
    /\ \A i \in 1..Len(fs) : p[i] = p[i - 1] + Left(fs[i], d)
    /\ \A i, j \in 0..Len(fs) : i <= j => p[i] <= p[j]
Outstanding(d) == due - (IF d = "send" THEN sent ELSE stored)
Balanced ==
  faults = 0 =>
    /\ socket /\ stage # "failed"
    /\ \A d \in Replies : Owes(frames, d, Outstanding(d))

=============================================================================
