------------------------------ MODULE GroupAdmin ------------------------------
(***************************************************************************)
(* What the gateway knows of one group: whether WhatsApp lets the bot      *)
(* administer it, its name and whether members may write.                  *)
(*                                                                         *)
(* bot-admin-status.ts answers from a cache, from an operation only an     *)
(* administrator may do or from the group's metadata; every handler writes *)
(* what it was told to the group's row (groups/repository.ts), the         *)
(* commands of /set gp and the moderation also what an operation showed.   *)
(* Handlers of messages and of group-participants.update interleave at     *)
(* their awaits.  A command may be typed or spoken: speech is handled as a  *)
(* message without text, transcribed, and the transcript handled again with *)
(* what the first handling knew of the bot.                                 *)
(***************************************************************************)
EXTENDS Naturals

CONSTANTS
  Handlers,    \* calls that may be under way at once
  Kinds,       \* what they may handle, see below
  Spoken,      \* which of the messages may come as speech
  Names,       \* names of the group; commands choose any of them
  MaxChanges,  \* times an administrator promotes or demotes the bot
  MaxFaults    \* failing calls and lost connections

ASSUME GroupAdminAssumption == MaxChanges \in Nat /\ MaxFaults \in Nat /\ Names # {}

(* A message, the commands /set gp open, close and name, a removal (/ban and *)
(* /kick); the bot promoted, demoted or added; it and others added; others.  *)
Commands == {"open", "close", "name", "remove"}
MessageKinds == {"talk"} \cup Commands
Voices == {"none", "audio", "transcript"}  \* typed, spoken and not yet or now text
EventKinds == {"bot", "bot_and_members", "members"}
ASSUME KindsAssumption ==
  Kinds \subseteq MessageKinds \cup EventKinds /\ Spoken \subseteq MessageKinds

VARIABLES
  isAdmin,   \* whether the bot administers the group
  subject,   \* name, and whether members may write, at WhatsApp
  group,     \* the row of the group; whether its flag was checked within ten minutes
  cache,     \* groupAdminCache; denied is history: its no is an operation's
  socket,
  handler,   \* of each call: what it handles, where it is, what it has read; history:
             \* the bot has administered the group since the command came (held), and yet
             \* its check failed (doubted) or was spared by a cached answer (overheard)
  changes, faults

vars == <<isAdmin, subject, group, cache, socket, handler, changes, faults>>

Answers == {"yes", "no", "unknown"}
Answer(b) == IF b THEN "yes" ELSE "no"
Sources == {"none", "fallback", "live", "operation"}

Idle ==
  [kind |-> "none", pc |-> "idle", name |-> CHOOSE n \in Names : TRUE, admin |-> FALSE,
   force |-> FALSE, probe |-> "none", status |-> "unknown", source |-> "none",
   text |-> CHOOSE n \in Names : TRUE, identity |-> CHOOSE n \in Names : TRUE,
   voice |-> "none", result |-> "none", held |-> FALSE, doubted |-> FALSE, overheard |-> FALSE]

Pcs == {"idle", "ensure", "probe", "metadata", "persist", "join", "core", "access",
        "refused", "operate", "settings", "infer"}
Calls ==
  [kind : Kinds \cup {"none"}, pc : Pcs, name : Names, admin : BOOLEAN, force : BOOLEAN,
   probe : Answers \cup {"none"}, status : Answers, source : Sources, text : Names,
   identity : Names, voice : Voices, result : Answers \cup {"none"},
   held : BOOLEAN, doubted : BOOLEAN, overheard : BOOLEAN]
Entries == [admin : Answers, source : Sources, fresh : BOOLEAN, denied : BOOLEAN]

TypeOK ==
  /\ isAdmin \in BOOLEAN /\ socket \in BOOLEAN
  /\ subject \in [name : Names, open : BOOLEAN]
  /\ group \in [name : Names, open : BOOLEAN, admin : BOOLEAN, checked : BOOLEAN]
  /\ cache \in Entries
  /\ handler \in [Handlers -> Calls]
  /\ changes \in 0..MaxChanges /\ faults \in 0..MaxFaults

Init ==
  /\ isAdmin \in BOOLEAN /\ socket = TRUE
  /\ subject = [name |-> Idle.name, open |-> TRUE]
  /\ group = [name |-> Idle.name, open |-> TRUE, admin |-> FALSE, checked |-> FALSE]
  /\ cache = [admin |-> "unknown", source |-> "none", fresh |-> FALSE, denied |-> FALSE]
  /\ handler = [h \in Handlers |-> Idle]
  /\ changes = 0 /\ faults = 0

-----------------------------------------------------------------------------
(* The group, the connection and the clock. *)
Promote ==
  /\ ~isAdmin /\ changes < MaxChanges
  /\ isAdmin' = TRUE /\ changes' = changes + 1
  /\ UNCHANGED <<subject, group, cache, socket, handler, faults>>

Demote ==
  /\ isAdmin /\ changes < MaxChanges
  /\ isAdmin' = FALSE /\ changes' = changes + 1
  /\ handler' = [h \in Handlers |->
       [handler[h] EXCEPT !.held = FALSE, !.doubted = FALSE, !.overheard = FALSE]]
  /\ UNCHANGED <<subject, group, cache, socket, faults>>

Disconnect ==
  /\ socket /\ faults < MaxFaults
  /\ socket' = FALSE /\ faults' = faults + 1
  /\ UNCHANGED <<isAdmin, subject, group, cache, handler, changes>>

Reconnect ==
  /\ ~socket /\ socket' = TRUE
  /\ UNCHANGED <<isAdmin, subject, group, cache, handler, changes, faults>>

(* Three minutes after an answer, ten after an operation; ten for the row.   *)
CacheExpires ==
  /\ cache.fresh
  /\ cache' = [cache EXCEPT !.fresh = FALSE]
  /\ UNCHANGED <<isAdmin, subject, group, socket, handler, changes, faults>>

CheckAges ==
  /\ group.checked
  /\ group' = [group EXCEPT !.checked = FALSE]
  /\ UNCHANGED <<isAdmin, subject, cache, socket, handler, changes, faults>>

-----------------------------------------------------------------------------
(* The calls. *)
At(h, pc) == handler[h].pc = pc
Go(h, pc) == handler' = [handler EXCEPT ![h].pc = pc]
End(h) == handler' = [handler EXCEPT ![h] = Idle]
OneFault == faults < MaxFaults /\ faults' = faults + 1

(* The repository's getGroupAccess: the name it is given, if the row has     *)
(* another, and the flag with the time of the check.                         *)
GetGroupAccess(name, admin) ==
  group' = [group EXCEPT !.name = name, !.admin = admin, !.checked = TRUE]

(* Mutant: only the age of the last check asks for a new one. *)
ForceIfOld(kind, voice) == kind \in {"bot", "bot_and_members"} \/ ~group.checked

(* A command is known by the text of the message; speech has none.           *)
ForceCheck(kind, voice) ==
  \/ kind \in {"bot", "bot_and_members"}
  \/ kind \in Commands /\ voice = "none"
  \/ ~group.checked
  \/ ~group.admin

(* The row is read once, here.  Members who join need no look at the bot.    *)
Arrive(h, kind) ==
  /\ At(h, "idle")
  /\ \E text \in IF kind = "name" THEN Names ELSE {Idle.text},
        voice \in IF kind \in Spoken THEN {"none", "audio"} ELSE {"none"} :
       handler' = [handler EXCEPT ![h] =
         [Idle EXCEPT !.kind = kind, !.pc = IF kind = "members" THEN "join" ELSE "ensure",
                      !.name = group.name, !.admin = group.admin, !.text = text,
                      !.voice = voice,
                      !.force = kind # "members" /\ ForceCheck(kind, voice),
                      !.held = isAdmin /\ kind \in Commands]]
  /\ UNCHANGED <<isAdmin, subject, group, cache, socket, changes, faults>>

(* ensureBotAdminStatus: the cached answer; no socket; or WhatsApp is asked, *)
(* by an operation first where the answer must be sure.  What the row said   *)
(* is still of use where the answer is none, and to Join.                    *)
Told(h, status, source, overheard) ==
  handler' = [handler EXCEPT
    ![h].pc = "persist", ![h].probe = "none", ![h].status = status, ![h].source = source,
    ![h].force = FALSE, ![h].overheard = overheard /\ handler[h].held,
    ![h].admin = IF status = "unknown" \/ handler[h].kind = "bot_and_members" THEN @ ELSE FALSE]

CacheHit(h) ==
  /\ At(h, "ensure") /\ ~handler[h].force /\ cache.source # "none" /\ cache.fresh
  /\ Told(h, cache.admin, cache.source, cache.denied)
  /\ UNCHANGED <<isAdmin, subject, group, cache, socket, changes, faults>>

Asking(h) == At(h, "ensure") /\ (handler[h].force \/ cache.source = "none" \/ ~cache.fresh)

NoSocket(h) ==
  /\ Asking(h) /\ ~socket
  /\ cache' = [admin |-> cache.admin, source |-> "fallback", fresh |-> TRUE, denied |-> FALSE]
  /\ Told(h, cache.admin, "fallback", FALSE)
  /\ UNCHANGED <<isAdmin, subject, group, socket, changes, faults>>

(* The cached answer is read before the calls and kept for their failure.    *)
StartCheck(h) ==
  /\ Asking(h) /\ socket
  /\ LET surely == \/ handler[h].force \/ cache.source \in {"none", "fallback"}
                   \/ cache.admin = "no"
     IN  handler' = [handler EXCEPT ![h].pc = IF surely THEN "probe" ELSE "metadata",
                                    ![h].force = FALSE, ![h].status = cache.admin,
                                    ![h].source = IF surely THEN "none" ELSE cache.source]
  /\ UNCHANGED <<isAdmin, subject, group, cache, socket, changes, faults>>

(* attemptGroupAdminAction: done, refused, or failed for another reason.     *)
Failing == IF socket THEN OneFault ELSE UNCHANGED faults

Probe(h) ==
  /\ At(h, "probe")
  /\ \/ /\ socket /\ UNCHANGED faults
        /\ handler' = [handler EXCEPT ![h].pc = "metadata", ![h].probe = Answer(isAdmin),
                                      ![h].status = "unknown"]
     \/ /\ Failing
        /\ handler' = [handler EXCEPT ![h].pc = "metadata", ![h].probe = "unknown",
                                      ![h].doubted = handler[h].held]
  /\ UNCHANGED <<isAdmin, subject, group, cache, socket, changes>>

(* The metadata fetched, or not, or without the bot.  The operation's answer *)
(* goes before it; an operation that failed keeps the cached answer.         *)
Status(h, shown) ==
  CASE handler[h].probe \in {"yes", "no"} -> handler[h].probe
    [] handler[h].probe = "none" /\ shown -> Answer(isAdmin)
    [] OTHER -> handler[h].status

(* Mutant: the cached answer is trusted more than the metadata. *)
CachedFirst(h, shown) ==
  [admin |-> IF handler[h].status = "unknown" THEN Status(h, shown) ELSE handler[h].status,
   source |-> IF handler[h].probe # "none" THEN "operation" ELSE handler[h].source,
   fresh |-> TRUE, denied |-> FALSE]
NewStatus(h, shown) ==
  [admin |-> Status(h, shown), fresh |-> TRUE,
   denied |-> handler[h].probe \in {"no", "unknown"} /\ Status(h, shown) = "no",
   source |-> CASE handler[h].probe # "none" -> "operation"
                [] shown -> "live"
                [] OTHER -> handler[h].source]

Metadata(h) ==
  /\ At(h, "metadata")
  /\ \E shown \in BOOLEAN :
       /\ IF shown THEN socket /\ UNCHANGED faults ELSE Failing
       /\ cache' = NewStatus(h, shown)
  /\ Told(h, cache'.admin, cache'.source, FALSE)
  /\ UNCHANGED <<isAdmin, subject, group, socket, changes>>

(* refreshBotAdminState writes a sure answer, also a cached one.  The event   *)
(* gets the flag of the row where the check gave none.                       *)
EventAdmin(h) ==
  IF handler[h].status = "unknown" THEN handler[h].admin ELSE handler[h].status = "yes"

Persist(h) ==
  /\ At(h, "persist")
  /\ IF handler[h].source \in {"live", "operation"} /\ handler[h].status # "unknown"
     THEN GetGroupAccess(handler[h].name, handler[h].status = "yes")
     ELSE UNCHANGED group
  /\ CASE handler[h].kind = "bot" -> End(h)
       [] handler[h].kind = "bot_and_members" ->
            handler' = [handler EXCEPT ![h].pc = "join", ![h].status = "unknown",
                                       ![h].source = "none"]
       [] OTHER ->
            handler' = [handler EXCEPT ![h].pc = "core", ![h].admin = EventAdmin(h),
                                       ![h].status = "unknown",
                                       ![h].source = IF @ = "operation" THEN @ ELSE "none"]
  /\ UNCHANGED <<isAdmin, subject, cache, socket, changes, faults>>

(* The welcome is made from the row, which gets name and flag as first read. *)
Join(h) ==
  /\ At(h, "join")
  /\ GetGroupAccess(handler[h].name, handler[h].admin)
  /\ End(h)
  /\ UNCHANGED <<isAdmin, subject, cache, socket, changes, faults>>

(* Governance may answer the message instead of the orchestrator; it is not  *)
(* asked again about a transcript.                                           *)
Blocked(h) ==
  /\ At(h, "core") /\ handler[h].voice # "transcript"
  /\ End(h)
  /\ UNCHANGED <<isAdmin, subject, group, cache, socket, changes, faults>>

ReadIdentity(h) ==
  /\ At(h, "core")
  /\ handler' = [handler EXCEPT ![h].pc = "access", ![h].identity = group.name]
  /\ UNCHANGED <<isAdmin, subject, group, cache, socket, changes, faults>>

(* dispatchTranscribedText: the transcript is another message to the         *)
(* orchestrator, with the flag of the event and the source of that.          *)
Dispatch(h) == handler' = [handler EXCEPT ![h].pc = "core", ![h].voice = "transcript"]

(* The orchestrator's getGroupAccess, with the flag of the event; then the   *)
(* command's own guards, of the sender and of the bot.                       *)
Denied(h) == handler[h].source = "operation" /\ ~handler[h].admin

Guard(h) ==
  handler' = [handler EXCEPT ![h] =
    IF Denied(h)
      THEN [@ EXCEPT !.pc = "refused", !.source = "none"]
      ELSE [Idle EXCEPT !.kind = handler[h].kind, !.pc = "operate", !.name = handler[h].name,
                        !.text = handler[h].text]]

Access(h) ==
  /\ At(h, "access")
  /\ GetGroupAccess(handler[h].identity, handler[h].admin)
  /\ \/ End(h)
     \/ handler[h].voice = "audio" /\ Dispatch(h)
     \/ handler[h].kind \in Commands /\ handler[h].voice # "audio" /\ Guard(h)
  /\ UNCHANGED <<isAdmin, subject, cache, socket, changes, faults>>

(* The operation at WhatsApp; its answer may be lost though it was done.     *)
Done(h) ==
  subject' = CASE handler[h].kind = "open"  -> [subject EXCEPT !.open = TRUE]
               [] handler[h].kind = "close" -> [subject EXCEPT !.open = FALSE]
               [] handler[h].kind = "name"  -> [subject EXCEPT !.name = handler[h].text]
               [] OTHER -> subject

Operate(h) ==
  /\ At(h, "operate")
  /\ \/ /\ socket /\ isAdmin /\ Done(h) /\ UNCHANGED faults
        /\ handler' = [handler EXCEPT
             ![h].pc = IF handler[h].kind = "remove" THEN "infer" ELSE "settings",
             ![h].result = "yes"]
     \/ /\ socket /\ ~isAdmin /\ UNCHANGED <<subject, faults>>
        /\ handler' = [handler EXCEPT ![h].pc = "infer", ![h].result = "no"]
     \/ /\ Failing /\ End(h)
        /\ IF socket /\ isAdmin THEN Done(h) \/ UNCHANGED subject ELSE UNCHANGED subject
  /\ UNCHANGED <<isAdmin, group, cache, socket, changes>>

UpdateSettings(h) ==
  /\ At(h, "settings")
  /\ group' = CASE handler[h].kind = "name" -> [group EXCEPT !.name = handler[h].text]
                [] OTHER -> [group EXCEPT !.open = handler[h].kind = "open"]
  /\ Go(h, "infer")
  /\ UNCHANGED <<isAdmin, subject, cache, socket, changes, faults>>

(* What the operation showed goes to the row, with the name first read, and  *)
(* not to the cache; then the sender is told.                                *)
Infer(h) ==
  /\ At(h, "infer")
  /\ GetGroupAccess(handler[h].name, handler[h].result = "yes")
  /\ End(h)
  /\ UNCHANGED <<isAdmin, subject, cache, socket, changes, faults>>

Refuse(h) ==
  /\ At(h, "refused")
  /\ End(h)
  /\ UNCHANGED <<isAdmin, subject, group, cache, socket, changes, faults>>

(* A failing write or read of the row ends the call.                         *)
Fail(h) ==
  /\ \E pc \in {"persist", "join", "core", "access", "settings", "infer"} : At(h, pc)
  /\ OneFault
  /\ End(h)
  /\ UNCHANGED <<isAdmin, subject, group, cache, socket, changes>>

Step(h) ==
  \/ CacheHit(h) \/ NoSocket(h) \/ StartCheck(h) \/ Probe(h) \/ Metadata(h)
  \/ Persist(h) \/ Join(h) \/ Blocked(h) \/ ReadIdentity(h) \/ Access(h)
  \/ Operate(h) \/ UpdateSettings(h) \/ Infer(h) \/ Refuse(h) \/ Fail(h)

Next ==
  \/ \E h \in Handlers : Step(h) \/ \E kind \in Kinds : Arrive(h, kind)
  \/ Promote \/ Demote \/ Disconnect \/ Reconnect \/ CacheExpires \/ CheckAges

(* Calls go on, the socket comes back, time passes; nobody has to write.     *)
Fairness ==
  /\ \A h \in Handlers : WF_vars(Step(h))
  /\ WF_vars(Reconnect) /\ WF_vars(CacheExpires)

Spec == Init /\ [][Next]_vars /\ Fairness

-----------------------------------------------------------------------------
(* A command is refused for want of the group's administration only if the   *)
(* bot was without it at some moment since the message came, or its own      *)
(* check got no definite answer: never by what another call cached, stored   *)
(* or was told.  A spoken command makes no check of its own while the row    *)
(* says that the bot is an administrator; it is also refused on what the     *)
(* cache keeps of an operation of another call, provided that WhatsApp       *)
(* refused this operation or it failed: never on metadata, nor on the row.   *)
RefusedWithCause ==
  \A h \in Handlers : At(h, "refused") =>
    \/ ~handler[h].held
    \/ handler[h].doubted
    \/ handler[h].voice = "transcript" /\ handler[h].overheard

(* Once nobody promotes or demotes the bot any more and calls stop failing,  *)
(* the row comes to say what is the case, and stays so, if members go on     *)
(* writing: whatever was cached, in flight or written late.  Members who     *)
(* join bring back the flag as it was read before (Join).                    *)
Heard == \E h \in Handlers : At(h, "ensure") /\ handler[h].kind \in MessageKinds
Unstirred == \A h \in Handlers : handler[h].kind \notin EventKinds
FlagSettles == []<>Heard /\ <>[]Unstirred => <>[](group.admin = isAdmin)

(* A rename that is confirmed is what /groupinfo shows next.                 *)
RenameIsKept ==
  [][\A h \in Handlers :
       Infer(h) /\ handler[h].kind = "name" /\ handler[h].result = "yes" =>
         group'.name = handler[h].text]_vars
=============================================================================
