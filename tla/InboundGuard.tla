----------------------------- MODULE InboundGuard -----------------------------
(***************************************************************************)
(* createMessagesUpsertHandler: what wa-gateway does with the messages     *)
(* WhatsApp hands it, and the three guards against replays.                *)
(*                                                                         *)
(*   claim --> guard --> prepare --> respond --> next message of the batch *)
(*     |         |          |           |                                  *)
(*  duplicate  refused   throws: the   throws: logged                      *)
(*                       rest is lost                                      *)
(*                                                                         *)
(* WhatsApp delivers batches, again and again and to several calls at once *)
(* (a call awaits between its steps).  The claim is a Redis key with a     *)
(* lifetime that outlives the process; the start-up watermark and the age  *)
(* guard go by the stamp the sender's phone put on the message.            *)
(*                                                                         *)
(* Left out: messages that carry no text or media, come from the bot or    *)
(* from a group the bot is not meant for are skipped before the claim;     *)
(* messages without an id are given one.  Nothing in the repository says   *)
(* what becomes of a batch dropped unread.                                 *)
(***************************************************************************)
EXTENDS Integers, Sequences

CONSTANTS
  Messages,    \* messages, by chat and id
  Unstamped,   \* those whose stamp is missing or unreadable
  Runs,        \* calls of the handler
  ClaimTtl,    \* INBOUND_MESSAGE_CLAIM_TTL_SECONDS
  MaxAge,      \* INBOUND_MAX_MESSAGE_AGE_SECONDS, 0 for any age
  Tolerance,   \* INBOUND_STARTUP_WATERMARK_TOLERANCE_SECONDS
  Grace,       \* INBOUND_MISSING_TIMESTAMP_STARTUP_GRACE_SECONDS
  Skew,        \* how far phones' clocks are from the gateway's
  MaxBatch,    \* bound on the messages of a batch
  MaxTime,     \* bound on time
  MaxFaults    \* bound on faults

ASSUME MessagesAssumption == Unstamped \subseteq Messages

ASSUME TimesAssumption ==
  /\ ClaimTtl \in Nat \ {0}
  /\ MaxAge \in Nat /\ Tolerance \in Nat /\ Grace \in Nat /\ Skew \in Nat

ASSUME BoundsAssumption == MaxBatch \in Nat /\ MaxTime \in Nat /\ MaxFaults \in Nat

VARIABLES
  now,
  startedAt,   \* when the process started: startupWatermarkMs
  sent,        \* messages that exist
  stamp,       \* their stamps
  claimUntil,  \* when the claim on a message lapses, 0 if there was none
  batch,       \* what a call has still to do; its head is in progress
  stage,       \* where a call is with the head
  taken,       \* messages of the batches that calls have gone into
  unread,      \* messages that came only in batches dropped unread
  admitted,    \* how often a message got past the guards
  refused,     \* messages turned away by the watermark or for their age
  settled,     \* messages answered, or failed and logged
  lost,        \* messages a fault has taken out of a call
  faults

runVars == <<batch, stage>>
fateVars == <<taken, unread, admitted, refused, settled, lost>>
clockVars == <<now, startedAt>>
vars == <<clockVars, sent, stamp, claimUntil, runVars, fateVars, faults>>

Stage == {"idle", "claim", "guard", "prepare", "deny", "respond"}

Elements(s) == {s[i] : i \in 1 .. Len(s)}

Batches == {b \in UNION {[1 .. n -> Messages] : n \in 1 .. MaxBatch} :
              \A i, j \in DOMAIN b : b[i] = b[j] => i = j}

TypeOK ==
  /\ now \in 0 .. MaxTime
  /\ startedAt \in 0 .. MaxTime
  /\ sent \subseteq Messages
  /\ stamp \in [Messages -> Int]
  /\ claimUntil \in [Messages -> Nat]
  /\ batch \in [Runs -> Seq(Messages)]
  /\ stage \in [Runs -> Stage]
  /\ taken \subseteq Messages
  /\ unread \subseteq Messages
  /\ admitted \in [Messages -> Nat]
  /\ refused \subseteq Messages
  /\ settled \subseteq Messages
  /\ lost \subseteq Messages
  /\ faults \in 0 .. MaxFaults

Init ==
  /\ now = 0
  /\ startedAt = 0
  /\ sent = {}
  /\ stamp = [m \in Messages |-> 0]
  /\ claimUntil = [m \in Messages |-> 0]
  /\ batch = [r \in Runs |-> <<>>]
  /\ stage = [r \in Runs |-> "idle"]
  /\ taken = {}
  /\ unread = {}
  /\ admitted = [m \in Messages |-> 0]
  /\ refused = {}
  /\ settled = {}
  /\ lost = {}
  /\ faults = 0

Fault ==
  /\ faults < MaxFaults
  /\ faults' = faults + 1

\* The message a call is busy with.
Current(r) == Head(batch[r])

\* The loop goes on with the next message of the batch.
Continue(r) ==
  /\ batch' = [batch EXCEPT ![r] = Tail(@)]
  /\ stage' = [stage EXCEPT ![r] = IF Tail(batch[r]) = <<>> THEN "idle" ELSE "claim"]

GoTo(r, s) == stage' = [stage EXCEPT ![r] = s] /\ UNCHANGED batch

\* The call rejects: what is left of the batch is not looked at.
Abort(r) ==
  /\ batch' = [batch EXCEPT ![r] = <<>>]
  /\ stage' = [stage EXCEPT ![r] = "idle"]
  /\ lost' = lost \cup Elements(batch[r])

-----------------------------------------------------------------------------
(***************************************************************************)
(* The phones, WhatsApp, time and the process.                             *)
(***************************************************************************)

Tick ==
  /\ now < MaxTime
  /\ now' = now + 1
  /\ UNCHANGED <<startedAt, sent, stamp, claimUntil, runVars, fateVars, faults>>

SendMessage(m) ==
  /\ m \notin sent
  /\ sent' = sent \cup {m}
  /\ IF m \in Unstamped
       THEN UNCHANGED stamp
       ELSE \E d \in -Skew .. Skew : stamp' = [stamp EXCEPT ![m] = now + d]
  /\ UNCHANGED <<clockVars, claimUntil, runVars, fateVars, faults>>

\* WhatsApp says of a batch that it is new ("notify") or history ("append").
Kinds == {"notify", "append"}

\* A batch may hold messages that were delivered before.  One that is not new,
\* or comes while the gateway exposes no socket, is dropped whole and silently.
Deliver(r) ==
  /\ stage[r] = "idle"
  /\ \E b \in Batches, kind \in Kinds, socket \in BOOLEAN :
       /\ Elements(b) \subseteq sent
       /\ IF kind = "notify" /\ socket
            THEN /\ batch' = [batch EXCEPT ![r] = b]
                 /\ stage' = [stage EXCEPT ![r] = "claim"]
                 /\ taken' = taken \cup Elements(b)
                 /\ unread' = unread \ Elements(b)
            ELSE /\ unread' = unread \cup (Elements(b) \ taken)
                 /\ UNCHANGED <<runVars, taken>>
  /\ UNCHANGED <<clockVars, sent, stamp, claimUntil, admitted, refused, settled, lost, faults>>

\* Variant: the watermark lies where the tolerance ends.
RestartAhead ==
  /\ Fault
  /\ startedAt' = now + Tolerance
  /\ batch' = [r \in Runs |-> <<>>]
  /\ stage' = [r \in Runs |-> "idle"]
  /\ lost' = lost \cup UNION {Elements(batch[r]) : r \in Runs}
  /\ UNCHANGED <<now, sent, stamp, claimUntil, taken, unread, admitted, refused, settled>>

\* The process ends, whatever its calls are doing, and starts again.
Restart ==
  /\ Fault
  /\ startedAt' = now
  /\ batch' = [r \in Runs |-> <<>>]
  /\ stage' = [r \in Runs |-> "idle"]
  /\ lost' = lost \cup UNION {Elements(batch[r]) : r \in Runs}
  /\ UNCHANGED <<now, sent, stamp, claimUntil, taken, unread, admitted, refused, settled>>

-----------------------------------------------------------------------------
(***************************************************************************)
(* claimInboundMessage: SET key 1 EX ttl NX.                               *)
(***************************************************************************)

Claimed(m) == now < claimUntil[m]

Claim(r) ==
  LET m == Current(r) IN
  /\ stage[r] = "claim"
  /\ IF Claimed(m)
       THEN Continue(r) /\ UNCHANGED claimUntil
       ELSE GoTo(r, "guard") /\ claimUntil' = [claimUntil EXCEPT ![m] = now + ClaimTtl]
  /\ UNCHANGED <<clockVars, sent, stamp, fateVars, faults>>

\* The connection drops after the command: the client sends it again, meets
\* its own key, and the message passes for a duplicate.
ClaimResent(r) ==
  LET m == Current(r) IN
  /\ stage[r] = "claim"
  /\ ~Claimed(m)
  /\ Fault
  /\ claimUntil' = [claimUntil EXCEPT ![m] = now + ClaimTtl]
  /\ Continue(r)
  /\ lost' = lost \cup {m}
  /\ UNCHANGED <<clockVars, sent, stamp, taken, unread, admitted, refused, settled>>

\* Redis answers with an error.
ClaimThrows(r) ==
  /\ stage[r] = "claim"
  /\ Fault
  /\ Abort(r)
  /\ UNCHANGED <<clockVars, sent, stamp, claimUntil, taken, unread, admitted, refused, settled>>

-----------------------------------------------------------------------------
(***************************************************************************)
(* The guards and the rest of the handler.                                 *)
(***************************************************************************)

BeforeStart(m) == stamp[m] < startedAt - Tolerance

\* Variant: the age a message had when the process started.
StaleAtStart(m) == MaxAge > 0 /\ startedAt - stamp[m] > MaxAge

\* Variant: the age counts only until the grace period is over.
StaleInGrace(m) == now - startedAt <= Grace /\ MaxAge > 0 /\ now - stamp[m] > MaxAge

Stale(m) == MaxAge > 0 /\ now - stamp[m] > MaxAge

Refused(m) ==
  IF m \in Unstamped THEN now - startedAt <= Grace
                     ELSE BeforeStart(m) \/ Stale(m)

\* Variant: the handler returns instead of going on with the next message.
GuardReturns(r) ==
  LET m == Current(r) IN
  /\ stage[r] = "guard"
  /\ IF Refused(m)
       THEN /\ batch' = [batch EXCEPT ![r] = <<>>]
            /\ stage' = [stage EXCEPT ![r] = "idle"]
            /\ refused' = refused \cup {m}
            /\ UNCHANGED admitted
       ELSE /\ GoTo(r, "prepare")
            /\ admitted' = [admitted EXCEPT ![m] = @ + 1]
            /\ UNCHANGED refused
  /\ UNCHANGED <<clockVars, sent, stamp, claimUntil, taken, unread, settled, lost, faults>>

Guard(r) ==
  LET m == Current(r) IN
  /\ stage[r] = "guard"
  /\ IF Refused(m)
       THEN Continue(r) /\ refused' = refused \cup {m} /\ UNCHANGED admitted
       ELSE /\ GoTo(r, "prepare")
            /\ admitted' = [admitted EXCEPT ![m] = @ + 1]
            /\ UNCHANGED refused
  /\ UNCHANGED <<clockVars, sent, stamp, claimUntil, taken, unread, settled, lost, faults>>

\* Tenant, group, governance and the inbound row: the assistant may respond or
\* governance makes it decline.
Prepare(r) ==
  /\ stage[r] = "prepare"
  /\ \E s \in {"respond", "deny"} : GoTo(r, s)
  /\ UNCHANGED <<clockVars, sent, stamp, claimUntil, fateVars, faults>>

\* Neither this nor the declining reply is inside the handler's try.
HandlerThrows(r) ==
  /\ stage[r] \in {"prepare", "deny"}
  /\ Fault
  /\ Abort(r)
  /\ UNCHANGED <<clockVars, sent, stamp, claimUntil, taken, unread, admitted, refused, settled>>

\* The reply is sent, or the failure to do so logged.
Respond(r) ==
  /\ stage[r] \in {"deny", "respond"}
  /\ settled' = settled \cup {Current(r)}
  /\ Continue(r)
  /\ UNCHANGED <<clockVars, sent, stamp, claimUntil, taken, unread, admitted, refused, lost, faults>>

Call(r) ==
  \/ Deliver(r)
  \/ Claim(r) \/ ClaimResent(r) \/ ClaimThrows(r)
  \/ Guard(r)
  \/ Prepare(r) \/ HandlerThrows(r)
  \/ Respond(r)

Next ==
  \/ Tick
  \/ Restart
  \/ \E m \in Messages : SendMessage(m)
  \/ \E r \in Runs : Call(r)

Spec == Init /\ [][Next]_vars

-----------------------------------------------------------------------------
(***************************************************************************)
(* Properties.                                                             *)
(***************************************************************************)

\* The claim outlives the age at which a message is turned away.  So it does
\* with the defaults: 172800 s and 30 s.
ClaimOutlivesAge == 0 < MaxAge /\ MaxAge + Skew < ClaimTtl

\* However often, to however many calls at once and across however many
\* restarts a message is delivered, the assistant gets it at most once: when
\* its claim has lapsed it is too old.
HandledOnce == \A m \in Messages \ Unstamped : admitted[m] <= 1

\* A message of a batch the handler went into is refused, settled or still in
\* some call, unless a fault hit a call that had it.  In particular a message
\* skipped as a duplicate has had, or still has, its turn elsewhere.  Of the
\* others, which the handler dropped unread, none is claimed: should WhatsApp
\* deliver it again it does not pass for a duplicate.
TakenIsAccounted ==
  /\ \A m \in taken :
       m \in refused \cup settled \cup lost \cup UNION {Elements(batch[r]) : r \in Runs}
  /\ \A m \in unread : claimUntil[m] = 0

\* A backlog message once turned away is never let in later, by a redelivery,
\* a lapsed claim or a restart.
RefusedForGood ==
  [][\A m \in refused \ Unstamped : admitted'[m] = admitted[m]]_vars
=============================================================================
