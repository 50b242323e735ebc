# Zappy Assistant: verification project

TLA+ models of the parts of Zappy Assistant in which several processes, awaits
or retries meet, TLC runs on small instances of them, and TLAPS proofs of what
matters most for instances of any size. Paths below are relative to the
repository.

## 1. The system

A pnpm monorepo: five processes (`apps/`) over shared packages (`packages/`),
Postgres through Prisma, Redis, and a BullMQ queue in Redis.

| Component | State it keeps | Operations | Talks to |
|---|---|---|---|
| **wa-gateway, connector** (`apps/wa-gateway/src/bootstrap/connect-whatsapp.ts`) | generation of the current attempt, the reconnect timer, the socket, the heartbeat key | `connect`, `connection.update`, timer, ten-second heartbeat | WhatsApp, Redis |
| **wa-gateway, inbound** (`inbound/messages-upsert-handler.ts`) | claims in Redis, start-up watermark, conversation log | one call per delivered batch, several at once | Redis, core, outbound |
| **wa-gateway, outbound** (`infrastructure/outbound*`) | command cooldowns | one action after another: replies, stickers, audio, moderation, `enqueue_job` | WhatsApp, the queue, ffmpeg, speech recognition |
| **wa-gateway, group administration** (`infrastructure/bot-admin-status.ts`, `admin-actions.ts`) | what the bot may do in each group, cached; the group's row | check by operation or metadata, administration commands, `group-participants.update` | WhatsApp, Postgres |
| **wa-gateway, dispatch API** (`internal-dispatch-api.ts`) | none | POST send-text | WhatsApp; called by the worker |
| **core, orchestrator** (`packages/core/src/index.ts`, `orchestrator/`) | conversation state and memory | the stages from an inbound message to its actions | repositories, AI, governance |
| **core, consent** | one consent row per user and version of the terms | ask, accept, decline | repositories |
| **core, slot filling and tools** (`modules/assistant-ai`) | pending tool of a conversation | infer, ask for what is missing, execute | reminders, tasks, notes |
| **core, governance** (`modules/governance`, `adapters/src/governance`) | access rows, bundles, overrides, quota counters, a cached snapshot | decide, consume quota | Postgres, Redis |
| **worker, reminders and timers** (`apps/worker`) | none of its own; locks in Redis | `processReminderJob`, `processTimerJob` | the queue, Postgres, the dispatch API |
| **admin-api** (`apps/admin-api`) | none of its own | reads, access and licence changes, the reminder retry | Postgres, the queue |
| **media-resolver-api**, its providers (`packages/adapters/src/downloads`) and its client | job records and idempotency keys in Redis, temporary files, a cache of pages | resolve, retry, clean-up | media sites, two external resolvers |
| **runtime scripts** (`scripts/start.mjs`, `stop.mjs`) | a state file per mode | bring up dependencies, resolvers and services, supervise, stop, clean up ports | Docker, processes, ports |
| **assistant-api, admin-ui, packages/shared, packages/ai** | none to speak of | health, a static UI, configuration, prompts | |

What makes these parts hard:

* *Reminders.* The row (Postgres), the job (Redis) and the message (WhatsApp)
  are three systems without a transaction. Every write of the row is
  unconditional, BullMQ gives at-least-once execution under a lock that may be
  lost, and a user's commands and an operator's retries fall between any two
  awaits of the worker.
* *Inbound.* WhatsApp delivers a message again after reconnects and restarts,
  and to calls that run concurrently. Three guards (claim, watermark, age), two
  clocks.
* *Connector.* Handlers of `connection.update` overlap each other and
  `connect()`, and each of them awaits Redis between reading and writing.
* *Conversation.* Two messages of one chat are handled concurrently over one
  conversation state, loaded once per message and acted on awaits later.
* *Governance.* Gateway and worker decide by a snapshot they share in a cache,
  read and stored around administrators' changes; the quota is charged as the
  decision is made.
* *Outbound.* One answer is a list of actions, each of several awaits, half of
  them with a catch of their own; speech opens a list inside a list. Whatever
  fails, the sender must neither be left with a clock on the message nor be told
  of a job or a mute that was not done.
* *Group administration.* Whether the bot is an administrator is known from
  three sources of different trust, cached, and written to the row by every
  handler with what it had read awaits before.
* *Media resolver.* A request outlives its client, two requests share a key, the
  clean-up walks the files while handlers write them, and the sites answer with
  anything.
* *Runtime scripts.* Every start and stop is a process of its own; they agree
  through state files and by looking at ports, containers and command lines that
  change while they look.

`PROJECT.json` lists each hazard at its line, with the properties that would
catch it.

## 2. Modules

| Module | Contents |
|---|---|
| `DeliveryLedger` | abstract: what the reminder subsystem promises, a ledger of messages against an allowance |
| `ReminderDelivery` | worker handler, queue job, lock and stall check, chat commands, admin retry, dispatch API |
| `MCReminderDelivery` | its instances for TLC |
| `ReminderDelivery_proofs` | its proofs: types, handlers, verdicts and the queue; the account of messages and the ledger |
| `WaConnector` | the connector |
| `InboundGuard`, `MCInboundGuard` | the inbound handler's guards, instances |
| `WaGateway_proofs` | the proofs of these two |
| `Conversation`, `MCConversation`, `Conversation_proofs` | consent gate, pending tool and command router for concurrent messages of one chat, instances, proofs |
| `Governance`, `MCGovernance`, `Governance_proofs` | the governance decision, its cached snapshot and the daily quota, instances, proofs |
| `Outbound`, `MCOutbound`, `Outbound_proofs` | the execution of an answer's actions within the gateway's handler, its lists, its proofs |
| `GroupAdmin`, `MCGroupAdmin`, `GroupAdmin_proofs` | what is known of the bot's rights in a group, and of its name and settings; instances, proofs |
| `MediaProviders` | pure: what router, providers and bridges make of a site's answers |
| `MediaResolver`, `MCMediaResolver`, `MediaResolver_proofs` | the service around them: requests, retries, key, files, clean-up, client; its links; its proofs |
| `Runtime`, `MCRuntime`, `Runtime_proofs` | runs of `start.mjs` and `stop.mjs` over files, processes, ports, containers and resolvers; its instance, its proofs |

The modules share no variable: a reminder, a message on its way in, a
conversation and a decision meet only at the ends of what each module models
(the guard admits a message once; the conversation then handles it). What one
module takes from its neighbour is an input of it, in every combination.

### ReminderDelivery

`status` and `sentId` are the columns of the `Reminder` row; `job`, `lock` and
`stalls` what BullMQ keeps under the job id (the reminder's id); `stage`,
`inHand` and `wire` the worker's handler, which stops at each await of
`processReminderJob` (the stage names are the source's
`ReminderProcessingStage`); `strays` requests to the dispatch API whose sender
has gone; `step` and `target` the awaits of the two enqueuing requests.
`delivered`, `retries` and `faults` are history: messages, retries, and runs
that ended without writing their verdict.

| Action | Code |
|---|---|
| `CreateReminder`, `UpdateReminder`, `DeleteReminder` | the chat commands' row writes, in the orchestrator; the job is added afterwards, by the outbound action |
| `RetryReadFailed`, `MarkReminderForRetry` | the retry endpoint's check and its unconditional write |
| `RemoveJob`, `AddJob`, `AddJobFails`, `AbandonRequest` | `queue.remove(...).catch`, `queue.add`, its failure and compensation, a request that dies in between |
| `FetchJob`, `LoadReminder` ... `FinishJob` | the worker's run, one action per await |
| `WriteThrows`, `LoadReminderThrows`, `MarkFailedStatus`, `LoseFailedStatus` | its error paths |
| `ExpireDeadLock`, `LoseLock`, `DetectStalled` | BullMQ, as far as the worker relies on it (external) |
| `GatewaySends`, `GatewayFails`, `LoseConnection`, `ServeStray` | the dispatch API and the connection to it |
| `Crash` | the worker dies and is started again |

Time is abstracted: a delayed job may become due at any moment. Every
interleaving in which the job is due early is thereby included.

### WaConnector

Sockets are named by `connectionGeneration`. `connectStage` is `connect()`,
`opening` and `closing` are handlers that have run their synchronous part and
wait for Redis. A refused Redis command (an error answer) is a choice of its
own, since the code's reconnect depends on it; a lost Redis connection only
delays commands (the client queues them), which is a later step here.

### InboundGuard

`batch` and `stage` are the calls of the handler; `claimUntil` the Redis key
with its lifetime; `stamp` what the sender's phone wrote, up to `Skew` off.
`taken`, `admitted`, `refused`, `settled`, `lost` record what became of each
message of the batches the handler goes into. A batch of history, or one that
comes while no socket is exposed, it drops whole without a word (line 194):
`Deliver` chooses both, and `unread` keeps what came in no other batch. `Tick`
is time. `HandlerThrows` and `Abort` are the part of the
handler outside its try block.

### Conversation

The messages of one user in one chat, handled concurrently by
`handleInboundMessage`; a step is what happens between two of its awaits.
`consent` is the row, `state` the conversation state in Redis; `seen` and
`gate` are what a call has loaded of them, and keeps. "SIM" ("yes") accepts the
terms and confirms a pending tool alike. A message stopped by the rate limit
counts as never sent. Terms and confirmation lapse (`Lapse`, `Evict`), a call
may end anywhere with an error. `ran`, `raced` and `lost` are history: runs of
the tool of a request, calls that found the request in another call's hands,
and runs whose clean-up was lost.

### Governance

`resolveGovernanceDecision` for one chat and one capability, by the gateway on
a message and by the worker on a reminder. `rows` are the policy rows in two
parts, answered in any order (the seven queries of
`read-only-governance-port.ts` read one or the other); `cache` and `left` the
snapshot in Redis and the rest of its lifetime; `snap` what a decision goes by,
signals of its caller included; `used` the counter per day. An
administrator's request is one write of one row (`UpdateAccessStatus`,
`UpdateLicense`, `SetBundle`, `SetOverride`, `SetFlag`), within `Accesses` and
`Policies`. `quiet` is history: the time since both
the rows and the calls that had read older ones came to rest.

### Outbound

One message and the list of actions it is answered with. An action is a *plan*:
steps in the handler's try, steps after it, the steps of its catch, and whether
what still fails is only logged. `Plans(kind)` gives the plans of each kind by
the branches of its handler (`outbound/handlers/*.ts`); what a plan cannot know
beforehand (a download, a conversion, a recognition, a send) is a step that may
fail. `frames` is the stack of lists, an inner one for speech that the
orchestrator answers. `Raise` unwinds to the nearest catch, at last to the
gateway's own. A text is sent quoting the message and, after an error, again
without (`SendStep`), so that an error after the fact sends it twice. Formats of
sound are reduced to what decides: does it count as Opus in Ogg, and is there
any. The cooldown of reactions and all wording are left out.

### GroupAdmin

`isAdmin` and `subject` are WhatsApp's truth, `group` the row, `cache` the
entry of `groupAdminCache`; `handler` is a message or a participants event on
its way: the check (`CacheHit`, `NoSocket`, `StartCheck`, `Probe`, `Metadata`),
what it writes (`Persist`), the reads and writes of the core (`ReadIdentity`,
`Access`), the guard of a command, the operation and what is inferred from its
result (`Operate`, `UpdateSettings`, `Infer`). Every write of the row carries the
flag or the name its handler had read before: `GetGroupAccess` of the repository
upserts whatever it is handed. A command may be typed or spoken (`Spoken`,
`voice`): speech is handled like a message without text, and its transcript is
handed to the orchestrator (`Dispatch`) with the flag and source of the first
handling. `held` (the bot has been an administrator since the command came),
`doubted` (its own check failed), `overheard` (the check was spared by a cached
answer that stands for an operation's refusal or failure) and the cache's
`denied` are history.
A group whose metadata does not show the bot (an unmatched LID) is a fault here,
so it happens a bounded number of times; where it always does, a cached TRUE is
renewed for ever.

### MediaProviders and MediaResolver

A provider's phase (probe or download) shares nothing with other requests, so it
is an operator: the set of outcomes over all answers of the sites, by page kind,
status, headers present or missing, and size against the limit. `MediaResolver`
puts these into the service: `req` is a handler between two awaits, `remembered`
the stored answer of the key, `page` Instagram's cache of what a link is,
`files` and `expiry` the disk and the sorted set, and `sweep` the clean-ups that
walk them, any number at once, since the interval does not wait for the last;
`kept`, the files whose unlink failed, is history. What the handler has decided
is stored first and validated last (`Send`): an empty file is ready, stored
without a temporary file, and fails the schema, so that its caller and whoever
asks again gets an error. The client waits 25 s and gives up; the handler goes on, or hangs in
the body of an answer that has no timeout of its own (`stuck`). Formats of links
and the patterns sought in HTML are abstracted to the page kind they yield, and
the compliance modes that block a provider outright are left out.

### Runtime

`start` and `stop` are runs of the two scripts, `file` the state file of each
mode; `up` and `serving` tell `npm run` from the service below it, since the
signal reaches the former; `bound` is a port's listener, or a program that is not
ours. `dep` and `res` are what is at a dependency's or a resolver's address.
What a start gets to know of a dependency is a view of it (`Views`): each of
`docker compose ps`, `docker inspect`, `docker ps` and the connection may fail
and then tells nothing, and a container that restarts exists and does not run;
nothing is seen that is not there. A resolver that is up may be delegated
nevertheless (a late answer, `--skip-resolver-healthcheck`). `upBy`, `resBy`,
`misread`, `disturbed` and `mixed` are history: who brought it up, what a start
has not seen as it was, which starts were not alone, and which containers an
operator took down or brought up. `reused` are numbers that dead processes and
supervisors have left to strangers: `pidAlive` takes a stranger for ours, so a
dead stack may look alive, and a stop signals the stranger (to one of ours that
is an `Interrupt` or a `CrashService`). The precheck may not know one of our own
listeners by its command line, and the by-port clean-up may take any owner for
ours or not, since what it can read of a process varies. A start is
disturbed by any run that was active beside it while it worked, and by a
supervisor of its mode that begins to clean up beside it: nothing in the scripts
keeps two runs apart, and a supervisor that ends removes whatever file its mode
then has. The second part matters with three starts: of two that overlapped one
has lost its file, so a third sees no stack, and has its own file removed when
the loser at last cleans up.

## 3. Runs

| Run | What it shows |
|---|---|
| `reminder_delivery` | the safety of reminders: SENT means delivered; every message is paid for by a creation, a retry or a fault; no two handlers without a fault; a scheduled reminder has a job or somebody about to add one; a settled cancellation holds; only a retry reopens; the ledger is implemented |
| `reminder_settles` | every scheduled reminder is sent, failed or canceled, though the worker may crash |
| `connector` | one live socket, never replaced, never exposed when closed; a logout is final and in the end reported; unless Redis refuses a heartbeat the gateway always reconnects |
| `inbound_guard` | a stamped message gets past the guards once; of a batch the handler goes into nothing is dropped but by a fault, and what is dropped unread keeps its chance; one turned away stays out |
| `conversation` | nothing is served before the terms are accepted; an acceptance holds once older calls are done; each request's tool runs once but for counted overlaps and failures |
| `consent_race` | an acceptance overwritten by a message handled at the same time (section 6) |
| `governance` | the quota is neither exceeded nor cut short; a change by an administrator takes effect; a user's grants open no group |
| `outbound` | no message stays marked as being processed; an action that replies answers exactly once when nothing fails; a job or mute that was announced and not done is never passed over |
| `group_admin` | a command is refused only with cause; the row's flag settles to the truth |
| `rename_lost` | a confirmed rename that the row loses at once (section 6) |
| `media_resolver` | a ready answer that a caller gets can be delivered; every temporary file is scheduled for removal and, unless its unlink fails, in the end removed, also past a crash |
| `runtime` | a supervised stack is on file with all a stop needs, but for a container Docker's commands hid; no two copies of a service; a stop takes down nothing that was there before, unless its start misread it, and signals no other mode's processes by number |

**Bounds.** `reminder_delivery` has one reminder, since reminders share nothing
but workers: neither row, job, lock nor request of one is read by a step of
another, and the proofs hold for any number. Two workers and two requests are
the least that overlap; two commands and two retries let one of each overtake
the other; at most two faults, of any kinds, because one makes a property's
exception apply and the second must then be counted right. `reminder_settles`
has two reminders competing for one worker. `connector` allows four closed
sockets and two refused writes: enough for a handler of each of three
generations to be pending. `inbound_guard` has two calls, batches of two, a
claim of three ticks and an age of one, so that a claim lapses and is taken
again within the four ticks there are.
`conversation` has three messages, the least in which one asks, one answers
and one overlaps, and one call that fails. `governance` has three decisions
(one stores, one goes by what is stored, one is late), a snapshot that lives
two ticks so that it can be used at either, a quota of one, and one each of
change, fault and midnight: each of them is excused or counted on its own.
`outbound` has a list of each shape the orchestrator builds and two faults: the
second hits the apology for the first. `group_admin` has two handlers, the least
in which one writes late what it read early, of a command, typed or spoken (until
its guard it does what any message does, and may end there), and an event
that both checks and welcomes, one promotion or demotion and one fault; it asks
for the flag only, so one name and one setting do. `rename_lost` needs no second
handler. `media_resolver` has a link of each provider, Instagram's as post
and as reel, and two that are routed crosswise, YouTube bridged and Facebook not,
two requests for one link, two attempts, and one failing command or one crash in
all. Two clean-ups overlap for the Facebook link only: they see nothing of the
link but whether there are files. `runtime` has two starts and a stop
of two modes, two of which are active at a time, a service with a port and one
without, one dependency and one resolver, and one in all of these: a crash, a lost
child, a doing of an operator, a container that restarts, a number that passes to
a stranger (where a file has it), something misread. No step looks at a
dependency and a resolver both, so `MCInit` takes them apart: where resolvers
are selected the dependency is a program of the host. Its timeouts may end at any moment.
Deadlock is not checked where the bounds end every
behaviour.

**Fairness.** For reminders: a handler's awaits settle, requests get on to
their job, BullMQ fetches jobs, expires locks and looks for stalled jobs
(`new Worker` of `apps/worker/src/index.ts` runs these as long as the process
lives). Faults, commands and abandoned requests are never forced. For the
connector: timers fire, pending awaits settle, WhatsApp's library opens a
socket or gives it up (its connect timeout and keep-alive), and the heartbeat's
interval goes on. For the
media resolver: time passes for the files, the clean-up's interval goes on, a
clean-up under way goes on, and a killed service is started again; handlers of
requests are not forced, since they may hang, and neither is the client's timer. For
the groups: calls that have begun go on, the socket comes back and cache
entries expire; nobody has to write, promote or join, so `FlagSettles` takes it
as its premise that messages go on and events cease. All of it is weak fairness.

## 4. Proofs

All theorems hold for any number of reminders, workers, requests, messages,
calls, attempts and any bounds on events. Their only assumptions are the named
ones of the modules: sets of workers are finite, markers such as `None` are not
members of the set they stand beside, there is a name to give a group, times and
bounds are naturals. Each proof has the same shape: a type invariant, lemmas
about the operators the actions share, an inductive invariant kept action by
action, and a last step that combines them.

* **ReminderDelivery.** `TypeCorrect`, `OneRun`, `SentMeansDelivered` use the
  conjuncts `Consistent`, `Untouched`, `Confirmed`, `LockedRuns`.
  `OnlyRetriesReopen` is about single steps: SCHEDULED is written by a creation,
  whose row is new, and by the retry, which is counted.
  `CancellationHolds` goes through what each step may do to a row that no handler
  has read before it was canceled. `ScheduledStaysQueued` needs to know what handlers have done with a row
  that still says SCHEDULED: without faults an active job has its live handler
  (`ActiveIsRun`), no job of such a row has ended (`ScheduledHasJob`), and every
  handler on it has its verdict before it (`ScheduledAwaitsVerdict`); a handler
  that took a step past its verdict without writing it would be a fault.
  `Paid` (`DeliveriesArePaid`) needs more: what has been delivered does not say
  what is still to come. The invariant `Account` bounds a potential: messages
  delivered, plus stray requests, plus handlers that may still send, plus one
  if a further run would find the row SCHEDULED, never exceed the allowance.
  Every action keeps it: a handler that reads SCHEDULED turns the last term
  into the third, a send turns the third into the first, a fault raises the
  allowance by what it frees. `Implements` maps the whole path to
  `DeliveryLedger`: each step is a ledger step or a stutter, with the allowance
  as the refinement mapping.
* **WaConnector.** `ConnectorTypeCorrect`, `NoSecondSocket`, `NoDeadSocket`,
  `LogoutIsFinal`. The inductive invariant is *one driver*: a live socket, an
  attempt, an armed timer or a pending close handler, and never two of them, with
  `Newest` saying whose socket is whose.
* **InboundGuard.** `AtMostOnce` assumes `ClaimOutlivesAge`, that the claim
  lives longer than the maximal age plus the clocks' skew (172800 s and 30 s by
  default): an admitted message is claimed until it is too old. `StaysOut`
  rests on time and the watermark never going back. `TakenAreAccounted` follows
  each message of a batch that was gone into from call to call, and shows that
  only such messages are claimed. `TypeCorrect` is the part of their invariant that is
  about types.
* **Conversation.** `NoneServedUngated` and `AcceptedForGood` rest on what a
  call has loaded when it passes the gate. `NoUnpaidRun` bounds a potential: a
  request's runs, calls still acting on its question, calls that may yet read
  it, and its own call, never exceed one plus overlaps plus losses.
* **Governance.** `ChangesTakeEffect` needs two conjuncts: a call that has read
  rows which have changed since keeps `quiet` at 0, and a cached snapshot of
  older rows has `left + quiet` at most its lifetime; so once `quiet` has
  reached it nothing is left. `QuotaIsKept` and `QuotaIsNotCut` come from one
  invariant: a day's counter is at least the decisions allowed on it, and until
  the limit is reached at most those not turned away. `GroupsAreTheirOwn` is
  about the policy alone, for all access and policy rows.
* **GroupAdmin.** `RefusalHasCause` needs an invariant of each call alone, with
  the truth (`Justified`): a typed command forces its check, so it never takes
  the cached answer for the operation's; where the operation said no, the bot was
  no administrator at that moment; where it failed, the call is in doubt; and
  only what came from the operation reaches the guard. A spoken command comes by
  the cache, and only there is a fact about the cache needed: a no it keeps under
  the source `operation` is an operation's (`CacheIsTrue`).
* **MediaResolver.** `TypeCorrect` and `ReadyCanBeSent` go through every branch
  of the router, the providers and the bridges: lemmas say of each phase
  (`ProbeOutcomes`, `ExecuteOutcomes`) that it yields outcomes and nothing else,
  and that those marked ready are deliverable or empty, for every page and every
  answer of a site; what is remembered under the key comes from them (`Answers`),
  and what a caller gets is what is remembered and not empty. `FilesGetAnExpiry`
  rests on three facts about handlers and clean-up together: a request that has
  not been made has no handler (`UnaskedIsIdle`), only files of requests past
  their registration have an expiry (`RegisteredIsPast`), and what a clean-up
  has listed keeps its member until its file is gone and is written by nobody
  (`SweepTakesDue`).

* **Outbound.** Of the lists it is only assumed that they are sequences of
  kinds, so the theorems hold for any answers, nested to any depth. Lemmas go
  through the plans: each piece does, marks and sends so much (`Looks*`), so each
  plan of each kind fits (`EveryPlanFits`): it marks what it has tried, counts a
  reply once and has the fallback its caller relies on. A list under way is then
  `Sound` step by step, the lists below it are at an await (`FramesAreSound`),
  and what is raised ends at the innermost list that catches. `MarksSettle` adds
  that whoever has set a mark will settle it (`MarkIsMinded`),
  `OmissionsAreNoticed` that a notice owed is still ahead (`OwedIsAhead`), and
  `EveryReplyOnce` that what has been sent and what the stack still owes make up
  what the message's lists ask for (`Balanced`, a sum over the stack).

* **Runtime.** `StacksAreOnFile`, `OneCopyEach` and `StopsSpareOthers` hold for
  any number of starts, stops, modes and faults, and without the bound on runs
  at a time. Assumed of the constants: markers are no records, no processes and
  no starts, the dependencies are listed in a sequence. The invariant has five
  parts. `Processes`: what runs was spawned by its start, a state file is the
  record of a start that will spawn no more, and a stop goes through processes
  of its mode. `ClaimsAreKnown`: what a start, a file or a stop claims was
  brought up by a start, or misread by the one that claims it, or an operator
  meddled; a stop takes down nothing else. `BroughtUpIsRecorded`: what a start
  has brought up it has claimed, is about to, or has misread.
  `Alone` and `StackIsHeld` hold each other up: while an undisturbed start works
  nobody else is active and there is no other stack, since it has looked at the
  files and every live stack is on file; once recorded its stack stays on file,
  since of the runs that could remove the file none is at the point of doing so,
  and whoever arrives later finds the stack alive. A killed supervisor's
  services count as a stack until all have been told to stop.
  `BroughtUpIsRecorded` follows a container from the probe before
  `compose up` to the file; it needs `Alone` where the probe and the call are
  two steps.

Only model-checked: all liveness (`ScheduledIsSettled`, `LogoutIsReported`,
`ReconnectsUnlessRefused`, `FlagSettles`, `RegisteredFilesGo`), which is out of the prover's reach, as are `ENABLED`, induction over data and
RECURSIVE operators.

## 5. Not modelled

`PROJECT.json` lists every component with its status. Left out for good: search,
translation and pre-sales (requests to third parties without state), prompts,
the admin UI, `bootstrap.mjs` and the other scripts, logging. Left out so far, in
the order of the plan:

1. **Timers**: the reminder handler with fewer guards, a catch that overwrites
   FIRED and may itself throw;
2. **RateLimit** (INCR and EXPIRE), **public ids** (two creators, one sequence),
   **FeatureFlags** (the scope order reversed in place);
3. tasks, notes and the merging of identities.

In GroupAdmin: columns of the row other than name, openness and the flag, which
no handler reads back while it runs. In Outbound: the connection's own
reconnect, which is `WaConnector`.
In Governance: what single commands require of sender and bot, the consent
check (both callers waive it), capabilities outside the catalogue, the editing
of bundles, the tiers BASIC (as FREE) and ROOT (as PRO).

Within modelled components: text, recipients, the time a reminder is due,
pairing and QR codes, identity aliases, message parsing, the ids made up for
messages without one.

## 6. Where documents and code disagree

Two sentences have a run that shows the code does otherwise:

* `docs/onboarding-consent.md:13` has SIM remove the consent gate; a message
  that has read the row before writes PENDING over the acceptance
  (`consent_race`).
* `docs/group-access-control.md:46` has `/groupinfo` show the current name of the
  group; after `/set gp name` the handler stores the new name and then, with the
  flag, the name it had read before the command, so the reply confirms a rename
  that the row has lost (`rename_lost`).

The others are exceptions the passing properties name:

* `README.md:381` calls the worker idempotent; the text is sent before anything
  is recorded, so a crash in between sends it again. `DeliveriesArePaid` counts
  such a crash among the faults.
* `INTEGRATION_CONTRACTS.md:350` restricts the retry to FAILED reminders; check
  and write are two steps, and another retry or run may come between them.
  `ReopenOnlyByRetry` therefore names the retry and not FAILED.
* `INTEGRATION_CONTRACTS.md:351` says a successful retry enqueues; while the
  failed run's job is locked it does not. `ScheduledIsQueued` leaves retried
  reminders out.
* `DEPLOYMENT_STRATEGY.md:550` says the gateway reconnects automatically; the
  timer is armed behind a Redis write that may fail (`ReconnectsUnlessRefused`).
* `README.md:39` makes the limit the FREE plan's daily quota; a reminder's job
  waives the quota in its snapshot, which the user's messages then find in the
  cache. `QuotaHolds` is about the decisions that count.
* `docs/group-access-control.md:19` says metadata no longer blocks a command;
  where the operation that should decide fails, a FALSE cached from metadata is
  kept, labelled as the operation's, and the command refused. It is the second
  exception of `RefusedWithCause`.
* `docs/group-access-control.md:18` has the commands decide from the real result
  of an operation; `messages-upsert-handler.ts:366-374` forces it by the text of
  the message, which speech does not have. A spoken command is refused by what
  another call's operation has left in the cache, though the bot has been made an
  administrator since. It is the third exception of `RefusedWithCause`.
* `INTEGRATION_CONTRACTS.md:830` makes `bufferBase64` optional in a ready answer;
  `instagram-provider.ts:1194` and `facebook-provider.ts:1106` give an empty file
  an empty one, which `media-resolver-contract.ts:27` refuses after the answer has
  been stored. `internal-media-resolver-api.ts:127` then answers every request
  under that key with 500 until it expires. `ReadyIsDeliverable` is about the
  answers that callers get.
* `README.md:182` has the stop take down only dependencies that the current
  runtime started. Where `docker compose ps` or `docker inspect` fails, or the
  container is restarting (`start.mjs:923-997`), a container that was there
  counts as not running and is claimed (`start.mjs:1350-1360`). Where `docker ps`
  fails afterwards (`start.mjs:1003-1006`), one that the start has brought up is
  a program of the host (`start.mjs:1063-1065`), which the stop leaves running
  (`stop.mjs:604`). Both are exceptions (`misread`) of `StopSparesOthers` and
  `StackIsOnFile`.
* `DEPLOYMENT_STRATEGY.md:234` has the stop close only resolver windows that the
  current runtime owns; a resolver that was up and answered late, or was not
  asked, is delegated (`start.mjs:1826-1887`) and stopped (`stop.mjs:733`). It is
  `misread` too.
* `docs/runtime-lifecycle-operator-guide.md:52` says the stop does not kill
  arbitrary unknown processes; a number in the file of a stack that has died is
  signalled whatever process has it by now (`stop.mjs:544-568`, `801-804`). No
  property claims otherwise.
* `README.md:194` and line 67 of the same guide speak of leftovers; with
  `--cleanup-ports` the services of a stack of another mode that is alive answer
  to the same markers and are killed (`stop.mjs:443-504`). The last conjunct of
  `StopSparesOthers` leaves the by-port clean-up out.
