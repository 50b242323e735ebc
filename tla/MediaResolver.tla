---------------------------- MODULE MediaResolver ----------------------------
(***************************************************************************)
(* The media resolver service (apps/media-resolver-api) between its client *)
(* in the gateway (internal-resolver-client.ts) and the download providers *)
(* (MediaProviders).  All requests ask for one link with one idempotency   *)
(* key; they run concurrently in one process, which may be killed.         *)
(*                                                                         *)
(*   reads key -> attempt: probe, execute -> (transient: once more)        *)
(*     -> writes the file -> registers its expiry                          *)
(*     -> remembers the answer under the key -> answers                    *)
(*                                                                         *)
(* Every arrow is an await: other requests, the clean-up of the temporary  *)
(* files, a refused command of Redis or a crash may come between.          *)
(***************************************************************************)
EXTENDS MediaProviders, Naturals

CONSTANTS
  Requests,
  Sweeps,       \* clean-ups that may be under way at once
  MaxAttempts,
  MaxFaults     \* failures and crashes in all

ASSUME ResolverAssumption == MaxAttempts \in Nat \ {0} /\ MaxFaults \in Nat
ASSUME NoneAssumption == None \notin Requests

VARIABLES
  link,      \* the link asked for
  client,    \* what the caller of each request has
  req,       \* the handler of each request: stage, attempts, outcome
  remembered,\* the answer stored under the idempotency key
  page,      \* the kind of the page in Instagram's cache
  files,     \* the temporary files on disk, each named after its request
  expiry,    \* of each file: its member of the sorted set
  sweep,     \* each clean-up: the files it listed, the one it has just unlinked
  kept,      \* history: the files whose unlink failed
  up, faults, crashes

vars == <<link, client, req, remembered, page, files, expiry, sweep, kept, up, faults, crashes>>

Stages == {"idle", "accepted", "probe", "execute", "stuck", "write", "register",
           "remember", "done"}
Idle == [stage |-> "idle", attempts |-> 0, out |-> None]
Done == [Idle EXCEPT !.stage = "done"]
NoSweep == [left |-> {}, doing |-> None]

Init ==
  /\ link \in Links
  /\ client = [r \in Requests |-> "idle"]
  /\ req = [r \in Requests |-> Idle]
  /\ remembered = None /\ page = None /\ files = {}
  /\ expiry = [r \in Requests |-> "none"]
  /\ sweep = [s \in Sweeps |-> NoSweep] /\ kept = {}
  /\ up = TRUE /\ faults = 0 /\ crashes = 0

-----------------------------------------------------------------------------
(* The client: a POST with a timer of 25 s.  It never repeats a request. *)
Ask(r) ==
  /\ client[r] = "idle"
  /\ client' = [client EXCEPT ![r] = IF up THEN "waiting" ELSE "failed"]
  /\ req' = IF up THEN [req EXCEPT ![r].stage = "accepted"] ELSE req
  /\ UNCHANGED <<link, remembered, page, files, expiry, sweep, kept, up, faults, crashes>>

(* The timer aborts the call, an error like any other for the caller; the    *)
(* handler of the request goes on.                                           *)
GiveUp(r) ==
  /\ client[r] = "waiting"
  /\ client' = [client EXCEPT ![r] = "failed"]
  /\ UNCHANGED <<link, req, remembered, page, files, expiry, sweep, kept, up, faults, crashes>>

Answer(r, how) == client' = [client EXCEPT ![r] = IF @ = "waiting" THEN how ELSE @]

(* An empty buffer is none to the service, but not to the schema of its       *)
(* answers, which is applied last and has a buffer hold something.            *)
HasBytes(out) == out.bytes \notin {"none", "empty"}
Send(r, out) == Answer(r, IF out.bytes = "empty" THEN "failed" ELSE "answered")

-----------------------------------------------------------------------------
(* The handler of a request. *)
At(r, s) == up /\ req[r].stage = s
Goto(r, s) == req' = [req EXCEPT ![r].stage = s]

(* An exception of Redis or of the file system reaches the HTTP layer: 500. *)
Fault(r, s) ==
  /\ At(r, s) /\ faults + crashes < MaxFaults
  /\ faults' = faults + 1
  /\ req' = [req EXCEPT ![r] = Done]
  /\ Answer(r, "failed")
  /\ UNCHANGED <<link, remembered, page, files, expiry, sweep, kept, up, crashes>>

ReadKeyFails(r) == Fault(r, "accepted")
WriteFails(r) == At(r, "write") /\ HasBytes(req[r].out) /\ Fault(r, "write")
RegisterFails(r) == Fault(r, "register")
RememberFails(r) == Fault(r, "remember")

ReadKey(r) ==
  /\ At(r, "accepted")
  /\ IF remembered # None
     THEN req' = [req EXCEPT ![r] = Done] /\ Send(r, remembered)
     ELSE /\ req' = [req EXCEPT ![r] = [stage |-> "probe", attempts |-> 1, out |-> None]]
          /\ UNCHANGED client
  /\ UNCHANGED <<link, remembered, page, files, expiry, sweep, kept, up, faults, crashes>>

(* One more attempt after a transient error, else the outcome stands. *)
Settle(r, out) ==
  req' = [req EXCEPT ![r] =
    IF out.status = "error" /\ out.again /\ req[r].attempts < MaxAttempts
    THEN [stage |-> "probe", attempts |-> @.attempts + 1, out |-> None]
    ELSE [stage |-> "write", attempts |-> 0, out |-> out]]

(* The page a ready Instagram probe has found enters the cache under its     *)
(* address and under the address it gives for itself.                        *)
Cache(p, out) == page' = IF p = "ig" /\ out.status = "ready" THEN out.kind ELSE page

Probe(r) ==
  LET p == Provider(link)
  IN  /\ At(r, "probe")
      /\ \E out \in IF p = None THEN {NotConfigured}
                    ELSE IF Foreign(p, link) THEN {InvalidLink} ELSE ProbeOutcomes[p][link.path] :
           /\ IF out.status = "ready" THEN Goto(r, "execute") ELSE Settle(r, out)
           /\ Cache(p, out)
      /\ UNCHANGED <<link, client, remembered, files, expiry, sweep, kept, up, faults, crashes>>

Execute(r) ==
  LET p == Provider(link)
  IN  /\ At(r, "execute") /\ p # "ig"
      /\ \E out \in ExecuteOutcomes[p][link.path] : Settle(r, out)
      /\ UNCHANGED <<link, client, remembered, page, files, expiry, sweep, kept, up, faults, crashes>>

(* With the page gone from the cache, Instagram probes again first. *)
ExecuteInstagram(r) ==
  /\ At(r, "execute") /\ Provider(link) = "ig"
  /\ IF page # None
     THEN UNCHANGED page /\ \E out \in IgExecutions[page] : Settle(r, out)
     ELSE \E probe \in ProbeOutcomes["ig"][link.path] :
            /\ Cache("ig", probe)
            /\ \E out \in IF probe.status = "ready" THEN IgExecutions[probe.kind] ELSE {probe} :
                 Settle(r, out)
  /\ UNCHANGED <<link, client, remembered, files, expiry, sweep, kept, up, faults, crashes>>

(* The timers of the providers end with the headers: a body may never end. *)
Hang(r) ==
  /\ At(r, "probe") \/ At(r, "execute")
  /\ faults + crashes < MaxFaults
  /\ faults' = faults + 1
  /\ req' = [req EXCEPT ![r] = [Idle EXCEPT !.stage = "stuck"]]
  /\ UNCHANGED <<link, client, remembered, page, files, expiry, sweep, kept, up, crashes>>

(* Mutant: the file gets no expiry. *)
WriteFileUnregistered(r) ==
  /\ At(r, "write")
  /\ Goto(r, "remember")
  /\ files' = IF HasBytes(req[r].out) THEN files \cup {r} ELSE files
  /\ UNCHANGED <<link, client, remembered, page, expiry, sweep, kept, up, faults, crashes>>

WriteFile(r) ==
  /\ At(r, "write")
  /\ IF HasBytes(req[r].out)
     THEN Goto(r, "register") /\ files' = files \cup {r}
     ELSE Goto(r, "remember") /\ UNCHANGED files
  /\ UNCHANGED <<link, client, remembered, page, expiry, sweep, kept, up, faults, crashes>>

RegisterFile(r) ==
  /\ At(r, "register")
  /\ expiry' = [expiry EXCEPT ![r] = "later"]
  /\ Goto(r, "remember")
  /\ UNCHANGED <<link, client, remembered, page, files, sweep, kept, up, faults, crashes>>

(* The record of the job is written, which nothing reads, and whatever its   *)
(* status the answer is stored under the key; then it is validated and sent. *)
Remember(r) ==
  /\ At(r, "remember")
  /\ remembered' = req[r].out
  /\ req' = [req EXCEPT ![r] = Done]
  /\ Send(r, req[r].out)
  /\ UNCHANGED <<link, page, files, expiry, sweep, kept, up, faults, crashes>>

-----------------------------------------------------------------------------
(* Time: the keys of Redis and the entries of Instagram's cache expire. *)
ForgetAnswer ==
  /\ remembered # None /\ remembered' = None
  /\ UNCHANGED <<link, client, req, page, files, expiry, sweep, kept, up, faults, crashes>>

ForgetPage ==
  /\ page # None /\ page' = None
  /\ UNCHANGED <<link, client, req, remembered, files, expiry, sweep, kept, up, faults, crashes>>

FileIsDue(r) ==
  /\ expiry[r] = "later"
  /\ expiry' = [expiry EXCEPT ![r] = "due"]
  /\ UNCHANGED <<link, client, req, remembered, page, files, sweep, kept, up, faults, crashes>>

-----------------------------------------------------------------------------
(* The clean-up, at the start of the service and at an interval, whether or  *)
(* not another is under way: the due members are listed, then each file is   *)
(* unlinked and its member removed.                                          *)
Due == {r \in Requests : expiry[r] = "due"}

(* Mutant: the members are removed with the listing. *)
StartSweepTakingMembers(s) ==
  /\ up /\ sweep[s] = NoSweep /\ Due # {}
  /\ sweep' = [sweep EXCEPT ![s].left = Due]
  /\ expiry' = [r \in Requests |-> IF r \in Due THEN "none" ELSE expiry[r]]
  /\ UNCHANGED <<link, client, req, remembered, page, files, kept, up, faults, crashes>>

StartSweep(s) ==
  /\ up /\ sweep[s] = NoSweep /\ Due # {}
  /\ sweep' = [sweep EXCEPT ![s].left = Due]
  /\ UNCHANGED <<link, client, req, remembered, page, files, expiry, kept, up, faults, crashes>>

Turn(s, r) ==
  /\ up /\ sweep[s].doing = None /\ r \in sweep[s].left
  /\ sweep' = [sweep EXCEPT ![s] = [left |-> sweep[s].left \ {r}, doing |-> r]]

Unlink(s, r) ==
  /\ Turn(s, r)
  /\ files' = files \ {r}
  /\ UNCHANGED <<link, client, req, remembered, page, expiry, kept, up, faults, crashes>>

(* A failed unlink is passed over. *)
UnlinkFails(s, r) ==
  /\ Turn(s, r)
  /\ faults + crashes < MaxFaults
  /\ faults' = faults + 1
  /\ kept' = kept \cup ({r} \cap files)
  /\ UNCHANGED <<link, client, req, remembered, page, files, expiry, up, crashes>>

RemoveMember(s) ==
  /\ up /\ sweep[s].doing # None
  /\ expiry' = [expiry EXCEPT ![sweep[s].doing] = "none"]
  /\ sweep' = [sweep EXCEPT ![s].doing = None]
  /\ UNCHANGED <<link, client, req, remembered, page, files, kept, up, faults, crashes>>

(* A refused command of Redis ends the clean-up, not the service. *)
RemoveMemberFails(s) ==
  /\ up /\ sweep[s].doing # None
  /\ faults + crashes < MaxFaults
  /\ faults' = faults + 1
  /\ sweep' = [sweep EXCEPT ![s] = NoSweep]
  /\ UNCHANGED <<link, client, req, remembered, page, files, expiry, kept, up, crashes>>

-----------------------------------------------------------------------------
(* The process dies with its handlers, its cache and its clean-up; the files *)
(* and Redis remain.  The callers see the connection break.                  *)
Crash ==
  /\ up /\ faults + crashes < MaxFaults
  /\ up' = FALSE /\ crashes' = crashes + 1
  /\ client' = [r \in Requests |-> IF client[r] = "waiting" THEN "failed" ELSE client[r]]
  /\ req' = [r \in Requests |-> IF req[r].stage = "idle" THEN req[r] ELSE Done]
  /\ page' = None /\ sweep' = [s \in Sweeps |-> NoSweep]
  /\ UNCHANGED <<link, remembered, files, expiry, kept, faults>>

Restart ==
  /\ ~up /\ up' = TRUE
  /\ UNCHANGED <<link, client, req, remembered, page, files, expiry, sweep, kept, faults, crashes>>

-----------------------------------------------------------------------------
Handle(r) ==
  \/ ReadKey(r) \/ Probe(r) \/ Execute(r) \/ ExecuteInstagram(r) \/ WriteFile(r)
  \/ RegisterFile(r) \/ Remember(r)
Fail(r) == ReadKeyFails(r) \/ WriteFails(r) \/ RegisterFails(r) \/ RememberFails(r) \/ Hang(r)
GoOn(s) == RemoveMember(s) \/ \E r \in Requests : Unlink(s, r)
Cleanup(s) ==
  \/ StartSweep(s) \/ GoOn(s) \/ RemoveMemberFails(s)
  \/ \E r \in Requests : UnlinkFails(s, r)

Next ==
  \/ \E r \in Requests : Ask(r) \/ GiveUp(r) \/ Handle(r) \/ Fail(r) \/ FileIsDue(r)
  \/ \E s \in Sweeps : Cleanup(s)
  \/ ForgetAnswer \/ ForgetPage \/ Crash \/ Restart

(* A key falls due, a clean-up is started again and again and goes on, a      *)
(* killed service is started again.  No answer of a site is owed.             *)
Fairness ==
  /\ \A r \in Requests : WF_vars(FileIsDue(r))
  /\ \A s \in Sweeps : WF_vars(GoOn(s))
  /\ WF_vars(\E s \in Sweeps : StartSweep(s)) /\ WF_vars(Restart)

Spec == Init /\ [][Next]_vars /\ Fairness

-----------------------------------------------------------------------------
TypeOK ==
  /\ link \in Links
  /\ client \in [Requests -> {"idle", "waiting", "answered", "failed"}]
  /\ req \in [Requests -> [stage: Stages, attempts: 0..MaxAttempts, out: Outcomes \cup {None}]]
  /\ remembered \in Outcomes \cup {None} /\ page \in MediaKinds \cup {None}
  /\ files \subseteq Requests
  /\ expiry \in [Requests -> {"none", "later", "due"}]
  /\ sweep \in [Sweeps -> [left: SUBSET Requests, doing: Requests \cup {None}]]
  /\ kept \subseteq Requests
  /\ up \in BOOLEAN /\ faults \in 0..MaxFaults /\ crashes \in 0..MaxFaults

(* A ready answer that a caller gets can be sent: its bytes are within the   *)
(* limit although the headers of the file may be missing or wrong and the    *)
(* page that was probed may have been replaced in the cache; what the        *)
(* providers themselves have downloaded from Instagram and Facebook is sent  *)
(* as the kind the answer names.  An empty file is marked ready and stored   *)
(* all the same; no caller gets it, as it fails the schema of the answers,   *)
(* and every request for the link fails with it until the key expires.       *)
Deliverable(out) ==
  out.status = "ready" =>
    /\ out.bytes # "big"
    /\ Provider(link) \in {"ig", "fb"} \ Bridged =>
         /\ out.bytes = "small"
         /\ Reply(out) = IF out.kind = "image_post" THEN "image" ELSE "video"

Answered(r) == client[r] = "waiting" /\ client'[r] = "answered"
ReadyIsDeliverable == [][\A r \in Requests : Answered(r) => Deliverable(remembered')]_vars

(* Without a crash and without a failure of Redis or of the disk no          *)
(* temporary file is left behind: it has an expiry, or its handler is about  *)
(* to register one.                                                          *)
FilesAreScheduled ==
  faults = 0 /\ crashes = 0 =>
    \A r \in files : expiry[r] # "none" \/ req[r].stage = "register"

(* A registered file is removed in the end, also when the service is killed  *)
(* in the middle of a clean-up, or Redis fails it, unless an unlink fails.   *)
RegisteredFilesGo ==
  \A r \in Requests : (r \in files /\ expiry[r] # "none") ~> (r \notin files \/ r \in kept)

-----------------------------------------------------------------------------
(* The inductive invariant behind FilesAreScheduled.                         *)

(* A request that has not been made has no handler. *)
UnaskedIsIdle == \A r \in Requests : client[r] = "idle" => req[r].stage = "idle"

(* Only the file of a request that is past its registration has an expiry.   *)
RegisteredIsPast ==
  \A r \in Requests : expiry[r] # "none" => req[r].stage \in {"remember", "done"}

(* What a clean-up has listed keeps its member until its file is gone, and   *)
(* nobody writes the file again, however many clean-ups have listed it.      *)
SweepTakesDue ==
  \A s \in Sweeps, r \in Requests :
    r \in sweep[s].left \/ sweep[s].doing = r =>
      /\ req[r].stage \in {"remember", "done"}
      /\ faults = 0 /\ r \in files => expiry[r] = "due" /\ sweep[s].doing # r

=============================================================================
