------------------------------ MODULE Governance ------------------------------
(***************************************************************************)
(* resolveGovernanceDecision for one chat and one capability: the gateway  *)
(* decides each inbound message, the worker each reminder it is about to   *)
(* send.  Both go by a snapshot of the policy rows, which both keep in     *)
(* Redis under the same key for a while (cached-governance-port.ts), while *)
(* administrators change the rows; and a FREE user's direct messages are   *)
(* counted against a daily quota.                                          *)
(*                                                                         *)
(*   get --+-- cached ---------+--> refused or allowed                     *)
(*         |                   |                                           *)
(*         +--> read --> store +--> consume --> allowed or over quota      *)
(*                                                                         *)
(* A call is one decision.  The rows of other chats and of other           *)
(* capabilities are never read by it; both callers waive the consent       *)
(* check, and what single commands require of the sender is left out.      *)
(***************************************************************************)
EXTENDS Naturals, FiniteSets

CONSTANTS
  Calls,       \* the decisions
  NoDay,       \* charged to no day
  Accesses,    \* bound on what administrators make of status and tier
  Policies,    \* bound on what they make of overrides, bundles and flags
  Ttl,         \* ticks a snapshot is kept
  Limit,       \* messages a FREE user may send a day
  MaxDay,      \* bound on the days that pass
  MaxChanges,  \* bound on the administrators' changes
  MaxFaults    \* bound on decisions that throw or die

Status == {"PENDING", "APPROVED", "BLOCKED"}
Tier == {"FREE", "PRO"}
Override == {"none", "allow", "deny"}
Subject == {"user", "group"}

\* The subject of the scope has a status and a tier.  Overrides, and bundles
\* that hold the capability, are given to the user or to the group; closed: a
\* feature flag or, in a group, the group's row refuses.
Access == [status : Status, tier : Tier]
Policy == [override : [Subject -> Override], bundles : SUBSET Subject, closed : BOOLEAN]

\* Nobody has been granted or denied anything yet.
DefaultPolicy == [override |-> [s \in Subject |-> "none"], bundles |-> {}, closed |-> FALSE]

ASSUME CallsAssumption == IsFiniteSet(Calls)
ASSUME BoundsAssumption ==
  /\ Ttl \in Nat \ {0}
  /\ Limit \in Nat \ {0}
  /\ MaxDay \in Nat
  /\ MaxChanges \in Nat
  /\ MaxFaults \in Nat
ASSUME EditsAssumption ==
  /\ Accesses \subseteq Access /\ Accesses # {}
  /\ Policies \subseteq Policy /\ DefaultPolicy \in Policies
ASSUME NoDayAssumption == NoDay \notin 0 .. MaxDay

VARIABLES
  scope,       \* "private": the user's chat with the bot; "group": one of the groups
  capability,  \* "conversation", or "extra": one of the paid tools
  root,        \* has the user the ROOT role?
  rows,        \* the policy rows in Postgres
  cache,       \* the snapshot in Redis
  left,        \* the ticks it has left, 0 when there is none
  day,         \* today
  used,        \* the usage counter of each day
  kind,        \* who decides: the gateway on a message, the worker on a job
  step,        \* the await a call is at
  missing,     \* the rows a call has still to read
  snap,        \* the snapshot a call goes by
  outcome,
  charged,     \* history: the day a call was counted on
  quiet,       \* history: ticks since the rows settled, up to Ttl
  changes,
  faults

rowVars == <<scope, capability, root, rows, changes>>
cacheVars == <<cache, left>>
quotaVars == <<used, charged>>
vars == <<rowVars, cacheVars, day, quotaVars, kind, step, missing, snap, outcome, quiet, faults>>

Day == 0 .. MaxDay
Part == {"access", "policy"}
Rows == [access : Accesses, policy : Policies]

\* What is cached with the rows: the role of the user as the caller knew it,
\* whether the caller wants to be charged, the day.
Snapshot == [rows : Rows, root : BOOLEAN, skip : BOOLEAN, day : Day]

Step == {"get", "read", "store", "consume", "done"}
Outcome == {"none", "allowed", "refused", "over_quota", "opened", "lost"}

TypeOK ==
  /\ scope \in {"private", "group"}
  /\ capability \in {"conversation", "extra"}
  /\ root \in BOOLEAN
  /\ rows \in Rows
  /\ cache \in Snapshot
  /\ left \in 0 .. Ttl
  /\ day \in Day
  /\ used \in [Day -> Nat]
  /\ kind \in [Calls -> {"message", "job"}]
  /\ step \in [Calls -> Step]
  /\ missing \in [Calls -> SUBSET Part]
  /\ snap \in [Calls -> Snapshot]
  /\ outcome \in [Calls -> Outcome]
  /\ charged \in [Calls -> Day \cup {NoDay}]
  /\ quiet \in 0 .. Ttl
  /\ changes \in 0 .. MaxChanges
  /\ faults \in 0 .. MaxFaults

NoSnapshot ==
  [rows |-> CHOOSE r \in Rows : TRUE, root |-> FALSE, skip |-> FALSE, day |-> 0]

\* The worker asks for the conversation only.
Init ==
  /\ scope \in {"private", "group"}
  /\ capability \in {"conversation", "extra"}
  /\ root \in BOOLEAN
  /\ \E access \in Accesses : rows = [access |-> access, policy |-> DefaultPolicy]
  /\ cache = NoSnapshot
  /\ left = 0
  /\ day = 0
  /\ used = [d \in Day |-> 0]
  /\ kind \in [Calls -> IF capability = "conversation" THEN {"message", "job"} ELSE {"message"}]
  /\ step = [c \in Calls |-> "get"]
  /\ missing = [c \in Calls |-> {}]
  /\ snap = [c \in Calls |-> NoSnapshot]
  /\ outcome = [c \in Calls |-> "none"]
  /\ charged = [c \in Calls |-> NoDay]
  /\ quiet = Ttl
  /\ changes = 0
  /\ faults = 0

At(c, s) == step[c] = s
Goto(c, s) == step' = [step EXCEPT ![c] = s]

\* The call returns and forgets what it went by.
Finish(c, o) ==
  /\ Goto(c, "done")
  /\ outcome' = [outcome EXCEPT ![c] = o]
  /\ snap' = [snap EXCEPT ![c] = NoSnapshot]

\* The calls on the way to storing rows that are no longer what they were.
Outdated(c) ==
  /\ step[c] \in {"read", "store"}
  /\ \E p \in Part \ missing[c] : snap[c].rows[p] # rows[p]

-----------------------------------------------------------------------------
(***************************************************************************)
(* The decision, on a snapshot's rows.                                     *)
(***************************************************************************)

TierGrants(tier) == capability = "conversation" \/ tier = "PRO"

\* Variant: the user's own override opens the capability in groups as well.
ExplicitAllowEither(policy) ==
  policy.override["user"] = "allow" \/ (scope = "group" /\ policy.override["group"] = "allow")

ExplicitAllow(policy) ==
  policy.override[IF scope = "group" THEN "group" ELSE "user"] = "allow"

ExplicitDeny(policy) ==
  \/ policy.override["user"] = "deny"
  \/ scope = "group" /\ policy.override["group"] = "deny"

BundleGrants(policy) == (IF scope = "group" THEN "group" ELSE "user") \in policy.bundles

\* evaluateCapabilityPolicy
Entitled(r) ==
  /\ ~ExplicitDeny(r.policy)
  /\ ExplicitAllow(r.policy) \/ TierGrants(r.access.tier) \/ BundleGrants(r.policy)

Passes(r) == r.access.status = "APPROVED" /\ Entitled(r) /\ ~r.policy.closed

\* The gateway knows the sender's role; the worker does not, and takes what
\* the snapshot says.
IsRoot(c, s) == IF kind[c] = "message" THEN root ELSE s.root

\* Who is charged: the snapshot says whether to, not the call.
Metered(c, s) ==
  /\ ~s.skip
  /\ ~IsRoot(c, s)
  /\ capability = "conversation"
  /\ scope = "private"
  /\ s.rows.access.tier = "FREE"

\* The call goes by s: it is settled now, or once the quota is consumed.
Apply(c, s) ==
  IF (IsRoot(c, s) \/ Passes(s.rows)) /\ Metered(c, s)
    THEN /\ Goto(c, "consume")
         /\ snap' = [snap EXCEPT ![c] = s]
         /\ UNCHANGED outcome
    ELSE Finish(c, IF IsRoot(c, s) \/ Passes(s.rows) THEN "allowed" ELSE "refused")

-----------------------------------------------------------------------------
(***************************************************************************)
(* Time, administrators.                                                   *)
(***************************************************************************)

Tick ==
  /\ left' = IF left = 0 THEN 0 ELSE left - 1
  /\ cache' = IF left' = 0 THEN NoSnapshot ELSE cache
  /\ quiet' = IF \E c \in Calls : Outdated(c) THEN 0
              ELSE IF quiet = Ttl THEN Ttl ELSE quiet + 1
  /\ UNCHANGED <<rowVars, day, quotaVars, kind, step, missing, snap, outcome, faults>>

NewDay ==
  /\ day < MaxDay
  /\ day' = day + 1
  /\ UNCHANGED <<rowVars, cacheVars, quotaVars, kind, step, missing, snap, outcome, quiet, faults>>

\* An administrator writes a row; the others are left as they are.
Write(r) ==
  /\ changes < MaxChanges
  /\ changes' = changes + 1
  /\ r \in Rows \ {rows}
  /\ rows' = r
  /\ quiet' = 0
  /\ UNCHANGED <<scope, capability, root, cacheVars, day, quotaVars, kind, step, missing, snap,
                 outcome, faults>>

UpdateAccessStatus == \E s \in Status : Write([rows EXCEPT !.access.status = s])

UpdateLicense == \E t \in Tier : Write([rows EXCEPT !.access.tier = t])

SetOverride(s) == \E o \in Override : Write([rows EXCEPT !.policy.override[s] = o])

\* Assigned, or taken away again.
SetBundle(s) ==
  \E given \in SUBSET {s} : Write([rows EXCEPT !.policy.bundles = (@ \ {s}) \cup given])

SetFlag == \E c \in BOOLEAN : Write([rows EXCEPT !.policy.closed = c])

Change ==
  \/ UpdateAccessStatus
  \/ UpdateLicense
  \/ \E s \in Subject : SetOverride(s) \/ SetBundle(s)
  \/ SetFlag

-----------------------------------------------------------------------------
(***************************************************************************)
(* A decision.                                                             *)
(***************************************************************************)

\* Variant: a snapshot that is used is kept for another while.
GetCachedAndKeep(c) ==
  /\ At(c, "get")
  /\ left > 0
  /\ left' = Ttl
  /\ Apply(c, cache)
  /\ UNCHANGED <<rowVars, cache, day, quotaVars, kind, missing, quiet, faults>>

GetCached(c) ==
  /\ At(c, "get")
  /\ left > 0
  /\ Apply(c, cache)
  /\ UNCHANGED <<rowVars, cacheVars, day, quotaVars, kind, missing, quiet, faults>>

\* Nothing cached, or Redis does not answer.
Miss(c) ==
  /\ At(c, "get")
  /\ missing' = [missing EXCEPT ![c] = Part]
  /\ Goto(c, "read")
  /\ UNCHANGED <<rowVars, cacheVars, day, quotaVars, kind, snap, outcome, quiet, faults>>

\* The queries run at once and are answered in any order.
ReadRows(c, p) ==
  /\ At(c, "read")
  /\ p \in missing[c]
  /\ missing' = [missing EXCEPT ![c] = @ \ {p}]
  /\ snap' = [snap EXCEPT ![c] = [rows |-> [@.rows EXCEPT ![p] = rows[p]],
                                  root |-> root /\ kind[c] = "message",
                                  skip |-> kind[c] = "job",
                                  day  |-> day]]
  /\ IF missing[c] = {p} THEN Goto(c, "store") ELSE UNCHANGED step
  /\ UNCHANGED <<rowVars, cacheVars, day, quotaVars, kind, outcome, quiet, faults>>

\* Variant: a snapshot is kept for longer than it may.
StoreSnapshotLonger(c) ==
  /\ At(c, "store")
  /\ cache' = snap[c] /\ left' = Ttl + 1
  /\ Apply(c, snap[c])
  /\ UNCHANGED <<rowVars, day, quotaVars, kind, missing, quiet, faults>>

\* A snapshot that Redis does not take is used all the same.
StoreSnapshot(c) ==
  /\ At(c, "store")
  /\ \/ cache' = snap[c] /\ left' = Ttl
     \/ UNCHANGED cacheVars
  /\ Apply(c, snap[c])
  /\ UNCHANGED <<rowVars, day, quotaVars, kind, missing, quiet, faults>>

Charge(c) ==
  /\ used' = [used EXCEPT ![snap[c].day] = @ + 1]
  /\ charged' = [charged EXCEPT ![c] = snap[c].day]

\* Variant: the count is compared as it was before the call.
ConsumeQuotaBefore(c) ==
  /\ At(c, "consume")
  /\ Charge(c)
  /\ Finish(c, IF used[snap[c].day] <= Limit THEN "allowed" ELSE "over_quota")
  /\ UNCHANGED <<rowVars, cacheVars, day, kind, missing, quiet, faults>>

\* Variant: the limit itself is no longer granted.
ConsumeQuotaBelow(c) ==
  /\ At(c, "consume")
  /\ Charge(c)
  /\ Finish(c, IF used'[snap[c].day] < Limit THEN "allowed" ELSE "over_quota")
  /\ UNCHANGED <<rowVars, cacheVars, day, kind, missing, quiet, faults>>

\* usageCounter.upsert increments, and returns the new count.
ConsumeQuota(c) ==
  /\ At(c, "consume")
  /\ Charge(c)
  /\ Finish(c, IF used'[snap[c].day] <= Limit THEN "allowed" ELSE "over_quota")
  /\ UNCHANGED <<rowVars, cacheVars, day, kind, missing, quiet, faults>>

\* Postgres throws: the gateway lets the message through, the worker's job
\* fails.  Or the process dies.  The counter may have been incremented.
Fail(c) ==
  /\ ~At(c, "done")
  /\ faults < MaxFaults
  /\ faults' = faults + 1
  /\ \/ Finish(c, "lost")
     \/ /\ step[c] \in {"read", "consume"}
        /\ Finish(c, IF kind[c] = "message" THEN "opened" ELSE "refused")
  /\ missing' = [missing EXCEPT ![c] = {}]
  /\ \/ At(c, "consume") /\ Charge(c)
     \/ UNCHANGED quotaVars
  /\ UNCHANGED <<rowVars, cacheVars, day, kind, quiet>>

Call(c) ==
  \/ GetCached(c)
  \/ Miss(c)
  \/ \E p \in Part : ReadRows(c, p)
  \/ StoreSnapshot(c)
  \/ ConsumeQuota(c)
  \/ Fail(c)

Next ==
  \/ Tick
  \/ NewDay
  \/ Change
  \/ \E c \in Calls : Call(c)

Spec == Init /\ [][Next]_vars

-----------------------------------------------------------------------------
(***************************************************************************)
(* Properties.                                                             *)
(***************************************************************************)

\* An administrator's change takes effect: once the rows, and the calls that
\* had read older ones, have been at rest for as long as a snapshot is kept,
\* whatever is found in the cache is what the rows say.  (DEFAULT_TTL_SECONDS,
\* "safe staleness window"; the window does not begin with the change.)
TakesEffect == quiet = Ttl /\ left > 0 => cache.rows = rows

ChargedOn(d) == {c \in Calls : charged[c] = d}

\* The quota is not exceeded: of the decisions counted on a day, by however
\* many at once, no more than the limit are let through.
QuotaHolds == \A d \in Day : Cardinality({c \in ChargedOn(d) : outcome[c] = "allowed"}) <= Limit

\* Nor is it cut short: who is over the quota had the whole of it, but for
\* what faults have cost.
QuotaIsGranted ==
  \A c \in Calls :
    outcome[c] = "over_quota"
      => Cardinality({b \in ChargedOn(charged[c]) : outcome[b] # "over_quota"}) >= Limit

\* In a group what is granted to a user counts for nothing: the user's own
\* override or bundles turn no refusal into a permission.
UserOpensNoGroup ==
  LET without == [rows.policy EXCEPT !.override["user"] = IF @ = "deny" THEN "deny" ELSE "none",
                                     !.bundles = @ \ {"user"}]
  IN scope = "group" /\ Passes(rows) => Passes([rows EXCEPT !.policy = without])
=============================================================================
