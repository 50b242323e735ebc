--------------------------- MODULE Governance_proofs ---------------------------
(***************************************************************************)
(* Proofs about Governance, for any number of decisions, any policies, any *)
(* limit and any lifetime of snapshots.                                    *)
(***************************************************************************)
EXTENDS Governance, FiniteSetTheorems, TLAPS

USE DEF At, Goto, rowVars, cacheVars, quotaVars

(***************************************************************************)
(* Types.                                                                  *)
(***************************************************************************)
LEMMA RowParts ==
  ASSUME NEW r \in Rows, NEW s \in Rows
  PROVE  /\ r.access \in Accesses /\ r.policy \in Policies
         /\ r["access"] = r.access /\ r["policy"] = r.policy
         /\ r # s => \E p \in Part : r[p] # s[p]
  BY DEF Rows, Part

LEMMA NoSnapshotIsOne == NoSnapshot \in Snapshot
<1>1. PICK a \in Accesses : TRUE
  BY EditsAssumption
<1>2. [access |-> a, policy |-> DefaultPolicy] \in Rows
  BY <1>1, EditsAssumption DEF Rows
<1>3. (CHOOSE r \in Rows : TRUE) \in Rows
  BY <1>2
<1> QED
  BY <1>3, BoundsAssumption DEF NoSnapshot, Snapshot, Day

\* What a call goes by is a snapshot and what it ends in is an outcome.
LEMMA ApplyTypes ==
  ASSUME TypeOK, NEW c \in Calls, NEW s \in Snapshot, Apply(c, s)
  PROVE  /\ step' \in [Calls -> Step]
         /\ snap' \in [Calls -> Snapshot]
         /\ outcome' \in [Calls -> Outcome]
  BY NoSnapshotIsOne DEF Apply, Finish, TypeOK, Step, Outcome

LEMMA FinishTypes ==
  ASSUME TypeOK, NEW c \in Calls, NEW o \in Outcome, Finish(c, o)
  PROVE  /\ step' \in [Calls -> Step]
         /\ snap' \in [Calls -> Snapshot]
         /\ outcome' \in [Calls -> Outcome]
  BY NoSnapshotIsOne DEF Finish, TypeOK, Step

LEMMA ChargeTypes ==
  ASSUME TypeOK, NEW c \in Calls, Charge(c)
  PROVE  used' \in [Day -> Nat] /\ charged' \in [Calls -> Day \cup {NoDay}]
<1>1. snap[c].day \in Day
  BY DEF TypeOK, Snapshot
<1> QED
  BY <1>1 DEF Charge, TypeOK

LEMMA TypesInit == Init => TypeOK
<1> SUFFICES ASSUME Init PROVE TypeOK
  OBVIOUS
<1>1. rows \in Rows
  BY EditsAssumption DEF Init, Rows
<1>2. kind \in [Calls -> {"message", "job"}]
  BY DEF Init
<1>3. day \in Day /\ used \in [Day -> Nat]
  BY BoundsAssumption DEF Init, Day
<1> QED
  BY <1>1, <1>2, <1>3, NoSnapshotIsOne, BoundsAssumption DEF Init, TypeOK, Step, Outcome

\* Whatever administrators change, it is one write.
LEMMA ChangeWrites == Change => \E r : Write(r)
  BY DEF Change, UpdateAccessStatus, UpdateLicense, SetOverride, SetBundle, SetFlag

LEMMA TypesStep == TypeOK /\ [Next]_vars => TypeOK'
<1> SUFFICES ASSUME TypeOK, [Next]_vars PROVE TypeOK'
  OBVIOUS
<1>1. CASE Tick
  <2>1. left' \in 0 .. Ttl /\ quiet' \in 0 .. Ttl
    BY <1>1, BoundsAssumption DEF Tick, TypeOK
  <2> QED
    BY <1>1, <2>1, NoSnapshotIsOne DEF Tick, TypeOK
<1>2. CASE NewDay
  BY <1>2, BoundsAssumption DEF NewDay, TypeOK, Day
<1>3. CASE Change
  <2>1. PICK r : Write(r)
    BY <1>3, ChangeWrites
  <2>2. changes' \in 0 .. MaxChanges /\ quiet' \in 0 .. Ttl
    BY <2>1, BoundsAssumption DEF Write, TypeOK
  <2> QED
    BY <2>1, <2>2 DEF Write, TypeOK
<1>4. ASSUME NEW c \in Calls, Call(c) PROVE TypeOK'
  <2>1. CASE GetCached(c)
    BY <2>1, ApplyTypes DEF GetCached, TypeOK
  <2>2. CASE Miss(c)
    BY <2>2 DEF Miss, TypeOK, Step
  <2>3. ASSUME NEW p \in Part, ReadRows(c, p) PROVE TypeOK'
    <3>1. [snap[c].rows EXCEPT ![p] = rows[p]] \in Rows
      BY DEF Part, TypeOK, Snapshot, Rows
    <3>2. snap' \in [Calls -> Snapshot]
      BY <2>3, <3>1 DEF ReadRows, TypeOK, Snapshot
    <3> QED
      BY <2>3, <3>2 DEF ReadRows, TypeOK, Step
  <2>4. CASE StoreSnapshot(c)
    <3>1. snap[c] \in Snapshot
      BY DEF TypeOK
    <3>2. cache' \in Snapshot /\ left' \in 0 .. Ttl
      BY <2>4, <3>1, BoundsAssumption DEF StoreSnapshot, TypeOK
    <3> QED
      BY <2>4, <3>1, <3>2, ApplyTypes DEF StoreSnapshot, TypeOK
  <2>5. CASE ConsumeQuota(c)
    <3>1. \E o \in Outcome : Finish(c, o)
      BY <2>5 DEF ConsumeQuota, Outcome
    <3> QED
      BY <2>5, <3>1, FinishTypes, ChargeTypes DEF ConsumeQuota, TypeOK
  <2>6. CASE Fail(c)
    <3>1. \E o \in Outcome : Finish(c, o)
      BY <2>6 DEF Fail, Outcome
    <3>2. used' \in [Day -> Nat] /\ charged' \in [Calls -> Day \cup {NoDay}]
      BY <2>6, ChargeTypes DEF Fail, TypeOK
    <3>3. faults' \in 0 .. MaxFaults /\ missing' \in [Calls -> SUBSET Part]
      BY <2>6, BoundsAssumption DEF Fail, TypeOK
    <3> QED
      BY <2>6, <3>1, <3>2, <3>3, FinishTypes DEF Fail, TypeOK
  <2> QED
    BY <1>4, <2>1, <2>2, <2>3, <2>4, <2>5, <2>6 DEF Call
<1>5. CASE UNCHANGED vars
  BY <1>5 DEF vars, TypeOK
<1> QED
  BY <1>1, <1>2, <1>3, <1>4, <1>5 DEF Next

\* Every variable keeps its type.
THEOREM TypeCorrect == Spec => []TypeOK
  BY TypesInit, TypesStep, PTL DEF Spec

(***************************************************************************)
(* Staleness: a snapshot of older rows is gone before the rows have been   *)
(* at rest for Ttl.  It was stored by a call that had read them, and while *)
(* there is such a call the rows are not at rest.                          *)
(***************************************************************************)
Settling ==
  /\ \A c \in Calls : At(c, "store") => missing[c] = {}
  /\ \A c \in Calls : Outdated(c) => quiet = 0
  /\ left > 0 /\ cache.rows # rows => left + quiet <= Ttl

\* A call that is about to store reads no more; one whose rows have not
\* changed and which goes no further is as outdated as before.
LEMMA OutdatedBefore ==
  ASSUME UNCHANGED rows, NEW c \in Calls, UNCHANGED <<step[c], missing[c], snap[c]>>
  PROVE  Outdated(c)' <=> Outdated(c)
  BY DEF Outdated

LEMMA SettlingInit == Init => Settling
  BY DEF Init, Settling, Outdated

\* A call that ends, or goes on to the quota, leaves the others alone.
LEMMA ApplySettles ==
  ASSUME TypeOK, Settling, NEW c \in Calls, NEW s, Apply(c, s) \/ \E o : Finish(c, o),
         UNCHANGED <<rows, quiet>>,
         \A b \in Calls \ {c} : missing'[b] = missing[b]
  PROVE  \A b \in Calls : /\ At(b, "store")' => missing'[b] = {}
                          /\ Outdated(b)' => quiet' = 0
<1>1. step'[c] \notin {"read", "store"}
  BY DEF Apply, Finish, TypeOK
<1>2. \A b \in Calls \ {c} : step'[b] = step[b] /\ snap'[b] = snap[b]
  BY DEF Apply, Finish, TypeOK
<1> QED
  BY <1>1, <1>2, OutdatedBefore DEF Settling, Outdated

\* One tick of both clocks.
LEMMA TickBoth ==
  ASSUME NEW l \in Nat, NEW q \in Nat, NEW r \in Nat, l + q <= Ttl, r <= q + 1
  PROVE  (l - 1) + r <= Ttl
  BY BoundsAssumption

LEMMA SettlingStep == TypeOK /\ Settling /\ [Next]_vars => Settling'
<1> SUFFICES ASSUME TypeOK, Settling, [Next]_vars PROVE Settling'
  OBVIOUS
<1>1. CASE Tick
  <2>1. \A c \in Calls : Outdated(c)' <=> Outdated(c)
    BY <1>1 DEF Tick, Outdated
  <2>2. (\E c \in Calls : Outdated(c)) => quiet' = 0
    BY <1>1 DEF Tick
  <2>3. ASSUME left' > 0, cache'.rows # rows' PROVE left' + quiet' <= Ttl
    <3>1. left > 0 /\ left' = left - 1 /\ cache' = cache /\ rows' = rows
      BY <1>1, <2>3 DEF Tick, TypeOK
    <3>2. left + quiet <= Ttl /\ quiet' <= quiet + 1 /\ quiet' \in Nat
      BY <1>1, <2>3, <3>1, BoundsAssumption DEF Tick, TypeOK, Settling
    <3>3. left \in Nat /\ quiet \in Nat
      BY BoundsAssumption DEF TypeOK
    <3>4. (left - 1) + quiet' <= Ttl
      BY <3>2, <3>3, TickBoth
    <3> QED
      BY <3>1, <3>4
  <2> QED
    BY <1>1, <2>1, <2>2, <2>3 DEF Tick, Settling
<1>2. CASE Change
  <2>1. PICK r : Write(r)
    BY <1>2, ChangeWrites
  <2> QED
    BY <2>1, BoundsAssumption DEF Write, Settling, TypeOK
<1>3. CASE NewDay \/ UNCHANGED vars
  BY <1>3 DEF NewDay, vars, Settling, Outdated
<1>4. ASSUME NEW c \in Calls, Call(c) PROVE Settling'
  <2>1. UNCHANGED <<rows, quiet>>
    BY <1>4 DEF Call, GetCached, Miss, ReadRows, StoreSnapshot, ConsumeQuota, Fail
  <2>2. CASE GetCached(c)
    BY <2>1, <2>2, ApplySettles DEF GetCached, Settling
  <2>3. CASE Miss(c)
    <3>1. ~Outdated(c)' /\ ~At(c, "store")'
      BY <2>3 DEF Miss, Outdated, TypeOK
    <3>2. \A b \in Calls \ {c} : UNCHANGED <<step[b], missing[b], snap[b]>>
      BY <2>3 DEF Miss, TypeOK
    <3> QED
      BY <2>1, <2>3, <3>1, <3>2, OutdatedBefore DEF Miss, Settling
  <2>4. ASSUME NEW p \in Part, ReadRows(c, p) PROVE Settling'
    <3>1. \A b \in Calls \ {c} : UNCHANGED <<step[b], missing[b], snap[b]>>
      BY <2>4 DEF ReadRows, TypeOK
    <3>2. At(c, "store")' => missing'[c] = {}
      BY <2>4 DEF ReadRows, TypeOK
    <3>3. Outdated(c)' => Outdated(c)
      <4>1. \A q \in Part : snap'[c].rows[q] = IF q = p THEN rows[p] ELSE snap[c].rows[q]
        BY <2>4 DEF ReadRows, TypeOK, Snapshot, Rows, Part
      <4>2. At(c, "read") /\ missing'[c] = missing[c] \ {p}
        BY <2>4 DEF ReadRows, TypeOK
      <4> QED
        BY <2>1, <4>1, <4>2 DEF Outdated
    <3> QED
      BY <2>1, <2>4, <3>1, <3>2, <3>3, OutdatedBefore DEF ReadRows, Settling
  <2>5. CASE StoreSnapshot(c)
    <3>1. snap[c].rows \in Rows /\ rows \in Rows
      BY DEF TypeOK, Snapshot
    <3>2. snap[c].rows # rows => quiet = 0
      BY <2>5, <3>1, RowParts DEF StoreSnapshot, Settling, Outdated
    <3>3. left' > 0 /\ cache'.rows # rows' => left' + quiet' <= Ttl
      BY <2>1, <2>5, <3>2, BoundsAssumption DEF StoreSnapshot, Settling
    <3> QED
      BY <2>1, <2>5, <3>3, ApplySettles DEF StoreSnapshot, Settling
  <2>6. CASE ConsumeQuota(c) \/ Fail(c)
    <3>1. \E o : Finish(c, o)
      BY <2>6 DEF ConsumeQuota, Fail
    <3>2. \A b \in Calls \ {c} : missing'[b] = missing[b]
      BY <2>6 DEF ConsumeQuota, Fail, TypeOK
    <3>3. UNCHANGED <<cache, left>>
      BY <2>6 DEF ConsumeQuota, Fail
    <3> QED
      BY <2>1, <3>1, <3>2, <3>3, ApplySettles DEF Settling
  <2> QED
    BY <1>4, <2>2, <2>3, <2>4, <2>5, <2>6 DEF Call
<1> QED
  BY <1>1, <1>2, <1>3, <1>4 DEF Next

\* However reads, stores and changes overlap, a cached snapshot says what the
\* rows say once they have been at rest for its lifetime.
THEOREM ChangesTakeEffect == Spec => []TakesEffect
<1>1. TypeOK /\ Settling => TakesEffect
  BY BoundsAssumption DEF TypeOK, Settling, TakesEffect
<1> QED
  BY <1>1, TypesInit, TypesStep, SettlingInit, SettlingStep, PTL DEF Spec

(***************************************************************************)
(* The quota.  The counter of a day is at least the number of decisions    *)
(* allowed on it, and until the limit is reached it is at most the number  *)
(* of those that were not turned away.                                     *)
(***************************************************************************)
Allowed(d) == {c \in ChargedOn(d) : outcome[c] = "allowed"}
Granted(d) == {c \in ChargedOn(d) : outcome[c] # "over_quota"}

DayCounted(d) ==
  /\ Cardinality(Allowed(d)) <= used[d]
  /\ Cardinality(Allowed(d)) <= Limit
  /\ used[d] <= Cardinality(Granted(d)) \/ Limit <= Cardinality(Granted(d))

ChargedAtTheEnd(c) ==
  /\ charged[c] # NoDay => At(c, "done")
  /\ outcome[c] = "over_quota" => charged[c] \in Day

OverTheLimit(c, d) ==
  outcome[c] = "over_quota" /\ charged[c] = d => Limit <= Cardinality(Granted(d))

Counted ==
  /\ \A d \in Day : DayCounted(d)
  /\ \A c \in Calls : ChargedAtTheEnd(c)
  /\ \A c \in Calls, d \in Day : OverTheLimit(c, d)

LEMMA Sizes ==
  ASSUME NEW d
  PROVE  /\ IsFiniteSet(Allowed(d)) /\ Cardinality(Allowed(d)) \in Nat
         /\ IsFiniteSet(Granted(d)) /\ Cardinality(Granted(d)) \in Nat
<1>1. Allowed(d) \subseteq Calls /\ Granted(d) \subseteq Calls
  BY DEF Allowed, Granted, ChargedOn
<1> QED
  BY <1>1, CallsAssumption, FS_Subset, FS_CardinalityType

LEMMA CountedInit == Init => Counted
<1> SUFFICES ASSUME Init PROVE Counted
  OBVIOUS
<1>1. \A d \in Day : Allowed(d) = {} /\ Granted(d) = {}
  BY NoDayAssumption DEF Init, Allowed, Granted, ChargedOn, Day
<1>2. \A d \in Day : used[d] = 0
  BY DEF Init
<1>3. \A c \in Calls : charged[c] = NoDay /\ outcome[c] # "over_quota"
  BY DEF Init
<1> QED
  BY <1>1, <1>2, <1>3, FS_EmptySet, BoundsAssumption
     DEF Counted, DayCounted, ChargedAtTheEnd, OverTheLimit

\* A decision that ends uncharged changes no count.
LEMMA Uncharged ==
  ASSUME TypeOK, Counted, UNCHANGED <<used, charged>>, NEW c \in Calls, ~At(c, "done"),
         \A b \in Calls \ {c} : step'[b] = step[b] /\ outcome'[b] = outcome[b],
         outcome'[c] # "over_quota"
  PROVE  Counted'
<1>1. charged[c] = NoDay
  BY DEF Counted, ChargedAtTheEnd
<1>2. \A b \in Calls : ChargedAtTheEnd(b)'
  BY <1>1 DEF Counted, ChargedAtTheEnd
<1>3. ASSUME NEW d \in Day
      PROVE  DayCounted(d)' /\ \A b \in Calls : OverTheLimit(b, d)'
  <2>1. Allowed(d)' = Allowed(d) /\ Granted(d)' = Granted(d)
    BY <1>1, NoDayAssumption DEF Allowed, Granted, ChargedOn, Day
  <2>2. DayCounted(d)'
    BY <2>1 DEF Counted, DayCounted
  <2>3. ASSUME NEW b \in Calls PROVE OverTheLimit(b, d)'
    BY <1>1, <2>1, NoDayAssumption DEF Counted, OverTheLimit, Day
  <2> QED
    BY <2>2, <2>3
<1> QED
  BY <1>2, <1>3 DEF Counted

\* A decision that is charged and let through, or lost, counts on both sides.
\* One that is turned away finds the limit reached.
LEMMA Charged ==
  ASSUME TypeOK, Counted, NEW c \in Calls, At(c, "consume"), NEW o \in Outcome,
         Finish(c, o), Charge(c),
         o = "allowed" => used'[snap[c].day] <= Limit,
         o = "over_quota" => used'[snap[c].day] > Limit
  PROVE  Counted'
<1> DEFINE d0 == snap[c].day
<1>1. d0 \in Day /\ d0 # NoDay /\ charged[c] = NoDay
  BY NoDayAssumption DEF TypeOK, Snapshot, Counted, ChargedAtTheEnd, Day
<1>2. PICK d \in Day : d = d0
  BY <1>1
<1>3. /\ charged' = [charged EXCEPT ![c] = d] /\ used' = [used EXCEPT ![d] = @ + 1]
      /\ outcome' = [outcome EXCEPT ![c] = o] /\ step' = [step EXCEPT ![c] = "done"]
  BY <1>2 DEF Charge, Finish
<1>4. \A e \in Day \ {d} :
        Allowed(e)' = Allowed(e) /\ Granted(e)' = Granted(e) /\ used'[e] = used[e]
  BY <1>1, <1>2, <1>3, NoDayAssumption DEF Allowed, Granted, ChargedOn, Day, TypeOK
<1>5. Allowed(d)' = IF o = "allowed" THEN Allowed(d) \cup {c} ELSE Allowed(d)
  BY <1>1, <1>2, <1>3 DEF Allowed, ChargedOn, TypeOK
<1>6. Granted(d)' = IF o # "over_quota" THEN Granted(d) \cup {c} ELSE Granted(d)
  BY <1>1, <1>2, <1>3 DEF Granted, ChargedOn, TypeOK
<1>7. c \notin Allowed(d) /\ c \notin Granted(d)
  BY <1>1, <1>2 DEF Allowed, Granted, ChargedOn
<1>8. /\ Cardinality(Allowed(d)') = Cardinality(Allowed(d)) + (IF o = "allowed" THEN 1 ELSE 0)
      /\ Cardinality(Granted(d)') = Cardinality(Granted(d)) + (IF o = "over_quota" THEN 0 ELSE 1)
  <2>1. /\ Cardinality(Allowed(d) \cup {c}) = Cardinality(Allowed(d)) + 1
        /\ Cardinality(Granted(d) \cup {c}) = Cardinality(Granted(d)) + 1
    BY <1>7, Sizes, FS_AddElement
  <2>2. Cardinality(Allowed(d)) \in Nat /\ Cardinality(Granted(d)) \in Nat
    BY Sizes
  <2> QED
    BY <1>5, <1>6, <2>1, <2>2
<1>9. used'[d] = used[d] + 1 /\ used[d] \in Nat /\ Limit \in Nat
  BY <1>3, BoundsAssumption DEF TypeOK
<1>10. /\ Cardinality(Allowed(d)') <= used'[d]
       /\ Cardinality(Allowed(d)') <= Limit
       /\ used'[d] <= Cardinality(Granted(d)') \/ Limit <= Cardinality(Granted(d)')
       /\ o = "over_quota" => Limit <= Cardinality(Granted(d)')
       /\ Limit <= Cardinality(Granted(d)) => Limit <= Cardinality(Granted(d)')
  <2>1. /\ Cardinality(Allowed(d)) <= used[d] /\ Cardinality(Allowed(d)) <= Limit
        /\ used[d] <= Cardinality(Granted(d)) \/ Limit <= Cardinality(Granted(d))
    BY DEF Counted, DayCounted
  <2>2. (o = "allowed" => used'[d] <= Limit) /\ (o = "over_quota" => used'[d] > Limit)
    BY <1>2
  <2> QED
    BY <1>8, <1>9, <2>1, <2>2, Sizes
<1>11. \A b \in Calls : ChargedAtTheEnd(b)'
  BY <1>1, <1>2, <1>3 DEF Counted, ChargedAtTheEnd, TypeOK
<1>12. ASSUME NEW e \in Day PROVE DayCounted(e)'
  <2>1. CASE e = d
    BY <1>10, <2>1 DEF DayCounted
  <2>2. CASE e # d
    BY <1>4, <2>2 DEF Counted, DayCounted
  <2> QED
    BY <2>1, <2>2
<1>13. ASSUME NEW b \in Calls, NEW e \in Day PROVE OverTheLimit(b, e)'
  <2> SUFFICES ASSUME outcome'[b] = "over_quota", charged'[b] = e
               PROVE  Limit <= Cardinality(Granted(e)')
    BY DEF OverTheLimit
  <2>1. CASE b = c
    <3>1. o = "over_quota" /\ e = d
      BY <1>3, <2>1 DEF TypeOK
    <3> QED
      BY <1>10, <3>1
  <2>2. CASE b # c
    <3>1. outcome[b] = "over_quota" /\ charged[b] = e
      BY <1>3, <2>2 DEF TypeOK
    <3>2. Limit <= Cardinality(Granted(e))
      BY <3>1 DEF Counted, OverTheLimit
    <3>3. CASE e = d
      BY <1>10, <3>2, <3>3
    <3>4. CASE e # d
      BY <1>4, <3>2, <3>4
    <3> QED
      BY <3>3, <3>4
  <2> QED
    BY <2>1, <2>2
<1> QED
  BY <1>11, <1>12, <1>13 DEF Counted

LEMMA CountedStep == TypeOK /\ Counted /\ [Next]_vars => Counted'
<1> SUFFICES ASSUME TypeOK, Counted, [Next]_vars PROVE Counted'
  OBVIOUS
<1>1. CASE Tick \/ NewDay \/ Change \/ UNCHANGED vars
  <2>1. UNCHANGED <<used, charged, step, outcome>>
    BY <1>1, ChangeWrites DEF Tick, NewDay, Write, vars
  <2> QED
    BY <2>1 DEF Counted, DayCounted, ChargedAtTheEnd, OverTheLimit, Allowed, Granted, ChargedOn
<1>2. ASSUME NEW c \in Calls, Call(c) PROVE Counted'
  <2>1. ASSUME NEW s, Apply(c, s), UNCHANGED <<used, charged>>, ~At(c, "done") PROVE Counted'
    <3>1. \A b \in Calls \ {c} : step'[b] = step[b] /\ outcome'[b] = outcome[b]
      BY <2>1 DEF Apply, Finish, TypeOK
    <3>2. outcome'[c] # "over_quota" \/ outcome'[c] = outcome[c]
      BY <2>1 DEF Apply, Finish, TypeOK
    <3>3. outcome[c] # "over_quota"
      BY <2>1, NoDayAssumption DEF Counted, ChargedAtTheEnd, Day
    <3> QED
      BY <2>1, <3>1, <3>2, <3>3, Uncharged
  <2>2. CASE GetCached(c)
    BY <2>1, <2>2 DEF GetCached
  <2>3. CASE StoreSnapshot(c)
    BY <2>1, <2>3 DEF StoreSnapshot
  <2>4. CASE Miss(c) \/ \E p \in Part : ReadRows(c, p)
    <3>1. /\ UNCHANGED <<used, charged, outcome>> /\ ~At(c, "done")
          /\ \A b \in Calls \ {c} : step'[b] = step[b]
      BY <2>4 DEF Miss, ReadRows, TypeOK
    <3>2. outcome[c] # "over_quota"
      BY <3>1, NoDayAssumption DEF Counted, ChargedAtTheEnd, Day
    <3> QED
      BY <3>1, <3>2, Uncharged
  <2>5. CASE ConsumeQuota(c)
    <3>1. used'[snap[c].day] \in Nat /\ Limit \in Nat
      BY <2>5, ChargeTypes, BoundsAssumption DEF ConsumeQuota, TypeOK, Snapshot
    <3>2. CASE used'[snap[c].day] <= Limit
      BY <2>5, <3>1, <3>2, Charged DEF ConsumeQuota, Outcome
    <3>3. CASE used'[snap[c].day] > Limit
      BY <2>5, <3>1, <3>3, Charged DEF ConsumeQuota, Outcome
    <3> QED
      BY <3>1, <3>2, <3>3
  <2>6. CASE Fail(c)
    <3>1. PICK o \in {"lost", "opened", "refused"} : Finish(c, o)
      BY <2>6 DEF Fail
    <3>2. CASE At(c, "consume") /\ Charge(c)
      BY <3>1, <3>2, Charged DEF Outcome
    <3>3. CASE UNCHANGED <<used, charged>>
      BY <2>6, <3>1, <3>3, Uncharged DEF Fail, Finish, TypeOK
    <3> QED
      BY <2>6, <3>2, <3>3 DEF Fail
  <2> QED
    BY <1>2, <2>2, <2>3, <2>4, <2>5, <2>6 DEF Call
<1> QED
  BY <1>1, <1>2 DEF Next

LEMMA Counts == Spec => []Counted
  BY TypesInit, TypesStep, CountedInit, CountedStep, PTL DEF Spec

\* Of the decisions counted on a day at most Limit are let through, however
\* many are made at once.
THEOREM QuotaIsKept == Spec => []QuotaHolds
<1>1. Counted => QuotaHolds
  BY DEF Counted, DayCounted, QuotaHolds, Allowed
<1> QED
  BY <1>1, Counts, PTL

\* Nobody is turned away before Limit decisions of the day were granted or
\* lost to faults.
THEOREM QuotaIsNotCut == Spec => []QuotaIsGranted
<1>1. Counted => QuotaIsGranted
  <2> SUFFICES ASSUME Counted, NEW c \in Calls, outcome[c] = "over_quota"
               PROVE  Cardinality(Granted(charged[c])) >= Limit
    BY DEF QuotaIsGranted, Granted
  <2>1. PICK d \in Day : charged[c] = d /\ Limit <= Cardinality(Granted(d))
    BY DEF Counted, ChargedAtTheEnd, OverTheLimit
  <2>2. Cardinality(Granted(d)) \in Nat /\ Limit \in Nat
    BY Sizes, BoundsAssumption
  <2> QED
    BY <2>1, <2>2
<1> QED
  BY <1>1, Counts, PTL

(***************************************************************************)
(* Groups.                                                                 *)
(***************************************************************************)

\* Whatever a user has been granted, it opens nothing in a group.
THEOREM GroupsAreTheirOwn == Spec => []UserOpensNoGroup
<1>1. TypeOK => UserOpensNoGroup
  <2> SUFFICES ASSUME TypeOK, scope = "group", Passes(rows)
               PROVE  LET without ==
                            [rows.policy EXCEPT
                               !.override["user"] = IF @ = "deny" THEN "deny" ELSE "none",
                               !.bundles = @ \ {"user"}]
                      IN Passes([rows EXCEPT !.policy = without])
    BY DEF UserOpensNoGroup
  <2>1. rows.policy \in Policy
    BY EditsAssumption DEF TypeOK, Rows
  <2> QED
    BY <2>1 DEF TypeOK, Rows, Policy, Subject, Passes, Entitled, ExplicitDeny, ExplicitAllow,
                TierGrants, BundleGrants
<1> QED
  BY <1>1, TypesInit, TypesStep, PTL DEF Spec
=============================================================================
