--------------------------- MODULE Runtime_proofs ---------------------------
(***************************************************************************)
(* Proofs about Runtime, for any services, dependencies and resolvers, and *)
(* any number of runs of either script and of faults.                      *)
(***************************************************************************)
EXTENDS Runtime, SequenceTheorems, TLAPS

-----------------------------------------------------------------------------
(***************************************************************************)
(* Types.                                                                  *)
(***************************************************************************)

Working == {"checking", "infra", "compose", "waiting", "resolvers", "spawned"}
Fresh == {"idle", "checking", "skipping", "infra", "compose", "waiting", "resolvers"}
StartStage == Working \cup {"idle", "skipping", "running", "cleaning", "gone", "killed", "orphaned"}
StopStage == {"idle", "services", "resolvers", "unlink", "ports", "gone", "killed"}

StartRun == [stage : StartStage, mode : Modes \cup {None}, infra : InfraModes \cup {None},
             todo : Seq(Deps), before : BOOLEAN, owned : SUBSET Deps, rtodo : SUBSET Resolvers,
             delegated : SUBSET Resolvers, spawned : SUBSET Procs, skip : SUBSET Services]
StopRun == [stage : StopStage, mode : Modes \cup {None}, seen : Record \cup {None, Torn},
            todo : SUBSET Procs]

\* A dependency is dealt with only while one is left.
TodoLeft ==
  \A r \in Starts : start[r].stage \in {"compose", "waiting"} => start[r].todo # <<>>

TypeOK ==
  /\ file \in [Modes -> Record \cup {None, Torn}]
  /\ up \subseteq Procs /\ serving \subseteq Procs /\ doomed \subseteq Procs
  /\ bound \in [Ported -> Procs \cup {None, Foreign}]
  /\ dep \in [Deps -> {"absent", "starting", "compose", "restarting", "external"}]
  /\ upBy \in [Deps -> Starts \cup {None}]
  /\ res \in [Resolvers -> {"down", "starting", "up"}]
  /\ resBy \in [Resolvers -> Starts \cup {None}]
  /\ selected \subseteq Resolvers
  /\ start \in [Starts -> StartRun]
  /\ stop \in [Stops -> StopRun]
  /\ faults \in Nat
  /\ TodoLeft

(***************************************************************************)
(* What has been spawned, and who wrote the files.                         *)
(***************************************************************************)

\* A start has no processes but those it has spawned; once it has cleaned up
\* they have been told to stop.
Spawned ==
  /\ \A p \in up : p \in start[By(p)].spawned
  /\ \A r \in Starts :
       /\ \A p \in start[r].spawned : By(p) = r
       /\ start[r].stage \in Fresh => start[r].spawned = {}
       /\ start[r].stage # "idle" => start[r].mode \in Modes
       /\ start[r].stage \in {"cleaning", "gone"} => start[r].spawned \cap up \subseteq doomed

\* A state file is the record of a start of its mode that has spawned all it
\* ever will.
FilesAreTrue ==
  \A m \in Modes : file[m] \notin {None, Torn} =>
    LET r == file[m].by
    IN  /\ start[r].mode = m /\ file[m].pids = start[r].spawned
        /\ start[r].stage \in {"running", "cleaning", "gone", "killed"}

\* What a stop goes through is of its mode.
TodoIsOfMode ==
  \A s \in Stops : \A p \in stop[s].todo :
    start[By(p)].mode = stop[s].mode /\ start[By(p)].stage # "idle"

(***************************************************************************)
(* What is claimed to have been brought up by a start was, unless an       *)
(* operator meddled with it, or the start has misread that it was there.   *)
(***************************************************************************)

Known(r, d) == HasContainer(d) => upBy[d] # None \/ d \in mixed \/ <<r, d>> \in misread
KnownResolver(r, x) == res[x] # "down" => resBy[x] # None \/ <<r, x>> \in misread

ClaimsAreKnown ==
  /\ \A r \in Starts :
       /\ \A d \in start[r].owned : Known(r, d)
       /\ \A x \in start[r].delegated : KnownResolver(r, x)
       /\ start[r].stage \in {"compose", "waiting"} /\ ~start[r].before =>
            Known(r, Head(start[r].todo))
  /\ \A m \in Modes : file[m] \notin {None, Torn} =>
       /\ \A d \in file[m].owned : Known(file[m].by, d)
       /\ \A x \in file[m].delegated : KnownResolver(file[m].by, x)
  /\ \A s \in Stops : stop[s].stage \in {"services", "resolvers"} =>
       /\ stop[s].seen \notin {None, Torn}
       /\ \A d \in stop[s].seen.owned : Known(stop[s].seen.by, d)
       /\ \A x \in stop[s].seen.delegated : KnownResolver(stop[s].seen.by, x)

(***************************************************************************)
(* A start that nobody disturbed.                                          *)
(***************************************************************************)

Undisturbed(r) == r \notin disturbed
Live(r) == {p \in up \ doomed : By(p) = r}

\* It has a stack of its own.
Holds(r) == Undisturbed(r) /\ (InStage(r, "running") \/ (InStage(r, "killed") /\ Live(r) # {}))

\* While it works, nobody else does, nor is there another stack.
Alone ==
  \A r \in Starts : Undisturbed(r) /\ start[r].stage \in Working =>
    /\ ActiveStops = {}
    /\ \A q \in Starts \ {r} : ~ActiveStart(q) /\ ~Holds(q)

\* The stack is on file, and no other run is about to remove the file.
StackIsHeld ==
  \A r \in Starts : Holds(r) =>
    LET m == start[r].mode
    IN  /\ file[m] \notin {None, Torn} /\ file[m].by = r
        /\ \A q \in Starts \ {r} :
             /\ start[q].stage \in Ended \cup {"running", "skipping", "cleaning"}
             /\ start[q].stage = "cleaning" => start[q].mode # m
             /\ ~Holds(q)
        /\ \A s \in Stops :
             stop[s].mode = m /\ stop[s].stage \in {"services", "resolvers", "unlink"} =>
               InStage(r, "killed") /\ stop[s].stage = "services" /\ Live(r) \subseteq stop[s].todo

\* What it has brought up is among what it will record, and then on file.
Recorded(r, owned, delegated) ==
  /\ \A d \in Deps : HasContainer(d) /\ upBy[d] = r =>
       \/ d \in owned \cup mixed \/ <<r, d>> \in misread
       \/ InStage(r, "waiting") /\ ~start[r].before /\ d = Head(start[r].todo)
  /\ \A x \in Resolvers : res[x] # "down" /\ resBy[x] = r => x \in delegated

BroughtUpIsRecorded ==
  \A r \in Starts : Undisturbed(r) =>
    /\ start[r].stage \in Fresh \cup {"spawned"} => Recorded(r, start[r].owned, start[r].delegated)
    /\ InStage(r, "running") =>
         Recorded(r, file[start[r].mode].owned, file[start[r].mode].delegated)
    /\ InStage(r, "compose") /\ start[r].before =>
         HasContainer(Head(start[r].todo)) \/ Head(start[r].todo) \in mixed

Others(r) == \A q \in Starts \ {r} : start'[q] = start[q]

\* What a start's run keeps, but for its stage and what this step adds.
Keeps(r, owned, delegated) ==
  /\ start' \in [Starts -> StartRun] /\ Others(r)
  /\ start'[r].mode = start[r].mode
  /\ start'[r].owned = start[r].owned \cup owned
  /\ start'[r].delegated = start[r].delegated \cup delegated

\* It ends, runs or cleans up.
Settles(r, st) ==
  /\ start' \in [Starts -> StartRun] /\ Others(r)
  /\ start'[r].mode = start[r].mode /\ start'[r].spawned = start[r].spawned
  /\ start'[r].stage = st /\ start'[r].owned = {} /\ start'[r].delegated = {}

LEMMA FieldsTyped ==
  ASSUME NEW run \in StartRun
  PROVE  /\ \A v \in StartStage : [run EXCEPT !.stage = v] \in StartRun
         /\ \A v \in Modes \cup {None} : [run EXCEPT !.mode = v] \in StartRun
         /\ \A v \in InfraModes \cup {None} : [run EXCEPT !.infra = v] \in StartRun
         /\ \A v \in Seq(Deps) : [run EXCEPT !.todo = v] \in StartRun
         /\ \A v \in BOOLEAN : [run EXCEPT !.before = v] \in StartRun
         /\ \A v \in SUBSET Deps : [run EXCEPT !.owned = v] \in StartRun
         /\ \A v \in SUBSET Resolvers : [run EXCEPT !.rtodo = v] \in StartRun
         /\ \A v \in SUBSET Resolvers : [run EXCEPT !.delegated = v] \in StartRun
         /\ \A v \in SUBSET Procs : [run EXCEPT !.spawned = v] \in StartRun
         /\ \A v \in SUBSET Services : [run EXCEPT !.skip = v] \in StartRun
BY DEF StartRun

LEMMA RunChanges ==
  ASSUME TypeOK, NEW r \in Starts, NEW run \in StartRun, SetStart(r, run)
  PROVE  start' \in [Starts -> StartRun] /\ start'[r] = run /\ Others(r)
BY DEF TypeOK, SetStart, Others

LEMMA StopChanges ==
  ASSUME TypeOK, NEW s \in Stops, NEW run \in StopRun, SetStop(s, run)
  PROVE  /\ stop' \in [Stops -> StopRun] /\ stop'[s] = run
         /\ \A t \in Stops \ {s} : stop'[t] = stop[t]
BY DEF TypeOK, SetStop

LEMMA IdleIsRun == IdleStart \in StartRun /\ IdleStop \in StopRun
<1>1. <<>> \in Seq(Deps)
  BY EmptySeq
<1>2. IdleStart \in StartRun
  BY <1>1 DEF IdleStart, StartRun, StartStage
<1>3. IdleStop \in StopRun
  BY DEF IdleStop, StopRun, StopStage
<1> QED
  BY <1>2, <1>3

LEMMA StageIs ==
  ASSUME TypeOK, NEW r \in Starts, NEW st \in Ended \cup {"running", "cleaning"}, Stage(r, st)
  PROVE  Settles(r, st)
<1>1. SetStart(r, Kept(r, st))
  BY DEF Stage
<1>2. /\ Kept(r, st) \in StartRun
      /\ Kept(r, st).stage = st /\ Kept(r, st).mode = start[r].mode
      /\ Kept(r, st).spawned = start[r].spawned
      /\ Kept(r, st).owned = {} /\ Kept(r, st).delegated = {}
  BY IdleIsRun DEF Kept, IdleStart, StartRun, StartStage, Ended, TypeOK
<1> QED
  BY <1>1, <1>2, RunChanges DEF Settles

LEMMA GoesOn ==
  ASSUME TypeOK, NEW r \in Starts, NEW st \in StartStage \ (Ended \cup {"running", "cleaning"}),
         Stage(r, st)
  PROVE  /\ Keeps(r, {}, {}) /\ start'[r] = [start[r] EXCEPT !.stage = st]
<1>1. SetStart(r, [start[r] EXCEPT !.stage = st])
  BY DEF Stage
<1>2. start[r] \in StartRun
  BY DEF TypeOK
<1>3. [start[r] EXCEPT !.stage = st] \in StartRun
  BY <1>2 DEF StartRun
<1>4. start' \in [Starts -> StartRun] /\ start'[r] = [start[r] EXCEPT !.stage = st] /\ Others(r)
  BY <1>1, <1>3, RunChanges
<1> QED
  BY <1>2, <1>4 DEF Keeps, StartRun

LEMMA InspectIs ==
  ASSUME TypeOK, NEW r \in Starts, NEW m \in Modes, Inspect(r, m)
  PROVE  /\ start' \in [Starts -> StartRun] /\ Others(r)
         /\ start'[r].mode = m /\ start'[r].spawned = start[r].spawned
         /\ start'[r].owned = start[r].owned /\ start'[r].delegated = start[r].delegated
         /\ start'[r].stage \in {"gone", "skipping", "checking"}
         /\ start'[r].stage = "checking" => \A n \in Modes : ~IsStateAlive(file[n])
<1> DEFINE Blocks(k) == ModeOrder[k] # m /\ IsStateAlive(file[ModeOrder[k]])
<1> DEFINE st == IF \E k \in DOMAIN ModeOrder : Blocks(k) THEN "gone"
                 ELSE IF IsStateAlive(file[m]) THEN "skipping" ELSE "checking"
<1>1. SetStart(r, [start[r] EXCEPT !.mode = m, !.stage = st])
  BY DEF Inspect
<1>2. st \in {"gone", "skipping", "checking"}
  OBVIOUS
<1>3. st = "checking" => \A n \in Modes : ~IsStateAlive(file[n])
  BY DEF Modes
<1> HIDE DEF st
<1>4. start[r] \in StartRun
  BY DEF TypeOK
<1>5. [start[r] EXCEPT !.mode = m, !.stage = st] \in StartRun
  <2>1. [start[r] EXCEPT !.mode = m] \in StartRun
    BY <1>4, FieldsTyped
  <2>2. [[start[r] EXCEPT !.mode = m] EXCEPT !.stage = st] \in StartRun
    BY <1>2, <2>1, FieldsTyped DEF StartStage, Working
  <2> QED
    BY <2>2
<1>6. /\ start' \in [Starts -> StartRun] /\ Others(r)
      /\ start'[r] = [start[r] EXCEPT !.mode = m, !.stage = st]
  BY <1>1, <1>5, RunChanges
<1>7. /\ start'[r].mode = m /\ start'[r].spawned = start[r].spawned /\ start'[r].stage = st
      /\ start'[r].owned = start[r].owned /\ start'[r].delegated = start[r].delegated
  BY <1>4, <1>6 DEF StartRun
<1> QED
  BY <1>2, <1>3, <1>6, <1>7

LEMMA PrecheckIs ==
  ASSUME RuntimeAssumption, TypeOK, NEW r \in Starts, NEW i \in InfraModes, Precheck(r, i)
  PROVE  \/ Settles(r, "gone")
         \/ Keeps(r, {}, {}) /\ start'[r].stage = "infra" /\ start'[r].spawned = start[r].spawned
<1>0. PICK known \in SUBSET (PortOwners \ {Foreign}) :
        LET same == {v \in Ported : PrecheckStatus(v, known) = "already_running_same_service"}
        IN  \/ Stage(r, "gone")
            \/ SetStart(r, [start[r] EXCEPT !.stage = "infra", !.infra = i, !.todo = DepOrder,
                                             !.skip = same])
  BY DEF Precheck
<1> DEFINE same == {v \in Ported : PrecheckStatus(v, known) = "already_running_same_service"}
<1> DEFINE run == [start[r] EXCEPT !.stage = "infra", !.infra = i, !.todo = DepOrder,
                                   !.skip = same]
<1>1. CASE Stage(r, "gone")
  BY <1>1, StageIs DEF Ended
<1>2. CASE SetStart(r, run)
  <2>1. start[r] \in StartRun /\ DepOrder \in Seq(Deps) /\ same \in SUBSET Services
    BY DEF TypeOK, RuntimeAssumption
  <2> HIDE DEF same
  <2>2. run \in StartRun
    <3>1. [start[r] EXCEPT !.stage = "infra"] \in StartRun
      BY <2>1, FieldsTyped DEF StartStage, Working
    <3>2. [[start[r] EXCEPT !.stage = "infra"] EXCEPT !.infra = i] \in StartRun
      BY <3>1, FieldsTyped
    <3>3. [start[r] EXCEPT !.stage = "infra", !.infra = i, !.todo = DepOrder] \in StartRun
      BY <2>1, <3>2, FieldsTyped
    <3>4. run \in StartRun
      BY <2>1, <3>3, FieldsTyped
    <3> QED
      BY <3>4
  <2>3. start' \in [Starts -> StartRun] /\ start'[r] = run /\ Others(r)
    BY <1>2, <2>2, RunChanges
  <2> QED
    BY <2>1, <2>3 DEF Keeps, StartRun
<1> QED
  BY <1>0, <1>1, <1>2

LEMMA NextDependencyIs ==
  ASSUME TypeOK, NEW r \in Starts, start[r].todo # <<>>, NEW more \in SUBSET Deps,
         NextDependency(r, more)
  PROVE  /\ Keeps(r, more, {}) /\ start'[r].stage = "infra"
         /\ start'[r].spawned = start[r].spawned
<1> DEFINE run == [start[r] EXCEPT !.stage = "infra", !.todo = Tail(@), !.before = FALSE,
                                   !.owned = @ \cup more]
<1>1. start[r] \in StartRun
  BY DEF TypeOK
<1>2. Tail(start[r].todo) \in Seq(Deps) /\ start[r].owned \cup more \in SUBSET Deps
  BY <1>1, HeadTailProperties DEF StartRun
<1>3. run \in StartRun
  <2>1. [start[r] EXCEPT !.stage = "infra"] \in StartRun
    BY <1>1, FieldsTyped DEF StartStage, Working
  <2>2. [start[r] EXCEPT !.stage = "infra", !.todo = Tail(@)] \in StartRun
    BY <1>1, <1>2, <2>1, FieldsTyped DEF StartRun
  <2>3. [start[r] EXCEPT !.stage = "infra", !.todo = Tail(@), !.before = FALSE] \in StartRun
    BY <2>2, FieldsTyped
  <2> QED
    BY <1>1, <1>2, <2>3, FieldsTyped DEF StartRun
<1>4. start' \in [Starts -> StartRun] /\ start'[r] = run /\ Others(r)
  BY <1>3, RunChanges DEF NextDependency
<1> QED
  BY <1>1, <1>4 DEF Keeps, StartRun

LEMMA DiscoverIs ==
  ASSUME TypeOK, NEW r \in Starts, Discover(r)
  PROVE  \/ Settles(r, "gone")
         \/ /\ Keeps(r, {}, {}) /\ start'[r].spawned = start[r].spawned
            /\ \/ start'[r].stage = "infra"
               \/ /\ start'[r].stage = "compose" /\ start'[r].todo = start[r].todo
                  /\ start[r].todo # <<>>
                  /\ \E v \in Views(Head(start[r].todo)) :
                       start'[r].before = v.running /\ Misread(r, Head(start[r].todo), v.running)
<1> DEFINE d == Head(start[r].todo)
<1> DEFINE run(v) == [start[r] EXCEPT !.stage = "compose", !.before = v.running]
<1>1. CASE Stage(r, "gone")
  BY <1>1, StageIs DEF Ended
<1>2. CASE NextDependency(r, {})
  BY <1>2, NextDependencyIs DEF Discover
<1>3. ASSUME NEW v \in Views(d), SetStart(r, run(v)), Misread(r, d, v.running)
      PROVE  /\ Keeps(r, {}, {}) /\ start'[r].spawned = start[r].spawned
             /\ start'[r].stage = "compose" /\ start'[r].todo = start[r].todo
             /\ start[r].todo # <<>>
             /\ start'[r].before = v.running
  <2>1. start[r] \in StartRun /\ v.running \in BOOLEAN
    BY DEF TypeOK, Views
  <2>2. [start[r] EXCEPT !.stage = "compose"] \in StartRun
    BY <2>1, FieldsTyped DEF StartStage, Working
  <2>3. run(v) \in StartRun
    BY <2>1, <2>2, FieldsTyped
  <2>4. start' \in [Starts -> StartRun] /\ start'[r] = run(v) /\ Others(r)
    BY <1>3, <2>3, RunChanges
  <2>5. start[r].todo # <<>>
    BY DEF Discover
  <2> QED
    BY <2>1, <2>4, <2>5 DEF Keeps, StartRun
<1> QED
  BY <1>1, <1>2, <1>3 DEF Discover

LEMMA ComposeUpIs ==
  ASSUME TypeOK, NEW r \in Starts, ComposeUp(r)
  PROVE  \/ Settles(r, "gone")
         \/ /\ Keeps(r, {}, {}) /\ start'[r].spawned = start[r].spawned
            /\ start'[r].stage = "waiting" /\ start'[r].todo = start[r].todo
            /\ start'[r].before = start[r].before
<1>1. CASE Stage(r, "gone")
  BY <1>1, StageIs DEF Ended
<1>2. CASE Stage(r, "waiting")
  <2>1. Keeps(r, {}, {}) /\ start'[r] = [start[r] EXCEPT !.stage = "waiting"]
    BY <1>2, GoesOn DEF StartStage, Working, Ended
  <2> QED
    BY <2>1 DEF TypeOK, StartRun
<1> QED
  BY <1>1, <1>2 DEF ComposeUp

LEMMA AwaitDependencyIs ==
  ASSUME TypeOK, NEW r \in Starts, AwaitDependency(r), start[r].todo # <<>>
  PROVE  \/ Settles(r, "gone")
         \/ /\ \E v \in Views(Head(start[r].todo)) :
                 /\ Keeps(r, Claimed(r, Head(start[r].todo), v), {})
                 /\ Misread(r, Head(start[r].todo), Managed(v))
            /\ start'[r].stage = "infra" /\ start'[r].spawned = start[r].spawned
<1> DEFINE d == Head(start[r].todo)
<1>1. CASE Stage(r, "gone")
  BY <1>1, StageIs DEF Ended
<1>2. ASSUME NEW v \in Views(d), NextDependency(r, Claimed(r, d, v)), Misread(r, d, Managed(v))
      PROVE  /\ Keeps(r, Claimed(r, d, v), {})
             /\ start'[r].stage = "infra" /\ start'[r].spawned = start[r].spawned
  <2>1. d \in Deps
    BY HeadTailProperties DEF TypeOK, StartRun
  <2>2. Claimed(r, d, v) \in SUBSET Deps
    BY <2>1 DEF Claimed
  <2> HIDE DEF d
  <2> QED
    BY <1>2, <2>2, NextDependencyIs
<1> QED
  BY <1>1, <1>2 DEF AwaitDependency

LEMMA BuildIs ==
  ASSUME TypeOK, NEW r \in Starts, Build(r)
  PROVE  \/ Settles(r, "gone")
         \/ /\ Keeps(r, {}, {}) /\ start'[r].stage = "resolvers"
            /\ start'[r].spawned = start[r].spawned
<1> DEFINE run == [start[r] EXCEPT !.stage = "resolvers", !.infra = None, !.rtodo = selected]
<1>1. CASE Stage(r, "gone")
  BY <1>1, StageIs DEF Ended
<1>2. CASE SetStart(r, run)
  <2>1. start[r] \in StartRun /\ selected \in SUBSET Resolvers
    BY DEF TypeOK
  <2>2. [start[r] EXCEPT !.stage = "resolvers"] \in StartRun
    BY <2>1, FieldsTyped DEF StartStage, Working
  <2>3. [start[r] EXCEPT !.stage = "resolvers", !.infra = None] \in StartRun
    BY <2>2, FieldsTyped
  <2>4. run \in StartRun
    BY <2>1, <2>3, FieldsTyped
  <2>5. start' \in [Starts -> StartRun] /\ start'[r] = run /\ Others(r)
    BY <1>2, <2>4, RunChanges
  <2> QED
    BY <2>1, <2>5 DEF Keeps, StartRun
<1> QED
  BY <1>1, <1>2 DEF Build

LEMMA ResolverIs ==
  ASSUME TypeOK, NEW r \in Starts, NEW x \in Resolvers,
         SkipHealthyResolver(r, x) \/ DelegateResolver(r, x)
  PROVE  /\ start'[r].stage = "resolvers" /\ start'[r].spawned = start[r].spawned
         /\ \/ Keeps(r, {}, {}) /\ UNCHANGED <<res, resBy, misread>>
            \/ /\ Keeps(r, {}, {x})
               /\ res' = [res EXCEPT ![x] = IF @ = "down" THEN "starting" ELSE @]
               /\ resBy' = [resBy EXCEPT ![x] = IF res[x] = "down" THEN r ELSE @]
               /\ misread' = IF res[x] # "down" THEN misread \cup {<<r, x>>} ELSE misread
<1> DEFINE skip == [start[r] EXCEPT !.rtodo = @ \ {x}]
<1> DEFINE run == [start[r] EXCEPT !.rtodo = @ \ {x}, !.delegated = @ \cup {x}]
<1>1. start[r] \in StartRun /\ start[r].stage = "resolvers"
  BY DEF TypeOK, SkipHealthyResolver, DelegateResolver, InStage
<1>2. skip \in StartRun
  BY <1>1, FieldsTyped DEF StartRun
<1>3. run \in StartRun
  <2>1. skip.delegated = start[r].delegated /\ start[r].delegated \cup {x} \in SUBSET Resolvers
    BY <1>1 DEF StartRun
  <2>2. [skip EXCEPT !.delegated = start[r].delegated \cup {x}] \in StartRun
    BY <1>2, <2>1, FieldsTyped
  <2> QED
    BY <2>1, <2>2
<1>4. CASE SetStart(r, skip) /\ UNCHANGED <<res, resBy, misread>>
  <2>1. start' \in [Starts -> StartRun] /\ start'[r] = skip /\ Others(r)
    BY <1>2, <1>4, RunChanges
  <2> QED
    BY <1>1, <1>4, <2>1 DEF Keeps, StartRun
<1>5. CASE SetStart(r, run)
  <2>1. start' \in [Starts -> StartRun] /\ start'[r] = run /\ Others(r)
    BY <1>3, <1>5, RunChanges
  <2>2. /\ Keeps(r, {}, {x}) /\ start'[r].stage = "resolvers"
        /\ start'[r].spawned = start[r].spawned
    BY <1>1, <2>1 DEF Keeps, StartRun
  <2>3. CASE DelegateResolver(r, x) /\ ~(SetStart(r, skip) /\ UNCHANGED <<res, resBy, misread>>)
    BY <2>2, <2>3 DEF DelegateResolver
  <2> QED
    BY <1>4, <2>2, <2>3 DEF SkipHealthyResolver, infraVars, history
<1> QED
  BY <1>4, <1>5 DEF SkipHealthyResolver, DelegateResolver, infraVars, history

LEMMA SpawnIs ==
  ASSUME RuntimeAssumption, TypeOK, NEW r \in Starts, Spawn(r)
  PROVE  \/ Settles(r, "gone") /\ UNCHANGED <<up, serving>>
         \/ /\ Keeps(r, {}, {}) /\ start'[r].stage = "spawned"
            /\ start'[r].spawned \subseteq Services \X {r}
            /\ up' = up \cup start'[r].spawned /\ serving' = serving \cup start'[r].spawned
<1> DEFINE targets == (Services \ start[r].skip) \X {r}
<1> DEFINE run == [start[r] EXCEPT !.stage = "spawned", !.spawned = targets]
<1>1. targets \subseteq Services \X {r} /\ targets \in SUBSET Procs
  BY DEF Procs
<1>2. up' = up \cup targets /\ serving' = serving \cup targets
  BY DEF Spawn
<1>3. CASE targets = {} /\ Stage(r, "gone")
  <2>1. Settles(r, "gone")
    BY <1>3, StageIs DEF Ended
  <2> QED
    BY <1>2, <1>3, <2>1
<1>4. CASE SetStart(r, run)
  <2> HIDE DEF targets
  <2>1. start[r] \in StartRun
    BY DEF TypeOK
  <2>2. [start[r] EXCEPT !.stage = "spawned"] \in StartRun
    BY <2>1, FieldsTyped DEF StartStage, Working
  <2>3. run \in StartRun
    BY <1>1, <2>2, FieldsTyped
  <2>4. start' \in [Starts -> StartRun] /\ start'[r] = run /\ Others(r)
    BY <1>4, <2>3, RunChanges
  <2>5. Keeps(r, {}, {}) /\ start'[r].stage = "spawned" /\ start'[r].spawned = targets
    BY <2>1, <2>4 DEF Keeps, StartRun
  <2> QED
    BY <1>1, <1>2, <2>5
<1> QED
  BY <1>3, <1>4 DEF Spawn

\* A stop reads the state of its mode, and tells a supervisor that runs.
LEMMA ReadStateIs ==
  ASSUME TypeOK, NEW s \in Stops, NEW m \in Modes, ReadState(s, m)
  PROVE  /\ start' \in [Starts -> StartRun] /\ stop' \in [Stops -> StopRun]
         /\ \A t \in Stops \ {s} : stop'[t] = stop[t]
         /\ stop'[s].mode = m
         /\ \/ /\ file[m] \in {None, Torn} /\ stop'[s].stage = "ports" /\ stop'[s].todo = {}
               /\ UNCHANGED <<start, doomed>>
            \/ /\ file[m] \in Record
               /\ stop'[s].stage = "services" /\ stop'[s].seen = file[m]
               /\ stop'[s].todo = file[m].pids
               /\ LET r == file[m].by
                  IN  \/ ~InStage(r, "running") /\ UNCHANGED <<start, doomed>>
                      \/ /\ InStage(r, "running")
                         /\ doomed' = doomed \cup (start[r].spawned \cap up)
                         /\ Keeps(r, {}, {}) /\ start'[r].stage = "cleaning"
                         /\ start'[r].spawned = start[r].spawned
<1> DEFINE f == file[m]
<1> DEFINE missing == f \in {None, Torn}
<1> DEFINE running == IF missing THEN {} ELSE {r \in {f.by} : InStage(r, "running")}
<1> DEFINE run == [stage |-> IF missing THEN "ports" ELSE "services", mode |-> m,
                   seen |-> f, todo |-> IF missing THEN {} ELSE f.pids]
<1>1. /\ SetStop(s, run)
      /\ doomed' = doomed \cup {p \in up : \E r \in running : p \in start[r].spawned}
      /\ start' = [r \in Starts |-> IF r \in running THEN [start[r] EXCEPT !.stage = "cleaning"]
                                                     ELSE start[r]]
  BY DEF ReadState
<1>2. f \in Record \cup {None, Torn}
  BY DEF TypeOK
<1>3. ~missing => f \in Record /\ f.pids \subseteq Procs /\ f.by \in Starts
  BY <1>2 DEF Record
<1>4. run \in StopRun
  BY <1>2, <1>3 DEF StopRun, StopStage
<1>5. /\ stop' \in [Stops -> StopRun] /\ stop'[s] = run
      /\ \A t \in Stops \ {s} : stop'[t] = stop[t]
  BY <1>1, <1>4, StopChanges
<1>6. CASE running = {}
  <2>1. start' = start /\ doomed' = doomed
    BY <1>1, <1>6 DEF TypeOK
  <2> QED
    BY <1>3, <1>5, <1>6, <2>1 DEF TypeOK
<1>7. CASE running # {}
  <2>1. ~missing /\ running = {f.by} /\ InStage(f.by, "running")
    BY <1>7
  <2>2. PICK r \in Starts : r = f.by
    BY <1>3, <2>1
  <2> DEFINE cleans == [start[r] EXCEPT !.stage = "cleaning"]
  <2>3. start[r] \in StartRun
    BY DEF TypeOK
  <2>4. cleans \in StartRun
    BY <2>3, FieldsTyped DEF StartStage
  <2>5. \A q \in Starts : q \in running <=> q = r
    BY <2>1, <2>2
  <2>6. start' \in [Starts -> StartRun] /\ Others(r) /\ start'[r] = cleans
    <3> HIDE DEF running
    <3>1. start'[r] = cleans
      BY <1>1, <2>5
    <3>2. Others(r)
      BY <1>1, <2>5 DEF Others
    <3>3. \A q \in Starts : start'[q] \in StartRun
      BY <2>4, <3>1, <3>2 DEF Others, TypeOK
    <3>4. start' \in [Starts -> StartRun]
      BY <1>1, <3>3
    <3> QED
      BY <3>1, <3>2, <3>4
  <2>7. doomed' = doomed \cup (start[r].spawned \cap up)
    <3>1. running = {r}
      BY <2>1, <2>2
    <3> HIDE DEF running
    <3> QED
      BY <1>1, <3>1
  <2>8. /\ Keeps(r, {}, {}) /\ start'[r].stage = "cleaning"
        /\ start'[r].spawned = start[r].spawned
    BY <2>3, <2>6 DEF Keeps, StartRun
  <2> QED
    BY <1>3, <1>5, <2>1, <2>2, <2>6, <2>7, <2>8
<1> QED
  BY <1>6, <1>7

\* What each other step of a stop makes of its run.
LEMMA EndStopIs ==
  ASSUME TypeOK, NEW s \in Stops, NEW st \in {"ports", "gone", "killed"}, EndStopAs(s, st)
  PROVE  /\ stop' \in [Stops -> StopRun]
         /\ \A t \in Stops \ {s} : stop'[t] = stop[t]
         /\ stop'[s].stage = st /\ stop'[s].todo = {}
<1>1. [IdleStop EXCEPT !.stage = st] \in StopRun
  BY IdleIsRun DEF StopRun, StopStage
<1>2. [IdleStop EXCEPT !.stage = st].stage = st /\ [IdleStop EXCEPT !.stage = st].todo = {}
  BY DEF IdleStop
<1> QED
  BY <1>1, <1>2, StopChanges DEF EndStopAs

LEMMA StopGoesOn ==
  ASSUME TypeOK, NEW s \in Stops, NEW st \in {"resolvers", "unlink"},
         SetStop(s, [stop[s] EXCEPT !.stage = st])
  PROVE  /\ stop' \in [Stops -> StopRun]
         /\ \A t \in Stops \ {s} : stop'[t] = stop[t]
         /\ stop'[s].stage = st /\ stop'[s].mode = stop[s].mode
         /\ stop'[s].todo = stop[s].todo /\ stop'[s].seen = stop[s].seen
<1>1. stop[s] \in StopRun
  BY DEF TypeOK
<1>2. [stop[s] EXCEPT !.stage = st] \in StopRun
  BY <1>1 DEF StopRun, StopStage
<1> QED
  BY <1>1, <1>2, StopChanges DEF StopRun

LEMMA StopServiceIs ==
  ASSUME TypeOK, NEW s \in Stops, NEW p \in Procs, StopService(s, p)
  PROVE  /\ stop' \in [Stops -> StopRun]
         /\ \A t \in Stops \ {s} : stop'[t] = stop[t]
         /\ stop'[s].stage = stop[s].stage /\ stop'[s].mode = stop[s].mode
         /\ stop'[s].todo = stop[s].todo \ {p} /\ stop'[s].seen = stop[s].seen
<1>1. stop[s] \in StopRun
  BY DEF TypeOK
<1>2. [stop[s] EXCEPT !.todo = @ \ {p}] \in StopRun
  BY <1>1 DEF StopRun
<1> QED
  BY <1>1, <1>2, StopChanges DEF StopRun, StopService

LEMMA CleanupIs ==
  ASSUME TypeOK, NEW r \in Starts, ChildExited(r) \/ Interrupt(r)
  PROVE  /\ Settles(r, "cleaning")
         /\ doomed' = doomed \cup (start[r].spawned \cap up)
         /\ disturbed' = disturbed \cup Beside(r)
         /\ SupervisorAlive(r) /\ ~InStage(r, "cleaning") /\ ~InStage(r, "spawned")
         /\ UNCHANGED <<file, up, serving, bound, infraVars, stop, mixed, misread>>
<1>1. BeginCleanup(r) /\ disturbed' = disturbed \cup Beside(r)
  BY DEF ChildExited, Interrupt, Disturb
<1>2. SupervisorAlive(r) /\ ~InStage(r, "cleaning") /\ ~InStage(r, "spawned")
  BY DEF ChildExited, Interrupt, SupervisorAlive, InStage, Ended
<1>3. Settles(r, "cleaning")
  BY <1>1, StageIs DEF BeginCleanup
<1> QED
  BY <1>1, <1>2, <1>3 DEF BeginCleanup

LEMMA DieType ==
  ASSUME TypeOK, NEW gone, Die(gone)
  PROVE  /\ up' \subseteq up /\ serving' \subseteq serving /\ doomed' \subseteq doomed
         /\ bound' \in [Ported -> Procs \cup {None, Foreign}]
BY DEF Die, TypeOK

-----------------------------------------------------------------------------
LEMMA TypeInit == RuntimeAssumption /\ Init => TypeOK
<1> SUFFICES ASSUME RuntimeAssumption, Init PROVE TypeOK
  OBVIOUS
<1>1. start \in [Starts -> StartRun] /\ stop \in [Stops -> StopRun]
  BY IdleIsRun DEF Init
<1>2. TodoLeft
  BY DEF Init, TodoLeft, IdleStart
<1>3. faults \in Nat
  BY DEF Init
<1> QED
  BY <1>1, <1>2, <1>3 DEF Init, TypeOK

\* One run of start.mjs at a time goes on.
LEMMA TodoStays ==
  ASSUME TypeOK, NEW r \in Starts, Others(r),
         start'[r].stage \in {"compose", "waiting"} => start'[r].todo # <<>>
  PROVE  TodoLeft'
BY DEF TypeOK, TodoLeft, Others

LEMMA StartStepType ==
  ASSUME RuntimeAssumption, TypeOK, NEW r \in Starts, StartStep(r) PROVE TypeOK'
<1> USE DEF Keeps, Settles, procVars, infraVars, history, Ended
<1>1. ASSUME NEW m \in Modes, Inspect(r, m) PROVE TypeOK'
  <2>1. TodoLeft'
    BY <1>1, InspectIs, TodoStays
  <2>2. file' \in [Modes -> Record \cup {None, Torn}]
    BY <1>1 DEF Inspect, TypeOK
  <2> QED
    <3>1. start' \in [Starts -> StartRun]
      BY <1>1, InspectIs
    <3>2. UNCHANGED <<procVars, infraVars, stop, mixed, faults>>
      BY <1>1 DEF Inspect
    <3> QED
      BY <2>1, <2>2, <3>1, <3>2 DEF TypeOK
<1>2. CASE SkipStart(r)
  <2>1. TodoLeft'
    BY <1>2, StageIs, TodoStays DEF SkipStart
  <2> QED
    BY <1>2, <2>1, StageIs DEF SkipStart, TypeOK
<1>3. ASSUME NEW i \in InfraModes, Precheck(r, i) PROVE TypeOK'
  <2>1. TodoLeft'
    BY <1>3, PrecheckIs, TodoStays
  <2> QED
    BY <1>3, <2>1, PrecheckIs DEF Precheck, TypeOK
<1>4. CASE Discover(r)
  <2>1. TodoLeft'
    BY <1>4, DiscoverIs, TodoStays
  <2>2. start' \in [Starts -> StartRun]
    BY <1>4, DiscoverIs
  <2> QED
    BY <1>4, <2>1, <2>2 DEF Discover, TypeOK
<1>5. CASE ComposeUp(r)
  <2>1. TodoLeft'
    BY <1>5, ComposeUpIs, TodoStays DEF ComposeUp, InStage, TypeOK, TodoLeft
  <2>2. start' \in [Starts -> StartRun]
    BY <1>5, ComposeUpIs
  <2>3. /\ dep' \in [Deps -> {"absent", "starting", "compose", "restarting", "external"}]
        /\ upBy' \in [Deps -> Starts \cup {None}]
    BY <1>5 DEF ComposeUp, TypeOK
  <2> QED
    BY <1>5, <2>1, <2>2, <2>3 DEF ComposeUp, TypeOK
<1>6. CASE AwaitDependency(r)
  <2>1. start[r].todo # <<>>
    BY <1>6 DEF AwaitDependency, InStage, TypeOK, TodoLeft
  <2>2. TodoLeft'
    BY <1>6, <2>1, AwaitDependencyIs, TodoStays
  <2> QED
    BY <1>6, <2>1, <2>2, AwaitDependencyIs DEF AwaitDependency, TypeOK
<1>7. CASE Build(r)
  <2>1. TodoLeft'
    BY <1>7, BuildIs, TodoStays
  <2> QED
    BY <1>7, <2>1, BuildIs DEF Build, TypeOK
<1>8. ASSUME NEW x \in Resolvers, SkipHealthyResolver(r, x) \/ DelegateResolver(r, x) PROVE TypeOK'
  <2>1. start' \in [Starts -> StartRun] /\ Others(r) /\ start'[r].stage = "resolvers"
    BY <1>8, ResolverIs
  <2>2. TodoLeft'
    BY <2>1, TodoStays
  <2>3. /\ res' \in [Resolvers -> {"down", "starting", "up"}]
        /\ resBy' \in [Resolvers -> Starts \cup {None}]
    <3>1. CASE UNCHANGED <<res, resBy, misread>>
      BY <3>1 DEF TypeOK
    <3>2. CASE /\ res' = [res EXCEPT ![x] = IF @ = "down" THEN "starting" ELSE @]
               /\ resBy' = [resBy EXCEPT ![x] = IF res[x] = "down" THEN r ELSE @]
      BY <3>2 DEF TypeOK
    <3> QED
      BY <1>8, <3>1, <3>2, ResolverIs
  <2> QED
    BY <1>8, <2>1, <2>2, <2>3 DEF SkipHealthyResolver, DelegateResolver, TypeOK
<1>9. CASE Spawn(r)
  <2>1. TodoLeft'
    BY <1>9, SpawnIs, TodoStays
  <2> QED
    BY <1>9, <2>1, SpawnIs DEF Spawn, Procs, TypeOK
<1>10. CASE WriteState(r)
  <2>1. StateRecord(r) \in Record
    BY DEF StateRecord, Record, TypeOK, StartRun
  <2>2. Settles(r, "running")
    BY <1>10, StageIs DEF WriteState
  <2>3. file' \in [Modes -> Record \cup {None, Torn}]
    BY <1>10, <2>1 DEF WriteState, TypeOK
  <2>4. TodoLeft'
    BY <2>2, TodoStays
  <2> QED
    BY <1>10, <2>2, <2>3, <2>4 DEF WriteState, TypeOK
<1>11. CASE ChildExited(r) \/ Interrupt(r)
  <2>1. TodoLeft'
    BY <1>11, CleanupIs, TodoStays
  <2>2. faults' \in Nat
    <3>1. CASE ChildExited(r)
      BY <3>1 DEF ChildExited, TypeOK
    <3>2. CASE Interrupt(r)
      BY <3>2 DEF Interrupt, Fault, TypeOK
    <3> QED
      BY <1>11, <3>1, <3>2
  <2> QED
    BY <1>11, <2>1, <2>2, CleanupIs DEF TypeOK
<1>12. CASE CleanupEnds(r)
  <2>1. TodoLeft'
    BY <1>12, StageIs, TodoStays DEF CleanupEnds
  <2> QED
    BY <1>12, <2>1, StageIs DEF CleanupEnds, TypeOK
<1>13. CASE KillSupervisor(r)
  <2>1. PICK st \in {"orphaned", "killed"} : Stage(r, st)
    BY <1>13 DEF KillSupervisor
  <2>2. TodoLeft'
    BY <2>1, StageIs, TodoStays
  <2>3. file' \in [Modes -> Record \cup {None, Torn}]
    BY <1>13 DEF KillSupervisor, TypeOK
  <2> QED
    BY <1>13, <2>1, <2>2, <2>3, StageIs DEF KillSupervisor, Fault, TypeOK
<1> QED
  BY <1>1, <1>2, <1>3, <1>4, <1>5, <1>6, <1>7, <1>8, <1>9, <1>10, <1>11, <1>12, <1>13
     DEF StartStep

LEMMA ServiceStepType ==
  ASSUME TypeOK, NEW p \in Procs, ServiceStep(p) PROVE TypeOK'
<1> USE DEF procVars, infraVars, history
<1>0. TodoLeft'
  BY DEF ServiceStep, Listen, ExitOnSignal, CrashService, LoseChild, TypeOK, TodoLeft
<1>1. CASE Listen(p)
  <2>1. CASE bound[p[1]] = None
    BY <1>0, <1>1, <2>1 DEF Listen, TypeOK
  <2>2. CASE Die({p})
    BY <1>0, <1>1, <2>2, DieType DEF Listen, TypeOK
  <2> QED
    BY <1>1, <2>1, <2>2 DEF Listen
<1>2. CASE ExitOnSignal(p)
  BY <1>0, <1>2, DieType DEF ExitOnSignal, TypeOK
<1>3. CASE CrashService(p)
  BY <1>0, <1>3, DieType DEF CrashService, Fault, TypeOK
<1>4. CASE LoseChild(p)
  BY <1>0, <1>4 DEF LoseChild, Fault, TypeOK
<1> QED
  BY <1>1, <1>2, <1>3, <1>4 DEF ServiceStep

LEMMA StopStepType ==
  ASSUME TypeOK, NEW s \in Stops, StopStep(s) PROVE TypeOK'
<1> USE DEF procVars, infraVars, history
<1>1. ASSUME NEW m \in Modes, ReadState(s, m) PROVE TypeOK'
  <2>1. doomed' \subseteq doomed \cup up
    BY <1>1, ReadStateIs
  <2>2. TodoLeft'
    <3>1. CASE UNCHANGED start
      BY <3>1 DEF TodoLeft, TypeOK
    <3>2. CASE start' # start
      <4>1. PICK r \in Starts : Others(r) /\ start'[r].stage = "cleaning"
        BY <1>1, <3>2, ReadStateIs DEF Keeps, Record
      <4> QED
        BY <4>1, TodoStays
    <3> QED
      BY <3>1, <3>2
  <2> QED
    BY <1>1, <2>1, <2>2, ReadStateIs DEF ReadState, TypeOK
<1>0. CASE UNCHANGED start
  <2>0. TodoLeft'
    BY <1>0 DEF TodoLeft, TypeOK
  <2>2. ASSUME NEW p \in Procs, StopService(s, p) PROVE TypeOK'
    BY <1>0, <2>0, <2>2, StopServiceIs DEF StopService, TypeOK
  <2>3. CASE StopDependencies(s)
    <3>1. stop' \in [Stops -> StopRun]
      BY <2>3, StopGoesOn DEF StopDependencies
    <3> QED
      BY <1>0, <2>0, <2>3, <3>1 DEF StopDependencies, TypeOK
  <2>4. CASE StopResolvers(s)
    <3>1. stop' \in [Stops -> StopRun]
      BY <2>4, StopGoesOn DEF StopResolvers
    <3> QED
      BY <1>0, <2>0, <2>4, <3>1 DEF StopResolvers, TypeOK
  <2>5. CASE Unlink(s)
    BY <1>0, <2>0, <2>5, EndStopIs DEF Unlink, TypeOK
  <2>6. CASE CleanPorts(s)
    BY <1>0, <2>0, <2>6, EndStopIs, DieType DEF CleanPorts, TypeOK
  <2>7. CASE EndStop(s)
    BY <1>0, <2>0, <2>7, EndStopIs DEF EndStop, TypeOK
  <2>8. CASE KillStop(s)
    BY <1>0, <2>0, <2>8, EndStopIs DEF KillStop, Fault, TypeOK
  <2> QED
    BY <1>1, <2>2, <2>3, <2>4, <2>5, <2>6, <2>7, <2>8 DEF StopStep
<1>2. CASE \A m \in Modes : ~ReadState(s, m)
  <2>1. UNCHANGED start
    BY <1>2 DEF StopStep, StopService, StopDependencies, StopResolvers, Unlink, CleanPorts,
                EndStop, KillStop
  <2> QED
    BY <1>0, <2>1
<1> QED
  BY <1>1, <1>2

\* What containers, operators and strangers do.
WorldStep ==
  \/ BecomeReady
  \/ \E d \in Deps : ContainerStops(d) \/ OperatorStartsContainer(d) \/ ContainerRestarts(d)
  \/ \E n \in Procs \cup Starts : StrangerComes(n) \/ StrangerGoes(n)

LEMMA WorldStepType == ASSUME TypeOK, WorldStep PROVE TypeOK'
<1> USE DEF procVars, infraVars, history
<1>0. TodoLeft'
  BY DEF WorldStep, BecomeReady, ContainerStops, OperatorStartsContainer, ContainerRestarts,
         StrangerComes, StrangerGoes, TypeOK, TodoLeft
<1>1. CASE BecomeReady
  BY <1>0, <1>1 DEF BecomeReady, TypeOK
<1>2. ASSUME NEW d \in Deps,
             ContainerStops(d) \/ OperatorStartsContainer(d) \/ ContainerRestarts(d)
      PROVE  TypeOK'
  BY <1>0, <1>2 DEF ContainerStops, OperatorStartsContainer, ContainerRestarts, Fault, TypeOK
<1>3. ASSUME NEW n, StrangerComes(n) \/ StrangerGoes(n) PROVE TypeOK'
  BY <1>0, <1>3 DEF StrangerComes, StrangerGoes, Fault, TypeOK
<1> QED
  BY <1>1, <1>2, <1>3 DEF WorldStep

LEMMA TypeStep == RuntimeAssumption /\ TypeOK /\ [Next]_vars => TypeOK'
<1>1. ASSUME TypeOK, UNCHANGED vars PROVE TypeOK'
  BY <1>1 DEF vars, procVars, infraVars, history, TypeOK, TodoLeft
<1> QED
  BY <1>1, StartStepType, ServiceStepType, StopStepType, WorldStepType DEF Next, WorldStep

LEMMA TypeHolds == Spec => []TypeOK
BY RuntimeAssumption, TypeInit, TypeStep, PTL DEF Spec

-----------------------------------------------------------------------------
(***************************************************************************)
(* What a step of each script amounts to.                                  *)
(***************************************************************************)

Told(r) == doomed' = doomed \cup (start[r].spawned \cap up)

\* A start goes on: it spawns once, and settles for good.
Moves(r) ==
  LET stage == start[r].stage
      stage2 == start'[r].stage
  IN  /\ Others(r) /\ stage2 # "idle"
      /\ start'[r].mode \in Modes \cup {start[r].mode}
      /\ stage # "idle" => start'[r].mode = start[r].mode
      /\ \/ start'[r].spawned = start[r].spawned /\ UNCHANGED up
         \/ /\ stage = "resolvers" /\ stage2 = "spawned"
            /\ start'[r].spawned \subseteq Services \X {r}
            /\ up' = up \cup start'[r].spawned
      /\ UNCHANGED doomed \/ (Told(r) /\ stage2 = "cleaning")
      /\ stage2 \in Fresh => stage \in Fresh
      /\ stage2 \in {"cleaning", "gone"} => stage \in Fresh \cup {"cleaning"} \/ Told(r)
      /\ stage \in {"running", "cleaning", "gone", "killed"} =>
           stage2 \in {"cleaning", "gone", "killed"}
      /\ stage = "idle" => start'[r].mode \in Modes

\* What it does to the files.
Files(r) ==
  \A m \in Modes :
    \/ file'[m] = file[m] \/ file'[m] \in {None, Torn}
    \/ /\ m = start[r].mode /\ start[r].stage = "spawned" /\ start'[r].stage = "running"
       /\ file'[m] = StateRecord(r)

LEMMA StartMoves ==
  ASSUME RuntimeAssumption, TypeOK, NEW r \in Starts, StartStep(r)
  PROVE  Moves(r) /\ Files(r)
<1> USE DEF procVars, Ended
<1>1. ASSUME NEW m \in Modes, Inspect(r, m) PROVE Moves(r) /\ Files(r)
  <2>1. /\ UNCHANGED <<up, doomed>> /\ start[r].stage = "idle"
        /\ \A n \in Modes : file'[n] = file[n] \/ file'[n] = None
    BY <1>1 DEF Inspect, InStage
  <2> QED
    BY <1>1, <2>1, InspectIs DEF Moves, Files, Fresh
<1>2. CASE SkipStart(r)
  <2>1. Settles(r, "gone")
    BY <1>2, StageIs DEF SkipStart
  <2> QED
    BY <1>2, <2>1 DEF SkipStart, InStage, Settles, Moves, Files, Fresh
<1>3. ASSUME NEW i \in InfraModes, Precheck(r, i) PROVE Moves(r) /\ Files(r)
  <2>1. UNCHANGED <<up, doomed, file>> /\ start[r].stage = "checking"
    BY <1>3 DEF Precheck, InStage
  <2> QED
    BY <1>3, <2>1, PrecheckIs DEF Keeps, Settles, Moves, Files, Fresh
<1>4. CASE Discover(r)
  <2>1. UNCHANGED <<up, doomed, file>> /\ start[r].stage = "infra"
    BY <1>4 DEF Discover, InStage
  <2> QED
    BY <1>4, <2>1, DiscoverIs DEF Keeps, Settles, Moves, Files, Fresh
<1>5. CASE ComposeUp(r)
  <2>1. UNCHANGED <<up, doomed, file>> /\ start[r].stage = "compose"
    BY <1>5 DEF ComposeUp, InStage
  <2> QED
    BY <1>5, <2>1, ComposeUpIs DEF Keeps, Settles, Moves, Files, Fresh
<1>6. CASE AwaitDependency(r)
  <2>1. UNCHANGED <<up, doomed, file>> /\ start[r].stage = "waiting" /\ start[r].todo # <<>>
    BY <1>6 DEF AwaitDependency, InStage, TypeOK, TodoLeft
  <2> QED
    BY <1>6, <2>1, AwaitDependencyIs DEF Keeps, Settles, Moves, Files, Fresh
<1>7. CASE Build(r)
  <2>1. UNCHANGED <<up, doomed, file>> /\ start[r].stage = "infra"
    BY <1>7 DEF Build, InStage
  <2> QED
    BY <1>7, <2>1, BuildIs DEF Keeps, Settles, Moves, Files, Fresh
<1>8. ASSUME NEW x \in Resolvers, SkipHealthyResolver(r, x) \/ DelegateResolver(r, x)
      PROVE  Moves(r) /\ Files(r)
  <2>1. UNCHANGED <<up, doomed, file>> /\ start[r].stage = "resolvers"
    BY <1>8 DEF SkipHealthyResolver, DelegateResolver, InStage
  <2>2. Others(r) /\ start'[r].stage = "resolvers" /\ start'[r].mode = start[r].mode
        /\ start'[r].spawned = start[r].spawned
    BY <1>8, ResolverIs DEF Keeps
  <2> QED
    BY <2>1, <2>2 DEF Moves, Files, Fresh
<1>9. CASE Spawn(r)
  <2>1. UNCHANGED <<doomed, file>> /\ start[r].stage = "resolvers"
    BY <1>9 DEF Spawn, InStage
  <2> QED
    BY <1>9, <2>1, SpawnIs DEF Keeps, Settles, Moves, Files, Fresh
<1>10. CASE WriteState(r)
  <2>1. Settles(r, "running") /\ UNCHANGED <<up, doomed>> /\ start[r].stage = "spawned"
    BY <1>10, StageIs DEF WriteState, InStage
  <2>2. \A m \in Modes : file'[m] = file[m] \/ (m = start[r].mode /\ file'[m] = StateRecord(r))
    BY <1>10 DEF WriteState, TypeOK
  <2> QED
    BY <2>1, <2>2 DEF Settles, Moves, Files, Fresh
<1>11. CASE ChildExited(r) \/ Interrupt(r)
  <2>1. /\ Settles(r, "cleaning") /\ Told(r) /\ UNCHANGED <<up, file>>
        /\ start[r].stage # "idle"
    BY <1>11, CleanupIs DEF Told, SupervisorAlive
  <2> QED
    BY <2>1 DEF Settles, Moves, Files, Fresh
<1>12. CASE CleanupEnds(r)
  <2>1. Settles(r, "gone") /\ UNCHANGED <<up, doomed>> /\ start[r].stage = "cleaning"
    BY <1>12, StageIs DEF CleanupEnds, InStage
  <2>2. \A m \in Modes : file'[m] = file[m] \/ file'[m] = None
    BY <1>12 DEF CleanupEnds, TypeOK
  <2> QED
    BY <2>1, <2>2 DEF Settles, Moves, Files, Fresh
<1>13. CASE KillSupervisor(r)
  <2>1. PICK st \in {"orphaned", "killed"} :
          Stage(r, st) /\ (st = "orphaned" => InStage(r, "spawned"))
    BY <1>13 DEF KillSupervisor
  <2>2. Settles(r, st) /\ start[r].stage # "idle" /\ UNCHANGED <<up, doomed>>
    BY <1>13, <2>1, StageIs DEF KillSupervisor, SupervisorAlive
  <2>3. \A m \in Modes : file'[m] = file[m] \/ file'[m] \in {None, Torn}
    BY <1>13 DEF KillSupervisor, TypeOK
  <2> QED
    BY <2>1, <2>2, <2>3 DEF Settles, Moves, Files, Fresh, InStage
<1> QED
  BY <1>1, <1>2, <1>3, <1>4, <1>5, <1>6, <1>7, <1>8, <1>9, <1>10, <1>11, <1>12, <1>13
     DEF StartStep

\* Everybody else leaves the starts alone, but for a stop that reads the state.
Calm ==
  /\ UNCHANGED start
  /\ up' \subseteq up /\ \A p \in up' : p \in doomed => p \in doomed'
  /\ \A m \in Modes : file'[m] = file[m] \/ file'[m] = None

Elsewhere == (\E p \in Procs : ServiceStep(p)) \/ WorldStep

\* The steps of a stop but the first.
StopGoesOnStep(s) ==
  \/ \E p \in Procs : StopService(s, p)
  \/ StopDependencies(s) \/ StopResolvers(s) \/ Unlink(s) \/ CleanPorts(s) \/ EndStop(s)
  \/ KillStop(s)

LEMMA DieIsCalm ==
  ASSUME NEW gone, Die(gone), UNCHANGED <<start, file>> PROVE Calm
BY DEF Die, Calm

LEMMA ElsewhereIsCalm == ASSUME Elsewhere PROVE Calm /\ UNCHANGED <<stop, file>>
<1> USE DEF procVars, infraVars, history
<1>1. ASSUME NEW p \in Procs, ServiceStep(p) PROVE Calm /\ UNCHANGED <<stop, file>>
  <2>1. CASE Listen(p)
    <3>1. CASE Die({p})
      BY <2>1, <3>1, DieIsCalm DEF Listen
    <3>2. CASE UNCHANGED <<up, serving, doomed, reused>>
      BY <2>1, <3>2 DEF Listen, Calm
    <3> QED
      BY <2>1, <3>1, <3>2 DEF Listen
  <2>2. CASE ExitOnSignal(p)
    BY <2>2, DieIsCalm DEF ExitOnSignal
  <2>3. CASE CrashService(p)
    BY <2>3, DieIsCalm DEF CrashService
  <2>4. CASE LoseChild(p)
    BY <2>4 DEF LoseChild, Calm
  <2> QED
    BY <1>1, <2>1, <2>2, <2>3, <2>4 DEF ServiceStep
<1>2. CASE BecomeReady
  BY <1>2 DEF BecomeReady, Calm
<1>3. ASSUME NEW d \in Deps,
             ContainerStops(d) \/ OperatorStartsContainer(d) \/ ContainerRestarts(d)
      PROVE  Calm /\ UNCHANGED <<stop, file>>
  BY <1>3 DEF ContainerStops, OperatorStartsContainer, ContainerRestarts, Calm
<1>4. ASSUME NEW n, StrangerComes(n) \/ StrangerGoes(n)
      PROVE  Calm /\ UNCHANGED <<stop, file>>
  BY <1>4 DEF StrangerComes, StrangerGoes, Calm
<1> QED
  BY <1>1, <1>2, <1>3, <1>4 DEF Elsewhere, WorldStep

LEMMA StopIsCalm ==
  ASSUME TypeOK, NEW s \in Stops, StopGoesOnStep(s)
  PROVE  /\ Calm
         /\ \A t \in Stops \ {s} : stop'[t] = stop[t]
         /\ stop'[s].todo \subseteq stop[s].todo
         /\ stop'[s].mode = stop[s].mode \/ stop'[s].todo = {}
<1> USE DEF procVars, infraVars, history
<1>1. ASSUME NEW p \in Procs, StopService(s, p)
      PROVE  Calm /\ UNCHANGED file
  BY <1>1 DEF StopService, Calm
<1>2. CASE StopDependencies(s) \/ StopResolvers(s)
  <2>1. Calm
    BY <1>2 DEF StopDependencies, StopResolvers, Calm
  <2>2. PICK st \in {"resolvers", "unlink"} : SetStop(s, [stop[s] EXCEPT !.stage = st])
    BY <1>2 DEF StopDependencies, StopResolvers
  <2> QED
    BY <2>1, <2>2, StopGoesOn
<1>3. CASE Unlink(s)
  BY <1>3, EndStopIs DEF Unlink, Calm, TypeOK
<1>4. CASE CleanPorts(s)
  <2>1. Calm
    BY <1>4, DieIsCalm DEF CleanPorts
  <2> QED
    BY <1>4, <2>1, EndStopIs DEF CleanPorts
<1>5. CASE EndStop(s) \/ KillStop(s)
  BY <1>5, EndStopIs DEF EndStop, KillStop, Calm
<1> QED
  BY <1>1, <1>2, <1>3, <1>4, <1>5, StopServiceIs DEF StopGoesOnStep

LEMMA ByStarts == \A p \in Procs : By(p) \in Starts
BY DEF By, Procs

-----------------------------------------------------------------------------
Processes == Spawned /\ FilesAreTrue /\ TodoIsOfMode

LEMMA ProcessesInit == Init => Processes
BY DEF Init, Processes, Spawned, FilesAreTrue, TodoIsOfMode, IdleStart, IdleStop

LEMMA ProcessesStart ==
  ASSUME RuntimeAssumption, TypeOK, Processes, NEW r \in Starts, StartStep(r)
  PROVE  Processes'
<1>1. Moves(r) /\ Files(r) /\ UNCHANGED stop
  <2>1. UNCHANGED stop
    BY CleanupIs DEF StartStep, Inspect, SkipStart, Precheck, Discover, ComposeUp, AwaitDependency,
          Build, SkipHealthyResolver, DelegateResolver, Spawn, WriteState, CleanupEnds,
          KillSupervisor
  <2> QED
    BY <2>1, StartMoves
<1>2. \A p \in up : By(p) \in Starts
  BY ByStarts DEF TypeOK
<1>3. Spawned'
  <2>1. \A p \in up' : p \in start'[By(p)].spawned
    <3> SUFFICES ASSUME NEW p \in up' PROVE p \in start'[By(p)].spawned
      OBVIOUS
    <3>1. CASE p \in up
      BY <1>1, <1>2, <3>1 DEF Moves, Others, Processes, Spawned, Fresh
    <3>2. CASE p \notin up
      BY <1>1, <3>2 DEF Moves, By
    <3> QED
      BY <3>1, <3>2
  <2>2. \A q \in Starts \ {r} : start'[q].spawned \cap up' = start[q].spawned \cap up
    BY <1>1 DEF Moves, Others, Processes, Spawned, By
  <2>3. doomed \subseteq doomed'
    BY <1>1 DEF Moves, Told
  <2>4. ASSUME NEW q \in Starts \ {r}
        PROVE  /\ \A p \in start'[q].spawned : By(p) = q
               /\ start'[q].stage \in Fresh => start'[q].spawned = {}
               /\ start'[q].stage # "idle" => start'[q].mode \in Modes
               /\ start'[q].stage \in {"cleaning", "gone"} =>
                    start'[q].spawned \cap up' \subseteq doomed'
    BY <1>1, <2>2, <2>3 DEF Moves, Others, Processes, Spawned
  <2>5. /\ \A p \in start'[r].spawned : By(p) = r
        /\ start'[r].stage \in Fresh => start'[r].spawned = {}
        /\ start'[r].stage # "idle" => start'[r].mode \in Modes
    BY <1>1 DEF Moves, Processes, Spawned, By, Fresh
  <2>6. start'[r].stage \in {"cleaning", "gone"} => start'[r].spawned \cap up' \subseteq doomed'
    BY <1>1, <2>3 DEF Moves, Told, Processes, Spawned
  <2> QED
    BY <2>1, <2>4, <2>5, <2>6 DEF Spawned
<1>4. FilesAreTrue'
  <2> SUFFICES ASSUME NEW m \in Modes, file'[m] \notin {None, Torn}
               PROVE  LET q == file'[m].by
                      IN  /\ start'[q].mode = m /\ file'[m].pids = start'[q].spawned
                          /\ start'[q].stage \in {"running", "cleaning", "gone", "killed"}
    BY DEF FilesAreTrue
  <2>1. CASE file'[m] = file[m]
    <3>1. file[m].by \in Starts
      BY <2>1 DEF TypeOK, Record
    <3> QED
      BY <1>1, <2>1, <3>1 DEF Moves, Others, Processes, FilesAreTrue
  <2>2. CASE m = start[r].mode /\ start[r].stage = "spawned" /\ start'[r].stage = "running"
             /\ file'[m] = StateRecord(r)
    BY <1>1, <2>2 DEF Moves, StateRecord
  <2> QED
    BY <1>1, <2>1, <2>2 DEF Files
<1>5. TodoIsOfMode'
  <2> SUFFICES ASSUME NEW s \in Stops, NEW p \in stop[s].todo
               PROVE  start'[By(p)].mode = stop[s].mode /\ start'[By(p)].stage # "idle"
    BY <1>1 DEF TodoIsOfMode
  <2>1. By(p) \in Starts
    BY ByStarts DEF TypeOK, StopRun
  <2> QED
    BY <1>1, <2>1 DEF Moves, Others, Processes, TodoIsOfMode
<1> QED
  BY <1>3, <1>4, <1>5 DEF Processes

LEMMA ProcessesCalm ==
  ASSUME TypeOK, Processes, Calm,
         \A s \in Stops : /\ stop'[s].todo \subseteq stop[s].todo
                          /\ stop'[s].mode = stop[s].mode \/ stop'[s].todo = {}
  PROVE  Processes'
<1>1. Spawned'
  BY DEF Calm, Processes, Spawned
<1>2. FilesAreTrue'
  BY DEF Calm, Processes, FilesAreTrue
<1>3. TodoIsOfMode'
  BY DEF Calm, Processes, TodoIsOfMode
<1> QED
  BY <1>1, <1>2, <1>3 DEF Processes

LEMMA ProcessesRead ==
  ASSUME RuntimeAssumption, TypeOK, Processes, NEW s \in Stops, NEW m \in Modes, ReadState(s, m)
  PROVE  Processes'
<1>1. UNCHANGED <<file, up>>
  BY DEF ReadState
<1>2. CASE file[m] \in {None, Torn} \/ ~InStage(file[m].by, "running")
  <2>1. UNCHANGED <<start, doomed>>
    BY <1>2, ReadStateIs
  <2>2. Spawned' /\ FilesAreTrue'
    BY <1>1, <2>1 DEF Processes, Spawned, FilesAreTrue
  <2>3. TodoIsOfMode'
    <3>1. \A p \in stop'[s].todo : start[By(p)].mode = m /\ start[By(p)].stage # "idle"
      <4>1. CASE stop'[s].todo = {}
        BY <4>1
      <4>2. CASE file[m] \in Record /\ stop'[s].todo = file[m].pids
        BY <4>2 DEF Processes, FilesAreTrue, Spawned, Record, RuntimeAssumption
      <4> QED
        BY <4>1, <4>2, ReadStateIs
    <3>2. stop'[s].mode = m /\ \A t \in Stops \ {s} : stop'[t] = stop[t]
      BY ReadStateIs
    <3> QED
      BY <2>1, <3>1, <3>2 DEF Processes, TodoIsOfMode
  <2> QED
    BY <2>2, <2>3 DEF Processes
<1>3. CASE file[m] \notin {None, Torn} /\ InStage(file[m].by, "running")
  <2> DEFINE r == file[m].by
  <2>1. r \in Starts /\ file[m] \in Record
    BY <1>3 DEF TypeOK, Record
  <2>2. Others(r) /\ start'[r].mode = start[r].mode /\ start'[r].spawned = start[r].spawned
        /\ start'[r].stage = "cleaning" /\ Told(r) /\ start[r].stage = "running"
    BY <1>3, ReadStateIs DEF Keeps, Told, InStage
  <2>3. stop'[s].mode = m /\ stop'[s].todo = file[m].pids
        /\ \A t \in Stops \ {s} : stop'[t] = stop[t]
    BY <1>3, ReadStateIs
  <2>4. start[r].mode = m /\ file[m].pids = start[r].spawned
    BY <1>3 DEF Processes, FilesAreTrue
  <2> HIDE DEF r
  <2>5. \A p \in up : By(p) \in Starts
    BY ByStarts DEF TypeOK
  <2>6. Spawned'
    BY <1>1, <2>1, <2>2, <2>5 DEF Others, Told, Processes, Spawned, Fresh
  <2>7. FilesAreTrue'
    <3>1. \A n \in Modes : file[n] \notin {None, Torn} => file[n].by \in Starts
      BY DEF TypeOK, Record
    <3> QED
      BY <1>1, <2>1, <2>2, <3>1 DEF Others, Processes, FilesAreTrue
  <2>8. TodoIsOfMode'
    <3>1. \A p \in stop'[s].todo : By(p) = r
      BY <2>1, <2>3, <2>4 DEF Processes, Spawned
    <3>2. \A t \in Stops : \A p \in stop[t].todo : By(p) \in Starts
      BY ByStarts DEF TypeOK, StopRun
    <3> QED
      BY <2>1, <2>2, <2>3, <2>4, <3>1, <3>2 DEF Others, Processes, TodoIsOfMode
  <2> QED
    BY <2>6, <2>7, <2>8 DEF Processes
<1> QED
  BY <1>2, <1>3

LEMMA ProcessesStep == RuntimeAssumption /\ TypeOK /\ Processes /\ [Next]_vars => Processes'
<1> SUFFICES ASSUME RuntimeAssumption, TypeOK, Processes, [Next]_vars PROVE Processes'
  OBVIOUS
<1>1. CASE Elsewhere
  BY <1>1, ElsewhereIsCalm, ProcessesCalm
<1>2. ASSUME NEW s \in Stops, StopGoesOnStep(s) PROVE Processes'
  BY <1>2, StopIsCalm, ProcessesCalm
<1>3. CASE UNCHANGED vars
  BY <1>3 DEF vars, procVars, Processes, Spawned, FilesAreTrue, TodoIsOfMode
<1> QED
  BY <1>1, <1>2, <1>3, ProcessesStart, ProcessesRead DEF Next, Elsewhere, WorldStep, StopStep, StopGoesOnStep

-----------------------------------------------------------------------------
(***************************************************************************)
(* Claims.                                                                 *)
(***************************************************************************)

StaysKnown ==
  \A r \in Starts :
    /\ \A d \in Deps : Known(r, d) => Known(r, d)'
    /\ \A x \in Resolvers : KnownResolver(r, x) => KnownResolver(r, x)'

Untouched == UNCHANGED <<dep, upBy, res, resBy, mixed>> /\ misread \subseteq misread'

LEMMA UntouchedStays == Untouched => StaysKnown
BY DEF Untouched, StaysKnown, Known, KnownResolver, HasContainer

LEMMA ComposeUpStays ==
  ASSUME RuntimeAssumption, TypeOK, NEW r \in Starts, ComposeUp(r)
  PROVE  StaysKnown
<1> USE DEF history
<1>1. CASE UNCHANGED <<dep, upBy>>
  BY <1>1, UntouchedStays DEF ComposeUp, Untouched
<1>2. CASE LET d == Head(start[r].todo)
           IN  /\ dep' = [dep EXCEPT ![d] = IF HasContainer(d) THEN @ ELSE "starting"]
               /\ upBy' = [upBy EXCEPT ![d] = IF HasContainer(d) THEN @ ELSE r]
  <2>1. UNCHANGED <<res, resBy, mixed, misread>>
    BY DEF ComposeUp
  <2>2. r # None
    BY DEF RuntimeAssumption
  <2> QED
    BY <1>2, <2>1, <2>2 DEF StaysKnown, Known, KnownResolver, HasContainer, TypeOK
<1> QED
  BY <1>1, <1>2 DEF ComposeUp

LEMMA DelegateStays ==
  ASSUME RuntimeAssumption, TypeOK, NEW r \in Starts, NEW x \in Resolvers,
         UNCHANGED <<dep, upBy, mixed>>,
         res' = [res EXCEPT ![x] = IF @ = "down" THEN "starting" ELSE @],
         resBy' = [resBy EXCEPT ![x] = IF res[x] = "down" THEN r ELSE @],
         misread' = IF res[x] # "down" THEN misread \cup {<<r, x>>} ELSE misread
  PROVE  StaysKnown /\ KnownResolver(r, x)'
<1>1. r # None /\ misread \subseteq misread'
  BY DEF RuntimeAssumption
<1>2. \A q \in Starts : \A d \in Deps : Known(q, d) => Known(q, d)'
  BY <1>1 DEF Known, HasContainer
<1>3. KnownResolver(r, x)'
  BY <1>1 DEF KnownResolver, TypeOK
<1>4. \A q \in Starts : \A y \in Resolvers : KnownResolver(q, y) => KnownResolver(q, y)'
  BY <1>1 DEF KnownResolver, TypeOK
<1> QED
  BY <1>2, <1>3, <1>4 DEF StaysKnown

LEMMA ElsewhereStays == ASSUME TypeOK, Elsewhere PROVE StaysKnown
<1> USE DEF procVars, infraVars, history
<1>1. ASSUME NEW p \in Procs, ServiceStep(p) PROVE StaysKnown
  BY <1>1, UntouchedStays
     DEF ServiceStep, Listen, ExitOnSignal, CrashService, LoseChild, Untouched
<1>2. CASE BecomeReady
  BY <1>2 DEF BecomeReady, StaysKnown, Known, KnownResolver, HasContainer, TypeOK
<1>3. ASSUME NEW d \in Deps, ContainerStops(d) PROVE StaysKnown
  BY <1>3 DEF ContainerStops, StaysKnown, Known, KnownResolver, HasContainer, TypeOK
<1>4. ASSUME NEW d \in Deps, OperatorStartsContainer(d) PROVE StaysKnown
  BY <1>4 DEF OperatorStartsContainer, StaysKnown, Known, KnownResolver, HasContainer, TypeOK
<1>5. ASSUME NEW d \in Deps, ContainerRestarts(d) PROVE StaysKnown
  BY <1>5 DEF ContainerRestarts, StaysKnown, Known, KnownResolver, HasContainer, ComposeRunning,
              TypeOK
<1>6. ASSUME NEW n, StrangerComes(n) \/ StrangerGoes(n) PROVE StaysKnown
  BY <1>6, UntouchedStays DEF StrangerComes, StrangerGoes, Untouched
<1> QED
  BY <1>1, <1>2, <1>3, <1>4, <1>5, <1>6 DEF Elsewhere, WorldStep

LEMMA StopStays == ASSUME TypeOK, NEW s \in Stops, StopStep(s) PROVE StaysKnown
<1> USE DEF procVars, infraVars, history
<1>1. CASE StopDependencies(s)
  BY <1>1 DEF StopDependencies, StaysKnown, Known, KnownResolver, HasContainer, TypeOK
<1>2. CASE StopResolvers(s)
  BY <1>2 DEF StopResolvers, StaysKnown, Known, KnownResolver, HasContainer, TypeOK
<1>3. CASE ~StopDependencies(s) /\ ~StopResolvers(s)
  <2>1. Untouched
    BY <1>3 DEF StopStep, ReadState, StopService, Unlink, CleanPorts, EndStop, KillStop, Untouched
  <2> QED
    BY <2>1, UntouchedStays
<1> QED
  BY <1>1, <1>2, <1>3

\* What a start has claimed, or is about to.
Claims(r) ==
  /\ \A d \in start[r].owned : Known(r, d)
  /\ \A x \in start[r].delegated : KnownResolver(r, x)
  /\ start[r].stage \in {"compose", "waiting"} /\ ~start[r].before =>
       Known(r, Head(start[r].todo))

FileClaims(f) ==
  /\ \A d \in f.owned : Known(f.by, d)
  /\ \A x \in f.delegated : KnownResolver(f.by, x)

\* Looking changes nothing but what has been misread.
LEMMA DiscoverReads ==
  ASSUME NEW r \in Starts, Discover(r) \/ AwaitDependency(r)
  PROVE  Untouched /\ UNCHANGED <<file, up, doomed, stop, disturbed>>
<1>1. misread \subseteq misread'
  BY DEF Discover, AwaitDependency, Misread
<1> QED
  BY <1>1 DEF Discover, AwaitDependency, Untouched, procVars, infraVars

LEMMA StartClaims ==
  ASSUME RuntimeAssumption, TypeOK, NEW r \in Starts, Claims(r), StartStep(r)
  PROVE  StaysKnown /\ Claims(r)'
<1> USE DEF procVars, infraVars, history
<1>0. start[r].owned \subseteq Deps /\ start[r].delegated \subseteq Resolvers
  BY DEF TypeOK, StartRun
<1>1. ASSUME Untouched, Settles(r, "gone") PROVE StaysKnown /\ Claims(r)'
  BY <1>1, UntouchedStays DEF Settles, Claims
<1>2. ASSUME Untouched, Keeps(r, {}, {}), start'[r].stage \notin {"compose", "waiting"}
      PROVE  StaysKnown /\ Claims(r)'
  BY <1>0, <1>2, UntouchedStays DEF Keeps, Claims, StaysKnown
<1>3. ASSUME NEW m \in Modes, Inspect(r, m) PROVE StaysKnown /\ Claims(r)'
  <2>1. Untouched
    BY <1>3 DEF Inspect, Untouched
  <2> QED
    BY <1>0, <1>3, <2>1, InspectIs, UntouchedStays DEF Claims, StaysKnown
<1>4. CASE SkipStart(r)
  BY <1>1, <1>4, StageIs DEF SkipStart, Untouched, Ended
<1>5. ASSUME NEW i \in InfraModes, Precheck(r, i) PROVE StaysKnown /\ Claims(r)'
  <2>1. Untouched
    BY <1>5 DEF Precheck, Untouched
  <2> QED
    BY <1>1, <1>2, <1>5, <2>1, PrecheckIs
<1>6. CASE Discover(r)
  <2>1. Untouched
    BY <1>6, DiscoverReads
  <2>2. ASSUME Keeps(r, {}, {}), start'[r].stage = "compose", start'[r].todo = start[r].todo,
               NEW v, start'[r].before = v.running, Misread(r, Head(start[r].todo), v.running)
        PROVE  StaysKnown /\ Claims(r)'
    <3>1. ~start'[r].before => Known(r, Head(start[r].todo))'
      BY <2>1, <2>2 DEF Known, Untouched, HasContainer, Misread
    <3> QED
      BY <1>0, <2>1, <2>2, <3>1, UntouchedStays DEF Keeps, Claims, StaysKnown
  <2> QED
    BY <1>1, <1>2, <1>6, <2>1, <2>2, DiscoverIs
<1>7. CASE ComposeUp(r)
  <2>1. StaysKnown
    BY <1>7, ComposeUpStays
  <2>2. CASE Settles(r, "gone")
    BY <2>1, <2>2 DEF Settles, Claims
  <2>3. ASSUME Keeps(r, {}, {}), start'[r].stage = "waiting", start'[r].todo = start[r].todo,
               start'[r].before = start[r].before
        PROVE  Claims(r)'
    <3>1. Head(start[r].todo) \in Deps /\ start[r].stage = "compose"
      BY <1>7, HeadTailProperties DEF ComposeUp, InStage, TypeOK, TodoLeft, StartRun
    <3> QED
      BY <1>0, <2>1, <2>3, <3>1 DEF Keeps, Claims, StaysKnown
  <2> QED
    BY <1>7, <2>1, <2>2, <2>3, ComposeUpIs
<1>8. CASE AwaitDependency(r)
  <2> DEFINE d == Head(start[r].todo)
  <2>1. Untouched /\ start[r].stage = "waiting" /\ start[r].todo # <<>>
    BY <1>8, DiscoverReads DEF AwaitDependency, InStage, TypeOK, TodoLeft
  <2>2. d \in Deps
    BY <2>1, HeadTailProperties DEF TypeOK, StartRun
  <2>3. \A v : \A e \in Claimed(r, d, v) : e \in Deps /\ Known(r, e)
    BY <2>1, <2>2 DEF Claimed, Claims
  <2>4. ASSUME NEW v, Keeps(r, Claimed(r, d, v), {}), start'[r].stage = "infra"
        PROVE  StaysKnown /\ Claims(r)'
    BY <1>0, <2>1, <2>3, <2>4, UntouchedStays DEF Keeps, Claims, StaysKnown
  <2> QED
    BY <1>1, <1>8, <2>1, <2>4, AwaitDependencyIs
<1>9. CASE Build(r)
  <2>1. Untouched
    BY <1>9 DEF Build, Untouched
  <2> QED
    BY <1>1, <1>2, <1>9, <2>1, BuildIs
<1>10. ASSUME NEW x \in Resolvers, SkipHealthyResolver(r, x) \/ DelegateResolver(r, x)
       PROVE  StaysKnown /\ Claims(r)'
  <2>1. UNCHANGED <<dep, upBy, mixed>> /\ start'[r].stage = "resolvers"
    BY <1>10, ResolverIs DEF SkipHealthyResolver, DelegateResolver
  <2>2. CASE Keeps(r, {}, {}) /\ UNCHANGED <<res, resBy, misread>>
    BY <1>2, <2>1, <2>2 DEF Untouched
  <2>3. CASE /\ Keeps(r, {}, {x})
             /\ res' = [res EXCEPT ![x] = IF @ = "down" THEN "starting" ELSE @]
             /\ resBy' = [resBy EXCEPT ![x] = IF res[x] = "down" THEN r ELSE @]
             /\ misread' = IF res[x] # "down" THEN misread \cup {<<r, x>>} ELSE misread
    <3>1. StaysKnown /\ KnownResolver(r, x)'
      BY <2>1, <2>3, DelegateStays
    <3> QED
      BY <1>0, <2>1, <2>3, <3>1 DEF Keeps, Claims, StaysKnown
  <2> QED
    BY <1>10, <2>2, <2>3, ResolverIs
<1>11. CASE Spawn(r)
  <2>1. Untouched
    BY <1>11 DEF Spawn, Untouched
  <2> QED
    BY <1>1, <1>2, <1>11, <2>1, SpawnIs
<1>12. ASSUME Untouched, NEW st \in Ended \cup {"running", "cleaning"}, Settles(r, st)
       PROVE  StaysKnown /\ Claims(r)'
  BY <1>12, UntouchedStays DEF Settles, Claims, Ended
<1>13. CASE WriteState(r)
  BY <1>12, <1>13, StageIs DEF WriteState, Untouched
<1>14. CASE ChildExited(r) \/ Interrupt(r)
  BY <1>12, <1>14, CleanupIs DEF Untouched
<1>15. CASE CleanupEnds(r)
  BY <1>12, <1>15, StageIs DEF CleanupEnds, Untouched, Ended
<1>16. CASE KillSupervisor(r)
  BY <1>12, <1>16, StageIs DEF KillSupervisor, Untouched, Ended
<1> QED
  BY <1>3, <1>4, <1>5, <1>6, <1>7, <1>8, <1>9, <1>10, <1>11, <1>13, <1>14, <1>15, <1>16
     DEF StartStep

LEMMA ClaimsInit == Init => ClaimsAreKnown
BY DEF Init, ClaimsAreKnown, IdleStart, IdleStop

LEMMA ClaimsStart ==
  ASSUME RuntimeAssumption, TypeOK, ClaimsAreKnown, NEW r \in Starts, StartStep(r)
  PROVE  ClaimsAreKnown'
<1>1. Claims(r)
  BY DEF ClaimsAreKnown, Claims
<1>2. StaysKnown /\ Claims(r)' /\ Moves(r) /\ Files(r)
  BY <1>1, StartClaims, StartMoves
<1>3. UNCHANGED stop
  BY CleanupIs DEF StartStep, Inspect, SkipStart, Precheck, Discover, ComposeUp, AwaitDependency,
        Build, SkipHealthyResolver, DelegateResolver, Spawn, WriteState, CleanupEnds,
        KillSupervisor
<1>4. ASSUME NEW q \in Starts PROVE Claims(q)'
  <2>1. CASE q = r
    BY <1>2, <2>1
  <2>2. CASE q # r
    <3>1. start'[q] = start[q] /\ start[q] \in StartRun /\ Claims(q)
      BY <1>2, <2>2 DEF Moves, Others, TypeOK, ClaimsAreKnown, Claims
    <3>2. start[q].stage \in {"compose", "waiting"} => Head(start[q].todo) \in Deps
      BY <3>1, HeadTailProperties DEF TypeOK, TodoLeft, StartRun
    <3> QED
      BY <1>2, <3>1, <3>2 DEF Claims, StaysKnown, StartRun
  <2> QED
    BY <2>1, <2>2
<1>5. ASSUME NEW m \in Modes, file'[m] \notin {None, Torn} PROVE FileClaims(file[m])'
  <2>1. CASE file'[m] = file[m]
    BY <1>2, <1>5, <2>1 DEF FileClaims, StaysKnown, ClaimsAreKnown, TypeOK, Record
  <2>2. CASE file'[m] = StateRecord(r)
    BY <1>1, <1>2, <2>2 DEF FileClaims, StaysKnown, Claims, StateRecord, TypeOK, StartRun
  <2> QED
    BY <1>2, <1>5, <2>1, <2>2 DEF Files
<1>6. ASSUME NEW s \in Stops, stop[s].stage \in {"services", "resolvers"}
      PROVE  stop[s].seen \notin {None, Torn} /\ FileClaims(stop[s].seen)'
  <2>1. stop[s].seen \in Record
    BY <1>6 DEF ClaimsAreKnown, TypeOK, StopRun
  <2> QED
    BY <1>2, <1>3, <1>6, <2>1 DEF FileClaims, StaysKnown, ClaimsAreKnown, Record
<1> QED
  BY <1>3, <1>4, <1>5, <1>6 DEF ClaimsAreKnown, Claims, FileClaims

LEMMA ClaimsKept ==
  ASSUME TypeOK, ClaimsAreKnown, StaysKnown,
         \A q \in Starts :
           \/ start'[q] = start[q]
           \/ /\ start'[q].owned = start[q].owned /\ start'[q].delegated = start[q].delegated
              /\ start'[q].stage = "cleaning",
         \A m \in Modes : file'[m] = file[m] \/ file'[m] = None,
         \A t \in Stops : stop'[t].stage \in {"services", "resolvers"} =>
           \/ stop[t].stage \in {"services", "resolvers"} /\ stop'[t].seen = stop[t].seen
           \/ \E m \in Modes : file[m] \notin {None, Torn} /\ stop'[t].seen = file[m]
  PROVE  ClaimsAreKnown'
<1>1. ASSUME NEW q \in Starts PROVE Claims(q)'
  <2>1. start[q] \in StartRun /\ Claims(q)
    BY DEF TypeOK, ClaimsAreKnown, Claims
  <2>2. start[q].stage \in {"compose", "waiting"} => Head(start[q].todo) \in Deps
    BY <2>1, HeadTailProperties DEF TypeOK, TodoLeft, StartRun
  <2> QED
    BY <2>1, <2>2 DEF Claims, StaysKnown, StartRun
<1>2. ASSUME NEW f \in Record, FileClaims(f) PROVE FileClaims(f)'
  BY <1>2 DEF FileClaims, StaysKnown, Record
<1>3. ASSUME NEW m \in Modes, file[m] \notin {None, Torn}
      PROVE  file[m] \in Record /\ FileClaims(file[m])
  BY <1>3 DEF TypeOK, ClaimsAreKnown, FileClaims
<1>4. ASSUME NEW m \in Modes, file'[m] \notin {None, Torn} PROVE FileClaims(file[m])'
  BY <1>2, <1>3, <1>4 DEF FileClaims
<1>5. ASSUME NEW t \in Stops, stop'[t].stage \in {"services", "resolvers"}
      PROVE  stop'[t].seen \notin {None, Torn} /\ FileClaims(stop[t].seen)'
  <2>1. CASE stop[t].stage \in {"services", "resolvers"} /\ stop'[t].seen = stop[t].seen
    <3>1. stop[t].seen \in Record /\ stop[t].seen \notin {None, Torn} /\ FileClaims(stop[t].seen)
      BY <2>1 DEF TypeOK, StopRun, ClaimsAreKnown, FileClaims
    <3> QED
      BY <1>2, <2>1, <3>1 DEF FileClaims
  <2>2. ASSUME NEW m \in Modes, file[m] \notin {None, Torn}, stop'[t].seen = file[m]
        PROVE  stop'[t].seen \notin {None, Torn} /\ FileClaims(stop[t].seen)'
    BY <1>2, <1>3, <2>2 DEF FileClaims
  <2> QED
    BY <1>5, <2>1, <2>2
<1> QED
  BY <1>1, <1>4, <1>5 DEF ClaimsAreKnown, Claims, FileClaims

LEMMA StopSees ==
  ASSUME TypeOK, NEW s \in Stops, StopGoesOnStep(s),
         stop'[s].stage \in {"services", "resolvers"}
  PROVE  stop[s].stage \in {"services", "resolvers"} /\ stop'[s].seen = stop[s].seen
<1>1. ASSUME NEW p \in Procs, StopService(s, p)
      PROVE  stop[s].stage \in {"services", "resolvers"} /\ stop'[s].seen = stop[s].seen
  BY <1>1, StopServiceIs DEF StopService
<1>2. CASE StopDependencies(s) \/ StopResolvers(s)
  <2>1. PICK st \in {"resolvers", "unlink"} : SetStop(s, [stop[s] EXCEPT !.stage = st])
    BY <1>2 DEF StopDependencies, StopResolvers
  <2> QED
    BY <1>2, <2>1, StopGoesOn DEF StopDependencies, StopResolvers
<1>3. CASE Unlink(s) \/ CleanPorts(s) \/ EndStop(s) \/ KillStop(s)
  BY <1>3, EndStopIs DEF Unlink, CleanPorts, EndStop, KillStop
<1> QED
  BY <1>1, <1>2, <1>3 DEF StopGoesOnStep

LEMMA ClaimsStep ==
  RuntimeAssumption /\ TypeOK /\ ClaimsAreKnown /\ [Next]_vars => ClaimsAreKnown'
<1> SUFFICES ASSUME RuntimeAssumption, TypeOK, ClaimsAreKnown, [Next]_vars PROVE ClaimsAreKnown'
  OBVIOUS
<1>1. CASE Elsewhere
  BY <1>1, ElsewhereIsCalm, ElsewhereStays, ClaimsKept DEF Calm
<1>2. ASSUME NEW s \in Stops, StopGoesOnStep(s) PROVE ClaimsAreKnown'
  <2>1. StaysKnown
    BY <1>2, StopStays DEF StopStep, StopGoesOnStep
  <2>2. \A t \in Stops : stop'[t].stage \in {"services", "resolvers"} =>
          stop[t].stage \in {"services", "resolvers"} /\ stop'[t].seen = stop[t].seen
    BY <1>2, StopIsCalm, StopSees
  <2> QED
    BY <1>2, <2>1, <2>2, StopIsCalm, ClaimsKept DEF Calm
<1>3. ASSUME NEW s \in Stops, NEW m \in Modes, ReadState(s, m) PROVE ClaimsAreKnown'
  <2>1. StaysKnown /\ UNCHANGED file
    BY <1>3, StopStays DEF StopStep, ReadState
  <2>2. \A q \in Starts :
          \/ start'[q] = start[q]
          \/ /\ start'[q].owned = start[q].owned /\ start'[q].delegated = start[q].delegated
             /\ start'[q].stage = "cleaning"
    BY <1>3, ReadStateIs DEF Keeps, Others, Record
  <2>3. \A t \in Stops : stop'[t].stage \in {"services", "resolvers"} =>
           \/ stop[t].stage \in {"services", "resolvers"} /\ stop'[t].seen = stop[t].seen
           \/ file[m] \notin {None, Torn} /\ stop'[t].seen = file[m]
    BY <1>3, ReadStateIs DEF RuntimeAssumption
  <2> QED
    BY <2>1, <2>2, <2>3, ClaimsKept
<1>4. CASE UNCHANGED vars
  <2>1. UNCHANGED <<start, stop, file>> /\ Untouched
    BY <1>4 DEF vars, infraVars, history, Untouched
  <2> QED
    BY <2>1, UntouchedStays, ClaimsKept
<1> QED
  BY <1>1, <1>2, <1>3, <1>4, ClaimsStart DEF Next, Elsewhere, WorldStep, StopStep, StopGoesOnStep

-----------------------------------------------------------------------------
(***************************************************************************)
(* Starts that nobody disturbs.                                            *)
(***************************************************************************)

Middle == Working \ {"spawned"}

\* What a start does, as far as others are concerned.
LEMMA StartKinds ==
  ASSUME RuntimeAssumption, TypeOK, NEW r \in Starts, StartStep(r)
  PROVE  \/ \E m \in Modes : Inspect(r, m)
         \/ /\ start[r].stage = "skipping" \/ start[r].stage \in Middle
            /\ \/ start'[r].stage = "gone"
               \/ start[r].stage \in Middle /\ start'[r].stage \in Working
            /\ UNCHANGED <<file, doomed, stop, disturbed>>
         \/ /\ WriteState(r) /\ start[r].stage = "spawned" /\ start'[r].stage = "running"
            /\ UNCHANGED <<up, doomed, stop, disturbed>>
         \/ ChildExited(r) \/ Interrupt(r)
         \/ /\ CleanupEnds(r) /\ start[r].stage = "cleaning" /\ start'[r].stage = "gone"
            /\ UNCHANGED <<up, doomed, stop, disturbed>>
         \/ /\ KillSupervisor(r) /\ SupervisorAlive(r)
            /\ start'[r].stage = IF start[r].stage = "spawned" THEN "orphaned" ELSE "killed"
            /\ UNCHANGED <<up, doomed, stop, disturbed>>
<1> USE DEF procVars, history, InStage, Middle, Working
<1>1. CASE SkipStart(r)
  BY <1>1, StageIs DEF SkipStart, Settles, Ended
<1>2. ASSUME NEW i \in InfraModes, Precheck(r, i)
      PROVE  /\ start[r].stage \in Middle
             /\ start'[r].stage = "gone" \/ start'[r].stage \in Working
             /\ UNCHANGED <<file, doomed, stop, disturbed>>
  BY <1>2, PrecheckIs DEF Precheck, Settles
<1>3. CASE Discover(r)
  <2>1. start'[r].stage = "gone" \/ start'[r].stage \in Working
    BY <1>3, DiscoverIs DEF Settles
  <2> QED
    BY <1>3, <2>1 DEF Discover
<1>4. CASE ComposeUp(r)
  <2>1. start'[r].stage = "gone" \/ start'[r].stage \in Working
    BY <1>4, ComposeUpIs DEF Settles
  <2> QED
    BY <1>4, <2>1 DEF ComposeUp
<1>5. CASE AwaitDependency(r)
  <2>1. start'[r].stage = "gone" \/ start'[r].stage \in Working
    BY <1>5, AwaitDependencyIs DEF Settles, AwaitDependency, TypeOK, TodoLeft
  <2> QED
    BY <1>5, <2>1 DEF AwaitDependency
<1>6. CASE Build(r)
  BY <1>6, BuildIs DEF Build, Settles
<1>7. ASSUME NEW x \in Resolvers, SkipHealthyResolver(r, x) \/ DelegateResolver(r, x)
      PROVE  /\ start[r].stage \in Middle /\ start'[r].stage \in Working
             /\ UNCHANGED <<file, doomed, stop, disturbed>>
  BY <1>7, ResolverIs DEF SkipHealthyResolver, DelegateResolver
<1>8. CASE Spawn(r)
  BY <1>8, SpawnIs DEF Spawn, Settles
<1>9. CASE WriteState(r)
  BY <1>9, StageIs DEF WriteState, Settles
<1>10. CASE CleanupEnds(r)
  BY <1>10, StageIs DEF CleanupEnds, Settles, Ended
<1>11. CASE KillSupervisor(r)
  <2>1. CASE start[r].stage = "spawned"
    BY <1>11, <2>1, StageIs DEF KillSupervisor, Settles, Ended
  <2>2. CASE start[r].stage # "spawned"
    BY <1>11, <2>2, StageIs DEF KillSupervisor, Settles, Ended
  <2> QED
    BY <2>1, <2>2
<1> QED
  BY <1>1, <1>2, <1>3, <1>4, <1>5, <1>6, <1>7, <1>8, <1>9, <1>10, <1>11 DEF StartStep

LEMMA NextKinds ==
  ASSUME [Next]_vars
  PROVE  \/ \E r \in Starts : StartStep(r)
         \/ \E s \in Stops, m \in Modes : ReadState(s, m)
         \/ \E s \in Stops : StopGoesOnStep(s)
         \/ Elsewhere
         \/ UNCHANGED vars
BY DEF Next, Elsewhere, WorldStep, StopStep, StopGoesOnStep

LEMMA CalmDisturbs ==
  ASSUME Elsewhere \/ (\E s \in Stops : StopGoesOnStep(s)) \/ UNCHANGED vars
  PROVE  UNCHANGED disturbed
<1> USE DEF history
<1>1. CASE Elsewhere
  BY <1>1 DEF Elsewhere, ServiceStep, Listen, ExitOnSignal, CrashService, LoseChild, WorldStep,
              BecomeReady, ContainerStops, OperatorStartsContainer, ContainerRestarts,
              StrangerComes, StrangerGoes
<1>2. ASSUME NEW s \in Stops, StopGoesOnStep(s) PROVE UNCHANGED disturbed
  BY <1>2 DEF StopGoesOnStep, StopService, StopDependencies, StopResolvers, Unlink, CleanPorts,
              EndStop, KillStop
<1> QED
  BY <1>1, <1>2 DEF vars

LEMMA DisturbedStays ==
  ASSUME RuntimeAssumption, TypeOK, [Next]_vars PROVE disturbed \subseteq disturbed'
<1>1. ASSUME NEW r \in Starts, StartStep(r) PROVE disturbed \subseteq disturbed'
  BY <1>1, StartKinds, CleanupIs DEF Inspect, StartBecomesActive, Disturb
<1>2. ASSUME NEW s \in Stops, NEW m \in Modes, ReadState(s, m) PROVE disturbed \subseteq disturbed'
  BY <1>2 DEF ReadState, StopBecomesActive, Disturb
<1> QED
  BY <1>1, <1>2, NextKinds, CalmDisturbs

\* Nobody's processes but its own come up, and what is told stays told.
LEMMA LiveStays ==
  ASSUME RuntimeAssumption, TypeOK, [Next]_vars, NEW r \in Starts, start'[r].stage # "spawned"
  PROVE  Live(r)' \subseteq Live(r)
<1>1. ASSUME NEW q \in Starts, StartStep(q) PROVE Live(r)' \subseteq Live(r)
  <2>1. Moves(q) /\ doomed \subseteq doomed'
    BY <1>1, StartMoves DEF Moves, Told
  <2>2. CASE UNCHANGED up
    BY <2>1, <2>2 DEF Live
  <2>3. CASE /\ start'[q].stage = "spawned"
             /\ start'[q].spawned \subseteq Services \X {q}
             /\ up' = up \cup start'[q].spawned
    BY <2>1, <2>3 DEF Live, By
  <2> QED
    BY <2>1, <2>2, <2>3 DEF Moves
<1>2. ASSUME NEW s \in Stops, NEW m \in Modes, ReadState(s, m) PROVE Live(r)' \subseteq Live(r)
  BY <1>2 DEF ReadState, Live
<1>3. CASE Calm
  BY <1>3 DEF Calm, Live
<1>4. CASE UNCHANGED vars
  BY <1>4 DEF vars, procVars, Live
<1> QED
  BY <1>1, <1>2, <1>3, <1>4, NextKinds, StopIsCalm, ElsewhereIsCalm

\* A start holds a stack only from when it has recorded it.
LEMMA HeldBefore ==
  ASSUME RuntimeAssumption, TypeOK, Processes, [Next]_vars, NEW r \in Starts, Holds(r)'
  PROVE  Holds(r) \/ (WriteState(r) /\ start[r].stage = "spawned" /\ UNCHANGED disturbed)
<1>1. /\ Undisturbed(r) /\ start'[r].stage \in {"running", "killed"}
      /\ start'[r].stage = "killed" => Live(r)' # {}
  BY DisturbedStays DEF Holds, Undisturbed, InStage
<1>2. Live(r)' \subseteq Live(r)
  BY <1>1, LiveStays
<1>3. ASSUME start'[r] = start[r] PROVE Holds(r)
  BY <1>1, <1>2, <1>3 DEF Holds, InStage
<1>4. ASSUME NEW q \in Starts, StartStep(q), q # r PROVE start'[r] = start[r]
  BY <1>4, StartMoves DEF Moves, Others
<1>5. ASSUME StartStep(r)
      PROVE  Holds(r) \/ (WriteState(r) /\ start[r].stage = "spawned" /\ UNCHANGED disturbed)
  <2>1. CASE WriteState(r) /\ start[r].stage = "spawned" /\ UNCHANGED disturbed
    BY <2>1
  <2>2. CASE /\ KillSupervisor(r) /\ SupervisorAlive(r)
             /\ start'[r].stage = IF start[r].stage = "spawned" THEN "orphaned" ELSE "killed"
    <3>1. start[r].stage # "spawned" /\ Live(r) # {}
      BY <1>1, <1>2, <2>2
    <3>2. PICK p \in up \ doomed : By(p) = r
      BY <3>1 DEF Live
    <3>3. start[r].stage \notin Fresh \cup {"cleaning", "gone"}
      BY <3>2 DEF Processes, Spawned
    <3>4. start[r].stage \in StartStage
      BY DEF TypeOK, StartRun
    <3>5. start[r].stage = "running"
      BY <2>2, <3>1, <3>3, <3>4 DEF SupervisorAlive, Ended, StartStage, Working, Fresh
    <3> QED
      BY <1>1, <3>5 DEF Holds, InStage
  <2>3. CASE \E m \in Modes : Inspect(r, m)
    BY <1>1, <2>3, InspectIs
  <2>4. CASE ChildExited(r) \/ Interrupt(r)
    BY <1>1, <2>4, CleanupIs DEF Settles
  <2> QED
    BY <1>1, <1>5, <2>1, <2>2, <2>3, <2>4, StartKinds DEF Working
<1>6. ASSUME NEW s \in Stops, NEW m \in Modes, ReadState(s, m) PROVE start'[r] = start[r]
  BY <1>1, <1>6, ReadStateIs DEF Keeps, Others, Record
<1>7. CASE Calm \/ UNCHANGED vars
  BY <1>3, <1>7 DEF Calm, vars
<1> QED
  BY <1>3, <1>4, <1>5, <1>6, <1>7, NextKinds, StopIsCalm, ElsewhereIsCalm

\* Whoever becomes active disturbs those that are.
LEMMA Crowd ==
  ASSUME RuntimeAssumption, TypeOK, [Next]_vars, NEW q \in Starts, ActiveStart(q)
  PROVE  /\ \A p \in Starts \ {q} : ActiveStart(p)' => ActiveStart(p) \/ q \in disturbed'
         /\ ActiveStops' \subseteq ActiveStops \/ q \in disturbed'
<1> USE DEF ActiveStart, InStage, SupervisorAlive, Ended
<1>1. ASSUME NEW r \in Starts, StartStep(r)
      PROVE  /\ \A p \in Starts \ {q} : ActiveStart(p)' => ActiveStart(p) \/ q \in disturbed'
             /\ UNCHANGED stop
  <2>1. UNCHANGED stop
    BY <1>1, StartKinds, CleanupIs DEF Inspect
  <2>2. Others(r)
    BY <1>1, StartMoves DEF Moves
  <2>3. r # q => (ActiveStart(r)' => ActiveStart(r) \/ q \in disturbed')
    <3>1. CASE \E m \in Modes : Inspect(r, m)
      BY <3>1 DEF Inspect, StartBecomesActive, Disturb
    <3>2. CASE ChildExited(r) \/ Interrupt(r)
      BY <3>2, CleanupIs DEF Beside
    <3>3. CASE start[r].stage = "skipping" \/ start[r].stage \in Middle
      BY <3>3 DEF Middle, Working
    <3> QED
      BY <1>1, <3>1, <3>2, <3>3, StartKinds
  <2> QED
    BY <2>1, <2>2, <2>3 DEF Others
<1>2. ASSUME NEW s \in Stops, NEW m \in Modes, ReadState(s, m) PROVE q \in disturbed'
  BY <1>2 DEF ReadState, StopBecomesActive, Disturb
<1>3. ASSUME NEW s \in Stops, StopGoesOnStep(s)
      PROVE  UNCHANGED start /\ ActiveStops' \subseteq ActiveStops
  <2>1. s \in ActiveStops
    BY <1>3 DEF StopGoesOnStep, StopService, StopDependencies, StopResolvers, Unlink, CleanPorts,
                EndStop, KillStop, ActiveStops
  <2> QED
    BY <1>3, <2>1, StopIsCalm DEF Calm, ActiveStops
<1>4. CASE Elsewhere \/ UNCHANGED vars
  BY <1>4, ElsewhereIsCalm DEF Calm, vars, ActiveStops
<1> QED
  BY <1>1, <1>2, <1>3, <1>4, NextKinds DEF ActiveStops

\* A start that works either did, or has found no stack; beside another it is
\* disturbed.
LEMMA Begins ==
  ASSUME RuntimeAssumption, TypeOK, [Next]_vars, NEW r \in Starts, start'[r].stage \in Working,
         r \notin disturbed'
  PROVE  \/ start[r].stage \in Working
         \/ /\ \A n \in Modes : ~IsStateAlive(file[n])
            /\ ActiveStops = {} /\ \A q \in Starts \ {r} : ~ActiveStart(q)
            /\ UNCHANGED stop /\ Others(r)
<1> USE DEF Working
<1>1. ASSUME NEW m \in Modes, Inspect(r, m)
      PROVE  /\ \A n \in Modes : ~IsStateAlive(file[n])
             /\ ActiveStops = {} /\ \A q \in Starts \ {r} : ~ActiveStart(q)
             /\ UNCHANGED stop /\ Others(r)
  <2>1. start'[r].stage = "checking" /\ UNCHANGED stop
    BY <1>1, InspectIs DEF Inspect
  <2>2. StartBecomesActive(r)
    BY <1>1 DEF Inspect
  <2> QED
    BY <1>1, <2>1, <2>2, InspectIs DEF StartBecomesActive, Disturb
<1>2. ASSUME StartStep(r), \A m \in Modes : ~Inspect(r, m) PROVE start[r].stage \in Working
  BY <1>2, StartKinds, CleanupIs DEF Settles, Middle
<1>3. ASSUME NEW q \in Starts, StartStep(q), q # r PROVE start'[r] = start[r]
  BY <1>3, StartMoves DEF Moves, Others
<1>4. ASSUME NEW s \in Stops, NEW m \in Modes, ReadState(s, m) PROVE start'[r] = start[r]
  BY <1>4, ReadStateIs DEF Keeps, Others, Record
<1>5. CASE Calm \/ UNCHANGED vars
  BY <1>5 DEF Calm, vars
<1> QED
  BY <1>1, <1>2, <1>3, <1>4, <1>5, NextKinds, StopIsCalm, ElsewhereIsCalm

\* A stack that is held is seen by whoever looks.
LEMMA HeldIsSeen ==
  ASSUME RuntimeAssumption, TypeOK, Processes, StackIsHeld, NEW r \in Starts, Holds(r)
  PROVE  start[r].mode \in Modes /\ IsStateAlive(file[start[r].mode])
<1> DEFINE m == start[r].mode
<1>1. m \in Modes
  BY DEF Holds, InStage, Processes, Spawned
<1>2. file[m] \notin {None, Torn} /\ file[m].by = r /\ file[m].pids = start[r].spawned
  BY <1>1 DEF StackIsHeld, Processes, FilesAreTrue
<1>3. CASE InStage(r, "running")
  BY <1>1, <1>2, <1>3 DEF IsStateAlive, SupervisorAlive, InStage, Ended
<1>4. CASE Live(r) # {}
  BY <1>1, <1>2, <1>4 DEF IsStateAlive, Live, Processes, Spawned
<1> QED
  BY <1>3, <1>4 DEF Holds

LEMMA AloneStep ==
  ASSUME RuntimeAssumption, TypeOK, Processes, Alone, StackIsHeld, [Next]_vars
  PROVE  Alone'
<1> SUFFICES ASSUME NEW r \in Starts, r \notin disturbed', start'[r].stage \in Working
             PROVE  /\ ActiveStops' = {}
                    /\ \A q \in Starts \ {r} : ~ActiveStart(q)' /\ ~Holds(q)'
  BY DEF Alone, Undisturbed
<1>1. CASE start[r].stage \in Working
  <2>1. Undisturbed(r) /\ ActiveStart(r)
    BY <1>1, DisturbedStays DEF Undisturbed, ActiveStart, SupervisorAlive, InStage, Ended, Working
  <2>2. ActiveStops = {} /\ \A q \in Starts \ {r} : ~ActiveStart(q) /\ ~Holds(q)
    BY <1>1, <2>1 DEF Alone
  <2>3. ActiveStops' = {} /\ \A q \in Starts \ {r} : ~ActiveStart(q)'
    BY <2>1, <2>2, Crowd
  <2>4. ASSUME NEW q \in Starts \ {r} PROVE ~Holds(q)'
    BY <2>2, HeldBefore DEF ActiveStart, SupervisorAlive, InStage, Ended
  <2> QED
    BY <2>3, <2>4
<1>2. CASE /\ \A n \in Modes : ~IsStateAlive(file[n])
           /\ ActiveStops = {} /\ \A q \in Starts \ {r} : ~ActiveStart(q)
           /\ UNCHANGED stop /\ Others(r)
  <2>1. ActiveStops' = {} /\ \A q \in Starts \ {r} : ~ActiveStart(q)'
    BY <1>2 DEF ActiveStops, ActiveStart, SupervisorAlive, InStage, Others
  <2>2. \A q \in Starts : ~Holds(q)
    BY <1>2, HeldIsSeen
  <2>3. ASSUME NEW q \in Starts \ {r} PROVE ~Holds(q)'
    BY <1>2, <2>2, HeldBefore DEF ActiveStart, SupervisorAlive, InStage, Ended
  <2> QED
    BY <2>1, <2>3
<1> QED
  BY <1>1, <1>2, Begins

-----------------------------------------------------------------------------
(***************************************************************************)
(* A stack that is held stays on file.                                     *)
(***************************************************************************)

\* The conjuncts of StackIsHeld for one start.
OnFile(r) == LET f == file[start[r].mode] IN f \notin {None, Torn} /\ f.by = r

OthersAreOff(r) ==
  \A q \in Starts \ {r} :
    /\ start[q].stage \in Ended \cup {"running", "skipping", "cleaning"}
    /\ start[q].stage = "cleaning" => start[q].mode # start[r].mode
    /\ ~Holds(q)

StopsAreOff(r) ==
  \A s \in Stops :
    stop[s].mode = start[r].mode /\ stop[s].stage \in {"services", "resolvers", "unlink"} =>
      InStage(r, "killed") /\ stop[s].stage = "services" /\ Live(r) \subseteq stop[s].todo

LEMMA HeldParts ==
  StackIsHeld <=> \A r \in Starts : Holds(r) => OnFile(r) /\ OthersAreOff(r) /\ StopsAreOff(r)
BY DEF StackIsHeld, OnFile, OthersAreOff, StopsAreOff

LEMMA HeldRuns ==
  ASSUME RuntimeAssumption, TypeOK, Processes, [Next]_vars, NEW r \in Starts, Holds(r), Holds(r)'
  PROVE  /\ start[r].mode \in Modes /\ start'[r].mode = start[r].mode
         /\ InStage(r, "killed") => InStage(r, "killed")'
         /\ Live(r)' \subseteq Live(r) /\ r \notin disturbed'
<1>1. start[r].stage \in {"running", "killed"} /\ start[r].mode \in Modes
  BY DEF Holds, InStage, Processes, Spawned
<1>2. ASSUME NEW q \in Starts, StartStep(q)
      PROVE  /\ start'[r].mode = start[r].mode
             /\ InStage(r, "killed") => InStage(r, "killed")'
  <2>1. CASE q # r
    BY <1>2, <2>1, StartMoves DEF Moves, Others, InStage
  <2>2. CASE q = r
    <3>1. start'[r].mode = start[r].mode
      BY <1>1, <1>2, <2>2, StartMoves DEF Moves
    <3>2. ~InStage(r, "killed")
      BY <1>2, <2>2, StartKinds, CleanupIs
         DEF Inspect, Middle, Working, InStage, SupervisorAlive, Ended
    <3> QED
      BY <3>1, <3>2
  <2> QED
    BY <2>1, <2>2
<1>3. ASSUME NEW s \in Stops, NEW m \in Modes, ReadState(s, m)
      PROVE  /\ start'[r].mode = start[r].mode
             /\ InStage(r, "killed") => InStage(r, "killed")'
  BY <1>3, ReadStateIs DEF Keeps, Others, InStage, Record
<1>4. ASSUME Calm \/ UNCHANGED vars
      PROVE  /\ start'[r].mode = start[r].mode
             /\ InStage(r, "killed") => InStage(r, "killed")'
  BY <1>4 DEF Calm, vars, InStage
<1>5. start'[r].stage # "spawned" /\ r \notin disturbed'
  BY DEF Holds, InStage, Undisturbed
<1>6. Live(r)' \subseteq Live(r)
  BY <1>5, LiveStays
<1> QED
  BY <1>1, <1>2, <1>3, <1>4, <1>5, <1>6, NextKinds, StopIsCalm, ElsewhereIsCalm

LEMMA FileStays ==
  ASSUME RuntimeAssumption, TypeOK, Processes, StackIsHeld, [Next]_vars, NEW r \in Starts,
         Holds(r), Holds(r)'
  PROVE  file'[start[r].mode] = file[start[r].mode]
<1> DEFINE m == start[r].mode
<1>1. m \in Modes /\ OnFile(r) /\ OthersAreOff(r) /\ StopsAreOff(r)
  BY HeldRuns, HeldParts
<1>2. ASSUME NEW q \in Starts, StartStep(q) PROVE file'[m] = file[m]
  <2>1. CASE \E n \in Modes : Inspect(q, n)
    <3>1. IsStateAlive(file[m])
      BY HeldIsSeen
    <3> QED
      BY <1>1, <2>1, <3>1 DEF Inspect
  <2>2. CASE UNCHANGED file
    BY <2>2
  <2>3. CASE WriteState(q) /\ start[q].stage = "spawned"
    BY <1>1, <2>3 DEF OthersAreOff, Holds, InStage, Ended
  <2>4. CASE CleanupEnds(q) /\ start[q].stage = "cleaning"
    <3>1. q # r
      BY <2>4 DEF Holds, InStage
    <3>2. start[q].mode # m
      BY <1>1, <2>4, <3>1 DEF OthersAreOff
    <3> QED
      BY <1>1, <2>4, <3>2 DEF CleanupEnds, TypeOK
  <2>5. CASE KillSupervisor(q)
    <3>1. start[q].stage # "spawned"
      BY <1>1 DEF OthersAreOff, Holds, InStage, Ended
    <3> QED
      BY <2>5, <3>1 DEF KillSupervisor, InStage
  <2>6. CASE ChildExited(q) \/ Interrupt(q)
    BY <2>6, CleanupIs
  <2> QED
    BY <1>2, <2>1, <2>2, <2>3, <2>4, <2>5, <2>6, StartKinds
<1>3. ASSUME NEW s \in Stops, StopGoesOnStep(s) PROVE file'[m] = file[m]
  <2>1. CASE Unlink(s)
    <3>1. stop[s].mode # m
      BY <1>1, <2>1 DEF Unlink, StopsAreOff
    <3> QED
      BY <1>1, <2>1, <3>1 DEF Unlink, TypeOK
  <2>2. CASE ~Unlink(s)
    BY <1>3, <2>2 DEF StopGoesOnStep, StopService, StopDependencies, StopResolvers, CleanPorts,
                      EndStop, KillStop
  <2> QED
    BY <2>1, <2>2
<1>4. ASSUME NEW s \in Stops, NEW n \in Modes, ReadState(s, n) PROVE file'[m] = file[m]
  BY <1>4 DEF ReadState
<1> QED
  BY <1>2, <1>3, <1>4, NextKinds, ElsewhereIsCalm DEF vars

\* Where the other starts are.
LEMMA OthersStayOff ==
  ASSUME RuntimeAssumption, TypeOK, Processes, StackIsHeld, [Next]_vars, NEW r \in Starts,
         Holds(r), Holds(r)'
  PROVE  OthersAreOff(r)'
<1> SUFFICES ASSUME NEW q \in Starts \ {r}
             PROVE  /\ start'[q].stage \in Ended \cup {"running", "skipping", "cleaning"}
                    /\ start'[q].stage = "cleaning" => start'[q].mode # start'[r].mode
                    /\ ~Holds(q)'
  BY DEF OthersAreOff
<1>1. OnFile(r) /\ OthersAreOff(r)
  BY HeldParts
<1>2. /\ start[q].stage \in Ended \cup {"running", "skipping", "cleaning"}
      /\ start[q].stage = "cleaning" => start[q].mode # start[r].mode
      /\ ~Holds(q)
  BY <1>1 DEF OthersAreOff
<1>3. start'[r].mode = start[r].mode /\ start[r].mode \in Modes /\ r \notin disturbed'
  BY HeldRuns
<1>4. ~Holds(q)'
  BY <1>2, HeldBefore DEF Ended
<1>5. ASSUME start'[q] = start[q]
      PROVE  /\ start'[q].stage \in Ended \cup {"running", "skipping", "cleaning"}
             /\ start'[q].stage = "cleaning" => start'[q].mode # start'[r].mode
  BY <1>2, <1>3, <1>5
<1>6. ASSUME StartStep(q)
      PROVE  /\ start'[q].stage \in Ended \cup {"running", "skipping", "cleaning"}
             /\ start'[q].stage = "cleaning" => start'[q].mode # start'[r].mode
  <2>1. CASE \E m \in Modes : Inspect(q, m)
    <3>1. IsStateAlive(file[start[r].mode])
      BY HeldIsSeen
    <3> QED
      BY <1>3, <2>1, <3>1, InspectIs DEF Ended
  <2>2. CASE ChildExited(q) \/ Interrupt(q)
    <3>1. start'[q].stage = "cleaning" /\ start'[q].mode = start[q].mode
      BY <2>2, CleanupIs DEF Settles
    <3>2. start[q].mode # start[r].mode
      BY <1>3, <2>2, CleanupIs DEF Beside
    <3> QED
      BY <1>3, <3>1, <3>2
  <2>3. CASE start'[q].stage \in {"gone", "killed", "running"}
    BY <2>3 DEF Ended
  <2> QED
    BY <1>2, <1>6, <2>1, <2>2, <2>3, StartKinds DEF Ended, Middle, Working
<1>7. ASSUME NEW p \in Starts, StartStep(p), p # q PROVE start'[q] = start[q]
  BY <1>7, StartMoves DEF Moves, Others
<1>8. ASSUME NEW s \in Stops, NEW m \in Modes, ReadState(s, m)
      PROVE  /\ start'[q].stage \in Ended \cup {"running", "skipping", "cleaning"}
             /\ start'[q].stage = "cleaning" => start'[q].mode # start'[r].mode
  <2>1. CASE start'[q] = start[q]
    BY <1>5, <2>1
  <2>2. CASE start'[q] # start[q]
    <3>1. /\ file[m] \in Record /\ q = file[m].by /\ start'[q].stage = "cleaning"
          /\ start'[q].mode = start[q].mode
      BY <1>8, <2>2, ReadStateIs DEF Keeps, Others, Record
    <3>2. start[q].mode = m
      BY <3>1 DEF Processes, FilesAreTrue, RuntimeAssumption
    <3>3. m # start[r].mode
      BY <1>1, <3>1 DEF OnFile
    <3> QED
      BY <1>3, <3>1, <3>2, <3>3
  <2> QED
    BY <2>1, <2>2
<1>9. CASE Calm \/ UNCHANGED vars
  BY <1>4, <1>5, <1>9 DEF Calm, vars
<1> QED
  BY <1>4, <1>5, <1>6, <1>7, <1>8, <1>9, NextKinds, StopIsCalm, ElsewhereIsCalm

LEMMA StartsLeaveStops ==
  ASSUME RuntimeAssumption, TypeOK, NEW r \in Starts, StartStep(r) PROVE UNCHANGED stop
BY StartKinds, CleanupIs DEF Inspect

\* Where the stops are.
LEMMA StopsStayOff ==
  ASSUME RuntimeAssumption, TypeOK, Processes, StackIsHeld, [Next]_vars, NEW r \in Starts,
         Holds(r), Holds(r)'
  PROVE  StopsAreOff(r)'
<1> DEFINE m == start[r].mode
<1> SUFFICES ASSUME NEW s \in Stops, stop'[s].mode = start'[r].mode,
                    stop'[s].stage \in {"services", "resolvers", "unlink"}
             PROVE  /\ InStage(r, "killed")' /\ stop'[s].stage = "services"
                    /\ Live(r)' \subseteq stop'[s].todo
  BY DEF StopsAreOff
<1>1. OnFile(r) /\ StopsAreOff(r)
  BY HeldParts
<1>2. /\ m \in Modes /\ stop'[s].mode = m
      /\ InStage(r, "killed") => InStage(r, "killed")'
      /\ Live(r)' \subseteq Live(r)
  BY HeldRuns
<1>3. stop[s].mode = m /\ stop[s].stage \in {"services", "resolvers", "unlink"} =>
        InStage(r, "killed") /\ stop[s].stage = "services" /\ Live(r) \subseteq stop[s].todo
  BY <1>1 DEF StopsAreOff
<1>4. ASSUME stop'[s] = stop[s]
      PROVE  /\ InStage(r, "killed")' /\ stop'[s].stage = "services"
             /\ Live(r)' \subseteq stop'[s].todo
  BY <1>2, <1>3, <1>4
<1>5. ASSUME NEW q \in Starts, StartStep(q) PROVE stop'[s] = stop[s]
  BY <1>5, StartsLeaveStops
<1>6. ASSUME NEW t \in Stops, t # s, StopStep(t) PROVE stop'[s] = stop[s]
  <2>1. CASE \E n \in Modes : ReadState(t, n)
    BY <1>6, <2>1, ReadStateIs
  <2>2. CASE StopGoesOnStep(t)
    BY <1>6, <2>2, StopIsCalm
  <2> QED
    BY <1>6, <2>1, <2>2 DEF StopStep, StopGoesOnStep
<1>7. ASSUME NEW p \in Procs, StopService(s, p)
      PROVE  /\ InStage(r, "killed")' /\ stop'[s].stage = "services"
             /\ Live(r)' \subseteq stop'[s].todo
  <2>1. /\ stop[s].stage = stop'[s].stage /\ stop[s].mode = m
        /\ stop'[s].todo = stop[s].todo \ {p}
    BY <1>2, <1>7, StopServiceIs
  <2>2. p \notin Live(r)'
    BY <1>7 DEF StopService, Live
  <2> QED
    BY <1>2, <1>3, <2>1, <2>2
<1>8. CASE StopDependencies(s) \/ StopResolvers(s)
  <2>1. PICK st \in {"resolvers", "unlink"} : SetStop(s, [stop[s] EXCEPT !.stage = st])
    BY <1>8 DEF StopDependencies, StopResolvers
  <2>2. stop[s].mode = m
    BY <1>2, <2>1, StopGoesOn
  <2>3. InStage(r, "killed") /\ stop[s].stage = "services" /\ Live(r) \subseteq stop[s].todo
    BY <1>3, <1>8, <2>2 DEF StopDependencies, StopResolvers
  <2>4. Live(r) # {}
    BY <2>3 DEF Holds, InStage
  <2> QED
    BY <1>8, <2>3, <2>4 DEF StopDependencies, StopResolvers
<1>9. CASE Unlink(s) \/ CleanPorts(s) \/ EndStop(s) \/ KillStop(s)
  BY <1>9, EndStopIs DEF Unlink, CleanPorts, EndStop, KillStop
<1>10. ASSUME NEW n \in Modes, ReadState(s, n)
      PROVE  /\ InStage(r, "killed")' /\ stop'[s].stage = "services"
             /\ Live(r)' \subseteq stop'[s].todo
  <2>1. n = m /\ file[m] \notin {None, Torn} /\ file[m].by = r
    BY <1>1, <1>2, <1>10, ReadStateIs DEF OnFile
  <2>2. /\ stop'[s].stage = "services" /\ stop'[s].todo = file[m].pids
        /\ InStage(r, "running") => start'[r].stage = "cleaning"
    BY <1>10, <2>1, ReadStateIs DEF InStage
  <2>3. InStage(r, "killed")
    BY <2>2 DEF Holds, InStage
  <2>4. Live(r) \subseteq start[r].spawned
    BY DEF Live, Processes, Spawned
  <2>5. file[m].pids = start[r].spawned
    BY <1>2, <2>1 DEF Processes, FilesAreTrue
  <2> QED
    BY <1>2, <2>2, <2>3, <2>4, <2>5
<1>11. CASE Elsewhere \/ UNCHANGED vars
  BY <1>4, <1>11, ElsewhereIsCalm DEF vars
<1> QED
  BY <1>4, <1>5, <1>6, <1>7, <1>8, <1>9, <1>10, <1>11 DEF Next, Elsewhere, WorldStep, StopStep

\* A start that was alone while it worked holds its stack once it is recorded.
LEMMA HeldBegins ==
  ASSUME RuntimeAssumption, TypeOK, Processes, Alone, [Next]_vars, NEW r \in Starts, Holds(r)',
         WriteState(r), start[r].stage = "spawned", UNCHANGED disturbed
  PROVE  /\ OnFile(r)' /\ OthersAreOff(r)' /\ StopsAreOff(r)'
<1> DEFINE m == start[r].mode
<1>1. Settles(r, "running") /\ UNCHANGED stop
  BY StageIs DEF WriteState
<1>2. m \in Modes /\ start'[r].mode = m /\ Others(r)
  BY <1>1 DEF Processes, Spawned, Settles
<1>3. ActiveStops = {} /\ \A q \in Starts \ {r} : ~ActiveStart(q) /\ ~Holds(q)
  BY DEF Alone, Holds, Undisturbed, Working
<1>4. file'[m] = StateRecord(r) /\ StateRecord(r) \in Record /\ StateRecord(r).by = r
  BY <1>2 DEF WriteState, StateRecord, Record, TypeOK, StartRun
<1>5. OnFile(r)'
  BY <1>2, <1>4 DEF OnFile, RuntimeAssumption
<1>6. ASSUME NEW q \in Starts \ {r}
      PROVE  start'[q].stage \in Ended \cup {"running"} /\ ~Holds(q)'
  <2>1. start[q].stage \in Ended \cup {"running"}
    BY <1>3 DEF ActiveStart, SupervisorAlive, InStage
  <2>2. start'[q] = start[q]
    BY <1>2 DEF Others
  <2>3. ~Holds(q)'
    BY <1>3, <2>1, HeldBefore DEF Ended
  <2> QED
    BY <2>1, <2>2, <2>3
<1>7. OthersAreOff(r)'
  BY <1>6 DEF OthersAreOff, Ended
<1>8. StopsAreOff(r)'
  BY <1>1, <1>3 DEF StopsAreOff, ActiveStops, Ended
<1> QED
  BY <1>5, <1>7, <1>8

LEMMA HeldStep ==
  ASSUME RuntimeAssumption, TypeOK, Processes, Alone, StackIsHeld, [Next]_vars
  PROVE  StackIsHeld'
<1>1. ASSUME NEW r \in Starts, Holds(r)' PROVE OnFile(r)' /\ OthersAreOff(r)' /\ StopsAreOff(r)'
  <2>1. CASE Holds(r)
    <3>1. OnFile(r)
      BY <2>1, HeldParts
    <3>2. OnFile(r)'
      BY <1>1, <2>1, <3>1, FileStays, HeldRuns DEF OnFile
    <3> QED
      BY <1>1, <2>1, <3>2, OthersStayOff, StopsStayOff
  <2> QED
    BY <1>1, <2>1, HeldBefore, HeldBegins
<1> QED
  BY <1>1 DEF StackIsHeld, OnFile, OthersAreOff, StopsAreOff

-----------------------------------------------------------------------------
(***************************************************************************)
(* What a start has brought up is among what it records.                   *)
(***************************************************************************)

\* Nothing more is r's, but what an operator meddled with.
NothingNew(r) ==
  /\ mixed \subseteq mixed' /\ misread \subseteq misread'
  /\ \A d \in Deps : (HasContainer(d) /\ upBy[d] = r)' =>
       (HasContainer(d) /\ upBy[d] = r) \/ d \in mixed'
  /\ \A x \in Resolvers : (res[x] # "down" /\ resBy[x] = r)' => res[x] # "down" /\ resBy[x] = r

LEMMA UntouchedIsNothingNew == ASSUME NEW r, Untouched PROVE NothingNew(r)
BY DEF Untouched, NothingNew, HasContainer

\* A container stays, but for a stop.
GoesOnRunning == \A d \in Deps : HasContainer(d) => HasContainer(d)' \/ d \in mixed'

LEMMA StartNothingNew ==
  ASSUME RuntimeAssumption, TypeOK, NEW r \in Starts, NEW q \in Starts, StartStep(q), q # r
  PROVE  NothingNew(r) /\ GoesOnRunning
<1> USE DEF procVars, infraVars, history
<1>1. CASE ComposeUp(q)
  <2>1. UNCHANGED <<res, resBy, mixed, misread>>
    BY <1>1 DEF ComposeUp
  <2>2. CASE UNCHANGED <<dep, upBy>>
    BY <2>1, <2>2 DEF NothingNew, GoesOnRunning, HasContainer
  <2>3. CASE LET d == Head(start[q].todo)
             IN  /\ dep' = [dep EXCEPT ![d] = IF HasContainer(d) THEN @ ELSE "starting"]
                 /\ upBy' = [upBy EXCEPT ![d] = IF HasContainer(d) THEN @ ELSE q]
    BY <2>1, <2>3 DEF NothingNew, GoesOnRunning, HasContainer, TypeOK
  <2> QED
    BY <1>1, <2>2, <2>3 DEF ComposeUp
<1>2. ASSUME NEW x \in Resolvers, SkipHealthyResolver(q, x) \/ DelegateResolver(q, x)
      PROVE  NothingNew(r) /\ GoesOnRunning
  <2>1. UNCHANGED <<dep, upBy, mixed>>
    BY <1>2 DEF SkipHealthyResolver, DelegateResolver
  <2>2. CASE UNCHANGED <<res, resBy, misread>>
    BY <2>1, <2>2 DEF NothingNew, GoesOnRunning, HasContainer
  <2>3. CASE /\ res' = [res EXCEPT ![x] = IF @ = "down" THEN "starting" ELSE @]
             /\ resBy' = [resBy EXCEPT ![x] = IF res[x] = "down" THEN q ELSE @]
             /\ misread \subseteq misread'
    BY <2>1, <2>3 DEF NothingNew, GoesOnRunning, HasContainer, TypeOK
  <2> QED
    BY <1>2, <2>2, <2>3, ResolverIs
<1>3. CASE Untouched
  BY <1>3, UntouchedIsNothingNew DEF Untouched, GoesOnRunning, HasContainer
<1>4. CASE ChildExited(q) \/ Interrupt(q)
  BY <1>3, <1>4, CleanupIs DEF Untouched
<1>5. CASE Discover(q) \/ AwaitDependency(q)
  BY <1>3, <1>5, DiscoverReads
<1> QED
  BY <1>1, <1>2, <1>3, <1>4, <1>5
     DEF StartStep, Inspect, SkipStart, Precheck, Build, Spawn, WriteState, CleanupEnds,
         KillSupervisor, Untouched

LEMMA StopNothingNew ==
  ASSUME RuntimeAssumption, TypeOK, NEW r \in Starts, NEW s \in Stops, StopStep(s)
  PROVE  NothingNew(r) /\ (ActiveStops = {} => GoesOnRunning)
<1> USE DEF procVars, infraVars, history
<1>0. r # None
  BY DEF RuntimeAssumption
<1>1. CASE StopDependencies(s)
  <2>1. NothingNew(r)
    BY <1>0, <1>1 DEF StopDependencies, NothingNew, HasContainer, TypeOK
  <2>2. s \in ActiveStops
    BY <1>1 DEF StopDependencies, ActiveStops, Ended
  <2> QED
    BY <2>1, <2>2
<1>2. CASE StopResolvers(s)
  BY <1>0, <1>2 DEF StopResolvers, NothingNew, GoesOnRunning, HasContainer, TypeOK
<1>3. CASE Untouched
  BY <1>3, UntouchedIsNothingNew DEF Untouched, GoesOnRunning, HasContainer
<1> QED
  BY <1>1, <1>2, <1>3 DEF StopStep, ReadState, StopService, Unlink, CleanPorts, EndStop, KillStop,
                          Untouched

LEMMA ElsewhereNothingNew ==
  ASSUME RuntimeAssumption, TypeOK, NEW r \in Starts, Elsewhere \/ UNCHANGED vars
  PROVE  NothingNew(r) /\ GoesOnRunning
<1> USE DEF procVars, infraVars, history
<1>0. r # None
  BY DEF RuntimeAssumption
<1>1. CASE Untouched
  BY <1>1, UntouchedIsNothingNew DEF Untouched, GoesOnRunning, HasContainer
<1>2. ASSUME NEW p \in Procs, ServiceStep(p) PROVE Untouched
  BY <1>2 DEF ServiceStep, Listen, ExitOnSignal, CrashService, LoseChild, Untouched
<1>3. CASE BecomeReady
  BY <1>3 DEF BecomeReady, NothingNew, GoesOnRunning, HasContainer, TypeOK
<1>4. ASSUME NEW d \in Deps, ContainerStops(d) PROVE NothingNew(r) /\ GoesOnRunning
  BY <1>0, <1>4 DEF ContainerStops, NothingNew, GoesOnRunning, HasContainer, TypeOK
<1>5. ASSUME NEW d \in Deps, OperatorStartsContainer(d) PROVE NothingNew(r) /\ GoesOnRunning
  BY <1>5 DEF OperatorStartsContainer, NothingNew, GoesOnRunning, HasContainer, TypeOK
<1>6. ASSUME NEW d \in Deps, ContainerRestarts(d) PROVE NothingNew(r) /\ GoesOnRunning
  BY <1>6 DEF ContainerRestarts, NothingNew, GoesOnRunning, HasContainer, ComposeRunning, TypeOK
<1>7. ASSUME NEW n, StrangerComes(n) \/ StrangerGoes(n) PROVE Untouched
  BY <1>7 DEF StrangerComes, StrangerGoes, Untouched
<1>8. CASE UNCHANGED vars
  BY <1>1, <1>8 DEF vars, Untouched
<1> QED
  BY <1>1, <1>2, <1>3, <1>4, <1>5, <1>6, <1>7, <1>8 DEF Elsewhere, WorldStep

\* The conjunct of BroughtUpIsRecorded for one start.
Accounts(r) ==
  /\ start[r].stage \in Fresh \cup {"spawned"} => Recorded(r, start[r].owned, start[r].delegated)
  /\ InStage(r, "running") =>
       Recorded(r, file[start[r].mode].owned, file[start[r].mode].delegated)
  /\ InStage(r, "compose") /\ start[r].before =>
       HasContainer(Head(start[r].todo)) \/ Head(start[r].todo) \in mixed

LEMMA AccountsStay ==
  ASSUME TypeOK, Processes, NEW r \in Starts, Accounts(r), NothingNew(r),
         start'[r] = start[r],
         InStage(r, "running") => file'[start[r].mode] = file[start[r].mode],
         InStage(r, "compose") => GoesOnRunning
  PROVE  Accounts(r)'
<1>1. ASSUME NEW owned, NEW delegated, Recorded(r, owned, delegated)
      PROVE  /\ \A d \in Deps : (HasContainer(d) /\ upBy[d] = r)' =>
                  \/ d \in owned \cup mixed' \/ <<r, d>> \in misread'
                  \/ InStage(r, "waiting")' /\ ~start'[r].before /\ d = Head(start'[r].todo)
             /\ \A x \in Resolvers : (res[x] # "down" /\ resBy[x] = r)' => x \in delegated
  BY <1>1 DEF Recorded, NothingNew, InStage
<1>2. start[r].stage \in Fresh \cup {"spawned"} =>
        Recorded(r, start[r].owned, start[r].delegated)'
  BY <1>1 DEF Accounts, Recorded
<1>3. InStage(r, "running") =>
        Recorded(r, file[start[r].mode].owned, file[start[r].mode].delegated)'
  BY <1>1 DEF Accounts, Recorded
<1>4. InStage(r, "compose") /\ start[r].before =>
        HasContainer(Head(start[r].todo))' \/ Head(start[r].todo) \in mixed'
  <2>1. InStage(r, "compose") => Head(start[r].todo) \in Deps
    BY HeadTailProperties DEF InStage, TypeOK, TodoLeft, StartRun
  <2> QED
    BY <2>1 DEF Accounts, GoesOnRunning, NothingNew
<1> QED
  BY <1>2, <1>3, <1>4 DEF Accounts, InStage

\* While it gathers, it keeps what it has.
LEMMA GathersOn ==
  ASSUME TypeOK, NEW r \in Starts, Accounts(r), start[r].stage \in Fresh \ {"waiting"},
         NothingNew(r), start'[r].owned = start[r].owned,
         start'[r].delegated = start[r].delegated,
         start'[r].stage \notin {"compose", "running"}
  PROVE  Accounts(r)'
BY DEF Accounts, Recorded, NothingNew, InStage

LEMMA DiscoverAccounts ==
  ASSUME TypeOK, NEW r \in Starts, Accounts(r), Discover(r) PROVE Accounts(r)'
<1>1. Untouched /\ start[r].stage = "infra"
  BY DiscoverReads DEF Discover, InStage
<1>2. NothingNew(r)
  BY <1>1, UntouchedIsNothingNew
<1>3. CASE Settles(r, "gone")
  BY <1>3 DEF Settles, Accounts, InStage, Fresh
<1>4. ASSUME Keeps(r, {}, {})
      PROVE  start'[r].owned = start[r].owned /\ start'[r].delegated = start[r].delegated
  BY <1>4 DEF Keeps
<1>5. CASE Keeps(r, {}, {}) /\ start'[r].stage = "infra"
  BY <1>1, <1>2, <1>4, <1>5, GathersOn DEF Fresh
<1>6. CASE /\ Keeps(r, {}, {}) /\ start'[r].stage = "compose" /\ start'[r].todo = start[r].todo
           /\ \E v \in Views(Head(start[r].todo)) : start'[r].before = v.running
  <2>1. Recorded(r, start[r].owned, start[r].delegated)'
    BY <1>1, <1>2, <1>4, <1>6 DEF Accounts, Recorded, NothingNew, InStage, Fresh
  <2>2. start'[r].before => HasContainer(Head(start[r].todo))'
    BY <1>1, <1>6 DEF HasContainer, Views, Untouched
  <2> QED
    BY <1>6, <2>1, <2>2 DEF Accounts, InStage
<1> QED
  BY <1>3, <1>5, <1>6, DiscoverIs

LEMMA ComposeUpAccounts ==
  ASSUME RuntimeAssumption, TypeOK, NEW r \in Starts, Accounts(r), ComposeUp(r) PROVE Accounts(r)'
<1> DEFINE d == Head(start[r].todo)
<1>1. UNCHANGED <<res, resBy, mixed, misread>> /\ start[r].stage = "compose" /\ d \in Deps
  BY HeadTailProperties DEF ComposeUp, history, InStage, TypeOK, TodoLeft, StartRun
<1>2. CASE Settles(r, "gone")
  BY <1>2 DEF Settles, Accounts, InStage, Fresh
<1>3. CASE /\ Keeps(r, {}, {}) /\ start'[r].stage = "waiting" /\ start'[r].todo = start[r].todo
           /\ start'[r].before = start[r].before
  <2>1. start'[r].owned = start[r].owned /\ start'[r].delegated = start[r].delegated
    BY <1>3 DEF Keeps
  <2>2. \A c \in Deps : HasContainer(c) /\ upBy[c] = r =>
          c \in start[r].owned \cup mixed \/ <<r, c>> \in misread
    BY <1>1 DEF Accounts, Recorded, InStage, Fresh
  <2>3. start[r].before => HasContainer(d) \/ d \in mixed
    BY <1>1 DEF Accounts, InStage
  <2>4. ASSUME NEW c \in Deps, (HasContainer(c) /\ upBy[c] = r)'
        PROVE  (HasContainer(c) /\ upBy[c] = r) \/ (c = d /\ ~HasContainer(d))
    <3>1. CASE UNCHANGED <<dep, upBy>>
      BY <2>4, <3>1 DEF HasContainer
    <3>2. CASE /\ dep' = [dep EXCEPT ![d] = IF HasContainer(d) THEN @ ELSE "starting"]
               /\ upBy' = [upBy EXCEPT ![d] = IF HasContainer(d) THEN @ ELSE r]
      BY <1>1, <2>4, <3>2 DEF HasContainer, TypeOK
    <3> QED
      BY <3>1, <3>2 DEF ComposeUp
  <2>5. Recorded(r, start[r].owned, start[r].delegated)'
    <3>1. ASSUME NEW c \in Deps, (HasContainer(c) /\ upBy[c] = r)'
          PROVE  \/ c \in start'[r].owned \cup mixed' \/ <<r, c>> \in misread'
                 \/ InStage(r, "waiting")' /\ ~start'[r].before /\ c = Head(start'[r].todo)
      BY <1>1, <1>3, <2>1, <2>2, <2>3, <2>4, <3>1 DEF InStage
    <3>2. \A x \in Resolvers : (res[x] # "down" /\ resBy[x] = r)' => x \in start'[r].delegated
      BY <1>1, <2>1 DEF Accounts, Recorded, Fresh
    <3> QED
      BY <3>1, <3>2 DEF Recorded
  <2> QED
    BY <1>3, <2>5 DEF Accounts, InStage
<1> QED
  BY <1>2, <1>3, ComposeUpIs

LEMMA AwaitAccounts ==
  ASSUME TypeOK, NEW r \in Starts, Accounts(r), AwaitDependency(r) PROVE Accounts(r)'
<1> DEFINE d == Head(start[r].todo)
<1>1. Untouched /\ start[r].stage = "waiting" /\ start[r].todo # <<>> /\ d \in Deps
  BY DiscoverReads, HeadTailProperties DEF AwaitDependency, InStage, TypeOK, TodoLeft, StartRun
<1>2. CASE Settles(r, "gone")
  BY <1>2 DEF Settles, Accounts, InStage, Fresh
<1>3. ASSUME NEW v \in Views(d), Keeps(r, Claimed(r, d, v), {}), Misread(r, d, Managed(v)),
             start'[r].stage = "infra"
      PROVE  Accounts(r)'
  <2>1. /\ start'[r].owned = start[r].owned \cup Claimed(r, d, v)
        /\ start'[r].delegated = start[r].delegated
    BY <1>3 DEF Keeps
  <2>2. ~start[r].before /\ HasContainer(d) => d \in Claimed(r, d, v) \/ <<r, d>> \in misread'
    BY <1>3 DEF Claimed, Misread
  <2>3. Recorded(r, start[r].owned, start[r].delegated)'
    BY <1>1, <1>3, <2>1, <2>2 DEF Accounts, Recorded, Untouched, HasContainer, InStage, Fresh
  <2> QED
    BY <1>3, <2>3 DEF Accounts, InStage
<1> QED
  BY <1>1, <1>2, <1>3, AwaitDependencyIs

LEMMA ResolverAccounts ==
  ASSUME RuntimeAssumption, TypeOK, NEW r \in Starts, Accounts(r), NEW x \in Resolvers,
         SkipHealthyResolver(r, x) \/ DelegateResolver(r, x)
  PROVE  Accounts(r)'
<1>1. /\ UNCHANGED <<dep, upBy, mixed>>
      /\ start[r].stage = "resolvers" /\ start'[r].stage = "resolvers"
  BY ResolverIs DEF SkipHealthyResolver, DelegateResolver, infraVars, history, InStage
<1>2. CASE Keeps(r, {}, {}) /\ UNCHANGED <<res, resBy, misread>>
  BY <1>1, <1>2, UntouchedIsNothingNew, GathersOn DEF Keeps, Untouched, Fresh
<1>3. CASE /\ Keeps(r, {}, {x})
           /\ res' = [res EXCEPT ![x] = IF @ = "down" THEN "starting" ELSE @]
           /\ resBy' = [resBy EXCEPT ![x] = IF res[x] = "down" THEN r ELSE @]
           /\ misread' = IF res[x] # "down" THEN misread \cup {<<r, x>>} ELSE misread
  <2>1. /\ start'[r].owned = start[r].owned /\ start'[r].delegated = start[r].delegated \cup {x}
        /\ misread \subseteq misread'
    BY <1>3 DEF Keeps
  <2>2. \A d \in Deps : (HasContainer(d) /\ upBy[d] = r)' =>
          d \in start'[r].owned \cup mixed' \/ <<r, d>> \in misread'
    BY <1>1, <2>1 DEF Accounts, Recorded, HasContainer, InStage, Fresh
  <2>3. \A y \in Resolvers : (res[y] # "down" /\ resBy[y] = r)' => y \in start'[r].delegated
    BY <1>1, <1>3, <2>1 DEF Accounts, Recorded, TypeOK, Fresh
  <2> QED
    BY <1>1, <2>2, <2>3 DEF Accounts, Recorded, InStage
<1> QED
  BY <1>2, <1>3, ResolverIs

LEMMA WriteAccounts ==
  ASSUME RuntimeAssumption, TypeOK, Processes, NEW r \in Starts, Accounts(r), WriteState(r)
  PROVE  Accounts(r)'
<1>1. /\ UNCHANGED <<dep, upBy, res, resBy, mixed, misread>> /\ start[r].stage = "spawned"
      /\ Settles(r, "running")
  BY StageIs DEF WriteState, infraVars, history, InStage
<1>2. start'[r].mode = start[r].mode /\ start[r].mode \in Modes
  BY <1>1 DEF Settles, Processes, Spawned
<1>3. /\ file'[start[r].mode].owned = start[r].owned
      /\ file'[start[r].mode].delegated = start[r].delegated
  BY <1>2 DEF WriteState, StateRecord, TypeOK
<1>4. Recorded(r, file[start[r].mode].owned, file[start[r].mode].delegated)'
  BY <1>1, <1>2, <1>3 DEF Accounts, Recorded, HasContainer, InStage
<1> QED
  BY <1>1, <1>4 DEF Accounts, Settles, InStage, Fresh

LEMMA StartAccounts ==
  ASSUME RuntimeAssumption, TypeOK, Processes, NEW r \in Starts, Accounts(r), StartStep(r)
  PROVE  Accounts(r)'
<1> USE DEF infraVars, history
<1>1. ASSUME start'[r].stage \in {"gone", "cleaning", "killed", "orphaned"} PROVE Accounts(r)'
  BY <1>1 DEF Accounts, InStage, Fresh
<1>2. ASSUME Untouched, Keeps(r, {}, {}), start[r].stage \in Fresh \ {"waiting"},
             start'[r].stage \notin {"compose", "running"}
      PROVE  Accounts(r)'
  BY <1>2, UntouchedIsNothingNew, GathersOn DEF Keeps
<1>3. ASSUME NEW m \in Modes, Inspect(r, m) PROVE Accounts(r)'
  <2>1. Untouched /\ start[r].stage = "idle"
    BY <1>3 DEF Inspect, Untouched, InStage
  <2> QED
    BY <1>3, <2>1, InspectIs, UntouchedIsNothingNew, GathersOn DEF Fresh
<1>4. CASE SkipStart(r)
  BY <1>1, <1>4, StageIs DEF SkipStart, Settles, Ended
<1>5. ASSUME NEW i \in InfraModes, Precheck(r, i) PROVE Accounts(r)'
  <2>1. Untouched /\ start[r].stage = "checking"
    BY <1>5 DEF Precheck, Untouched, InStage
  <2> QED
    BY <1>1, <1>2, <1>5, <2>1, PrecheckIs DEF Settles, Fresh
<1>6. CASE Build(r)
  <2>1. Untouched /\ start[r].stage = "infra"
    BY <1>6 DEF Build, Untouched, InStage
  <2> QED
    BY <1>1, <1>2, <1>6, <2>1, BuildIs DEF Settles, Fresh
<1>7. CASE Spawn(r)
  <2>1. Untouched /\ start[r].stage = "resolvers"
    BY <1>7 DEF Spawn, Untouched, InStage
  <2> QED
    BY <1>1, <1>2, <1>7, <2>1, SpawnIs DEF Settles, Fresh
<1>8. CASE ChildExited(r) \/ Interrupt(r) \/ CleanupEnds(r)
  BY <1>1, <1>8, CleanupIs, StageIs DEF CleanupEnds, Settles, Ended
<1>9. CASE KillSupervisor(r)
  BY <1>1, <1>9, StageIs DEF KillSupervisor, Settles, Ended
<1> QED
  BY <1>3, <1>4, <1>5, <1>6, <1>7, <1>8, <1>9, DiscoverAccounts, ComposeUpAccounts,
     AwaitAccounts, ResolverAccounts, WriteAccounts
     DEF StartStep

LEMMA BroughtUpStep ==
  ASSUME RuntimeAssumption, TypeOK, Processes, Alone, StackIsHeld, BroughtUpIsRecorded, [Next]_vars
  PROVE  BroughtUpIsRecorded'
<1> SUFFICES ASSUME NEW r \in Starts, r \notin disturbed' PROVE Accounts(r)'
  BY DEF BroughtUpIsRecorded, Accounts, Undisturbed
<1>1. r \notin disturbed
  BY DisturbedStays
<1>2. Accounts(r)
  BY <1>1 DEF BroughtUpIsRecorded, Accounts, Undisturbed
<1>3. ASSUME start'[r] = start[r], NothingNew(r), ActiveStops = {} => GoesOnRunning
      PROVE  Accounts(r)'
  <2>1. InStage(r, "running") => file'[start[r].mode] = file[start[r].mode]
    <3>1. InStage(r, "running") => Holds(r) /\ Holds(r)'
      BY <1>1, <1>3 DEF Holds, Undisturbed, InStage
    <3> QED
      BY <3>1, FileStays
  <2>2. InStage(r, "compose") => GoesOnRunning
    BY <1>1, <1>3 DEF Alone, Undisturbed, InStage, Working
  <2> QED
    BY <1>2, <1>3, <2>1, <2>2, AccountsStay
<1>4. ASSUME NEW q \in Starts, StartStep(q) PROVE Accounts(r)'
  <2>1. CASE q = r
    BY <1>2, <1>4, <2>1, StartAccounts
  <2>2. CASE q # r
    <3>1. start'[r] = start[r]
      BY <1>4, <2>2, StartMoves DEF Moves, Others
    <3> QED
      BY <1>3, <1>4, <2>2, <3>1, StartNothingNew
  <2> QED
    BY <2>1, <2>2
<1>5. ASSUME NEW s \in Stops, NEW m \in Modes, ReadState(s, m) PROVE Accounts(r)'
  <2>1. NothingNew(r) /\ (ActiveStops = {} => GoesOnRunning)
    BY <1>5, StopNothingNew DEF StopStep
  <2>2. start'[r] = start[r] \/ start'[r].stage = "cleaning"
    BY <1>5, ReadStateIs DEF Keeps, Others, Record
  <2>3. start'[r].stage = "cleaning" => Accounts(r)'
    BY DEF Accounts, InStage, Fresh
  <2> QED
    BY <1>3, <2>1, <2>2, <2>3
<1>6. ASSUME NEW s \in Stops, StopGoesOnStep(s) PROVE Accounts(r)'
  <2>1. NothingNew(r) /\ (ActiveStops = {} => GoesOnRunning)
    BY <1>6, StopNothingNew DEF StopStep, StopGoesOnStep
  <2>2. start'[r] = start[r]
    BY <1>6, StopIsCalm DEF Calm
  <2> QED
    BY <1>3, <2>1, <2>2
<1>7. CASE Elsewhere \/ UNCHANGED vars
  <2>1. start'[r] = start[r]
    BY <1>7, ElsewhereIsCalm DEF Calm, vars
  <2> QED
    BY <1>3, <1>7, <2>1, ElsewhereNothingNew
<1> QED
  BY <1>4, <1>5, <1>6, <1>7, NextKinds

-----------------------------------------------------------------------------
(***************************************************************************)
(* The invariant, and what follows.                                        *)
(***************************************************************************)

IInv ==
  TypeOK /\ Processes /\ ClaimsAreKnown /\ Alone /\ StackIsHeld /\ BroughtUpIsRecorded

LEMMA IInit == RuntimeAssumption /\ Init => IInv
<1> SUFFICES ASSUME RuntimeAssumption, Init PROVE IInv
  OBVIOUS
<1>1. \A r \in Starts : start[r].stage = "idle"
  BY DEF Init, IdleStart
<1>2. Alone /\ StackIsHeld
  BY <1>1 DEF Alone, StackIsHeld, Holds, InStage, Working
<1>3. BroughtUpIsRecorded
  <2>1. \A d \in Deps, r \in Starts : upBy[d] # r
    BY DEF Init, RuntimeAssumption
  <2>2. \A x \in Resolvers, r \in Starts : resBy[x] # r
    BY DEF Init, RuntimeAssumption
  <2> QED
    BY <1>1, <2>1, <2>2 DEF BroughtUpIsRecorded, Recorded, InStage
<1> QED
  BY <1>2, <1>3, TypeInit, ProcessesInit, ClaimsInit DEF IInv

LEMMA IStep == RuntimeAssumption /\ IInv /\ [Next]_vars => IInv'
BY TypeStep, ProcessesStep, ClaimsStep, AloneStep, HeldStep, BroughtUpStep DEF IInv

LEMMA Always == Spec => []IInv
BY RuntimeAssumption, IInit, IStep, PTL DEF Spec

\* The state file of a start that nobody disturbed, once its supervisor runs
\* (start.mjs, writing the state and supervising), is its own and names its
\* processes, all the resolvers it brought up and all the containers, but for
\* those that Docker's commands did not show it or that an operator meddled
\* with, so that stop.mjs will find them: for every number of starts, stops,
\* modes and failing commands.
THEOREM StacksAreOnFile == Spec => []StackIsOnFile
<1>1. ASSUME RuntimeAssumption, IInv PROVE StackIsOnFile
  <2> SUFFICES ASSUME NEW r \in Starts, InStage(r, "running"), r \notin disturbed
               PROVE  LET f == file[start[r].mode]
                      IN  /\ f \notin {None, Torn} /\ f.by = r
                          /\ {p \in up : By(p) = r} \subseteq f.pids
                          /\ \A d \in Deps : HasContainer(d) /\ upBy[d] = r =>
                               d \in f.owned \cup mixed \/ <<r, d>> \in misread
                          /\ \A x \in Resolvers :
                               res[x] # "down" /\ resBy[x] = r => x \in f.delegated
    BY DEF StackIsOnFile
  <2> DEFINE m == start[r].mode
  <2>1. Holds(r)
    BY DEF Holds, Undisturbed
  <2>2. OnFile(r)
    BY <1>1, <2>1, HeldParts DEF IInv
  <2>3. m \in Modes
    BY <1>1 DEF IInv, Processes, Spawned, InStage
  <2>4. file[m].pids = start[r].spawned
    BY <1>1, <2>2, <2>3 DEF IInv, Processes, FilesAreTrue, OnFile
  <2>5. {p \in up : By(p) = r} \subseteq file[m].pids
    BY <1>1, <2>4 DEF IInv, Processes, Spawned
  <2>6. Recorded(r, file[m].owned, file[m].delegated)
    BY <1>1 DEF IInv, BroughtUpIsRecorded, Undisturbed
  <2> QED
    BY <2>2, <2>5, <2>6 DEF OnFile, Recorded, InStage
<1> QED
  BY <1>1, RuntimeAssumption, Always, PTL

\* Two copies of one service, neither of them told to stop, never come of
\* starts that ran alone and recorded what they had spawned: the check of the
\* state files (inspectModeStateFiles) keeps the second start from spawning.
THEOREM OneCopyEach == Spec => []NoSecondCopy
<1>1. ASSUME RuntimeAssumption, IInv PROVE NoSecondCopy
  <2> SUFFICES ASSUME NEW p \in up \ doomed, NEW q \in up \ doomed, p[1] = q[1], p # q,
                      \A r \in {By(p), By(q)} : r \notin disturbed /\ ~InStage(r, "orphaned")
               PROVE  FALSE
    BY DEF NoSecondCopy
  <2>1. By(p) \in Starts /\ By(q) \in Starts /\ By(p) # By(q)
    BY <1>1 DEF IInv, TypeOK, Procs, By
  <2>2. ASSUME NEW x \in up \ doomed, By(x) \in Starts, By(x) \notin disturbed,
               ~InStage(By(x), "orphaned")
        PROVE  Holds(By(x)) \/ InStage(By(x), "spawned")
    <3>1. start[By(x)].stage \in StartStage
      BY <1>1, <2>2 DEF IInv, TypeOK, StartRun
    <3>2. start[By(x)].stage \notin Fresh \cup {"cleaning", "gone"}
      BY <1>1, <2>2 DEF IInv, Processes, Spawned
    <3>3. Live(By(x)) # {}
      BY DEF Live
    <3> QED
      BY <2>2, <3>1, <3>2, <3>3 DEF Holds, Undisturbed, InStage, StartStage, Working, Fresh
  <2>3. ASSUME NEW r \in Starts, NEW s \in Starts \ {r}, r \notin disturbed, InStage(r, "spawned")
        PROVE  ~Holds(s) /\ ~InStage(s, "spawned")
    BY <1>1, <2>3
       DEF IInv, Alone, Undisturbed, InStage, Working, ActiveStart, SupervisorAlive, Ended
  <2>4. ASSUME NEW r \in Starts, NEW s \in Starts \ {r}, Holds(r) PROVE ~Holds(s)
    BY <1>1, <2>4, HeldParts DEF IInv, OthersAreOff
  <2> QED
    BY <2>1, <2>2, <2>3, <2>4
<1> QED
  BY <1>1, RuntimeAssumption, Always, PTL

\* stop.mjs takes down no container and no resolver that was there before any
\* start, but what the start whose file it goes by did not see as it was (or a
\* container that an operator meddled with), and signals for a number on file no
\* process that a start of another mode spawned (a number that a stranger has
\* got is the stranger's: FreeNumbers): step by step, whatever other starts and
\* stops do in between.
THEOREM StopsSpareOthers == Spec => StopSparesOthers
<1>1. ASSUME RuntimeAssumption, IInv, NEW s \in Stops, StopStep(s) PROVE SparesOthers(s)
  <2> USE DEF procVars, infraVars
  <2>1. ASSUME NEW d \in Deps, HasContainer(d), dep'[d] = "absent"
        PROVE  upBy[d] # None \/ d \in mixed \/ <<stop[s].seen.by, d>> \in misread
    <3>1. StopDependencies(s)
      BY <1>1, <2>1 DEF StopStep, ReadState, StopService, StopResolvers, Unlink, CleanPorts,
                        EndStop, KillStop, HasContainer
    <3>2. d \in stop[s].seen.owned
      BY <2>1, <3>1 DEF StopDependencies, HasContainer
    <3> QED
      BY <1>1, <2>1, <3>1, <3>2 DEF IInv, ClaimsAreKnown, Known, StopDependencies
  <2>2. ASSUME NEW x \in Resolvers, res[x] # "down", res'[x] = "down"
        PROVE  resBy[x] # None \/ <<stop[s].seen.by, x>> \in misread
    <3>1. StopResolvers(s)
      BY <1>1, <2>2 DEF StopStep, ReadState, StopService, StopDependencies, Unlink, CleanPorts,
                        EndStop, KillStop
    <3>2. x \in stop[s].seen.delegated
      BY <2>2, <3>1 DEF StopResolvers
    <3> QED
      BY <1>1, <2>2, <3>1, <3>2 DEF IInv, ClaimsAreKnown, KnownResolver, StopResolvers
  <2>3. ASSUME stop[s].stage # "ports", NEW p \in (doomed' \ doomed) \cup (up \ up')
        PROVE  start[By(p)].mode = stop'[s].mode
    <3>0. UNCHANGED up
      BY <1>1, <2>3 DEF StopStep, ReadState, StopService, StopDependencies, StopResolvers, Unlink,
                        CleanPorts, EndStop, KillStop
    <3>1. ASSUME NEW m \in Modes, ReadState(s, m) PROVE start[By(p)].mode = stop'[s].mode
      <4>1. /\ stop'[s].mode = m /\ file[m] \in Record /\ file[m].by \in Starts
            /\ p \in start[file[m].by].spawned
        BY <1>1, <2>3, <3>0, <3>1, ReadStateIs DEF IInv, Record
      <4>2. start[file[m].by].mode = m
        BY <1>1, <4>1 DEF IInv, Processes, FilesAreTrue, RuntimeAssumption
      <4>3. By(p) = file[m].by
        BY <1>1, <4>1 DEF IInv, Processes, Spawned
      <4> QED
        BY <4>1, <4>2, <4>3
    <3>2. ASSUME NEW c \in Procs, StopService(s, c) PROVE start[By(p)].mode = stop'[s].mode
      <4>1. p \in stop[s].todo /\ stop'[s].mode = stop[s].mode
        BY <1>1, <2>3, <3>0, <3>2, StopServiceIs DEF IInv, StopService
      <4> QED
        BY <1>1, <4>1 DEF IInv, Processes, TodoIsOfMode
    <3>3. CASE doomed' \subseteq doomed
      BY <2>3, <3>0, <3>3
    <3> QED
      BY <1>1, <2>3, <3>1, <3>2, <3>3 DEF StopStep, StopDependencies, StopResolvers, Unlink,
                                          CleanPorts, EndStop, KillStop
  <2> QED
    BY <2>1, <2>2, <2>3 DEF SparesOthers
<1>2. ASSUME RuntimeAssumption, IInv, [Next]_vars
      PROVE  [\A s \in Stops : StopStep(s) => SparesOthers(s)]_vars
  BY <1>1, <1>2
<1> QED
  BY <1>2, RuntimeAssumption, Always, PTL DEF Spec, StopSparesOthers
=============================================================================
