------------------------------ MODULE Runtime ------------------------------
(***************************************************************************)
(* The runtime scripts: start.mjs, which brings up dependencies, external  *)
(* resolvers and the services and then supervises the services, and        *)
(* stop.mjs, which takes down what the state file of a mode records.       *)
(*                                                                         *)
(* Every start and every stop is a process of its own; they meet in the    *)
(* state files, the ports, the containers and the signals they send.  One  *)
(* step is what a script does between two waits.  Timeouts are abstracted: *)
(* a wait may end whether or not what it waits for has happened.           *)
(***************************************************************************)
EXTENDS Naturals, Sequences, FiniteSets

CONSTANTS Services,    \* the workspaces a start spawns
          Ported,      \* those of them that listen on a port (appPort)
          DepOrder,    \* dependencyDefinitions, in their order
          Resolvers,   \* the external resolvers
          ModeOrder,   \* the modes, in the order their files are inspected
          InfraModes,  \* values of --infra in use
          Starts, Stops,
          None,        \* nothing there
          Torn,        \* a state file that does not parse
          Foreign,     \* a program that is not ours
          MaxActive,   \* bound: runs that are active at the same time
          MaxFaults    \* bound: crashes, operators' doings, lost children and
                       \* numbers of processes that pass to strangers

Deps == {DepOrder[k] : k \in DOMAIN DepOrder}
Modes == {ModeOrder[k] : k \in DOMAIN ModeOrder}
Procs == Services \X Starts
By(p) == p[2]

(* What the state file of a mode holds: the start it was written by, its    *)
(* processes, and the dependencies and resolvers that it brought up.        *)
Record == [by : Starts, pids : SUBSET Procs, owned : SUBSET Deps, delegated : SUBSET Resolvers]

ASSUME RuntimeAssumption ==
  /\ Ported \subseteq Services
  /\ InfraModes \subseteq {"auto", "external", "managed"}
  /\ MaxActive \in Nat /\ MaxFaults \in Nat
  /\ DepOrder \in Seq(Deps)
  /\ {None, Foreign} \cap Procs = {} /\ None \notin Starts
  /\ None \notin Record /\ Torn \notin Record

VARIABLES
  file,       \* per mode: the state file <mode>-stack.json
  up,         \* the tracked processes (npm run ...) that live
  serving,    \* those whose service below npm lives
  bound,      \* per ported service: who listens on its port
  doomed,     \* processes that were sent a signal
  reused,     \* what has ended (a process, a supervisor) and left its number
              \* to a stranger
  dep,        \* per dependency: what is at its endpoint
  upBy,       \* history: the start that brought its container up, None for others
  res, resBy, \* the same for external resolvers
  selected,   \* the resolvers that flags and environment select
  start,      \* the runs of start.mjs
  stop,       \* the runs of stop.mjs
  disturbed,  \* history: starts that another run was active beside, or that
              \* another supervisor of their mode cleaned up beside
  mixed,      \* history: containers that an operator brought up or took down
              \* while the scripts ran
  misread,    \* history: what was there and a start did not see as it was
  faults

procVars == <<up, serving, bound, doomed, reused>>
infraVars == <<dep, upBy, res, resBy, selected>>
history == <<disturbed, mixed, misread, faults>>
vars == <<file, procVars, infraVars, start, stop, history>>

IdleStart == [stage |-> "idle", mode |-> None, infra |-> None, todo |-> <<>>,
              before |-> FALSE, owned |-> {}, rtodo |-> {}, delegated |-> {},
              spawned |-> {}, skip |-> {}]
IdleStop == [stage |-> "idle", mode |-> None, seen |-> None, todo |-> {}]
Ended == {"idle", "gone", "killed", "orphaned"}

Init ==
  /\ file = [m \in Modes |-> None]
  /\ up = {} /\ serving = {} /\ doomed = {} /\ reused = {}
  /\ bound \in [Ported -> {None, Foreign}]
  /\ dep \in [Deps -> {"absent", "starting", "compose", "restarting", "external"}]
  /\ res \in [Resolvers -> {"down", "up"}]
  /\ selected \in SUBSET Resolvers
  /\ upBy = [d \in Deps |-> None] /\ resBy = [x \in Resolvers |-> None]
  /\ start = [r \in Starts |-> IdleStart]
  /\ stop = [s \in Stops |-> IdleStop]
  /\ disturbed = {} /\ mixed = {} /\ misread = {} /\ faults = 0

-----------------------------------------------------------------------------
(* What the scripts find out                                                *)

InStage(r, stage) == start[r].stage = stage
SupervisorAlive(r) == start[r].stage \notin Ended

(* A plausible error of isStateAlive: only the supervisor is looked at.     *)
IsStateAliveBySupervisor(f) ==
  f \notin {None, Torn} /\ (SupervisorAlive(f.by) \/ f.by \in reused)

(* isStateAlive: the supervisor or any tracked process, or what else has    *)
(* their numbers by now.                                                    *)
IsStateAlive(f) ==
  /\ f \notin {None, Torn}
  /\ SupervisorAlive(f.by) \/ f.by \in reused \/ f.pids \cap (up \cup reused) # {}

(* precheckRootAppPorts: a listener of ours is known by its command line,   *)
(* which may or may not name the service.                                   *)
PrecheckStatus(v, known) ==
  CASE bound[v] = None     -> "ready_to_start"
    [] bound[v] \in known -> "already_running_same_service"
    [] OTHER               -> "port_conflict_unknown_process"
PortOwners == {bound[v] : v \in Ported} \ {None}

(* At a dependency's endpoint is nothing, our container (starting, healthy, *)
(* or restarting, as a paused one would be) or a program of the host;       *)
(* endpoints are loopback addresses with the default ports.                 *)
HasContainer(d) == dep[d] \in {"starting", "compose", "restarting"}
ComposeRunning(d) == dep[d] \in {"starting", "compose"}
Usable(d) == dep[d] \in {"compose", "external"}

(* discoverDependency: what docker compose ps, docker inspect, docker ps    *)
(* and the connection tell; whichever of them fails tells nothing.          *)
Views(d) == {v \in [exists : BOOLEAN, running : BOOLEAN, owner : BOOLEAN, usable : BOOLEAN] :
               /\ v.exists => HasContainer(d)
               /\ v.running => v.exists /\ ComposeRunning(d)
               /\ v.owner => ComposeRunning(d)
               /\ v.usable => Usable(d)}

(* classifyDependencySource *)
Source(v) == CASE v.exists /\ v.owner -> "compose_managed"
               [] v.owner -> "external_container"
               [] v.usable -> "external_host"
               [] v.exists -> "compose_managed"
               [] OTHER -> "unavailable"
Managed(v) == Source(v) = "compose_managed"

(* A container is there that has not been seen for what it is.              *)
Misread(r, d, seen) ==
  misread' = IF HasContainer(d) /\ ~seen THEN misread \cup {<<r, d>>} ELSE misread

-----------------------------------------------------------------------------
(* Runs that are active at the same time are noted.                         *)

ActiveStart(r) == SupervisorAlive(r) /\ ~InStage(r, "running")
ActiveStops == {s \in Stops : stop[s].stage \notin Ended}
Disturb(starts, crowd) == disturbed' = IF crowd THEN disturbed \cup starts ELSE disturbed

Room == Cardinality({q \in Starts : ActiveStart(q)}) + Cardinality(ActiveStops) < MaxActive

StartBecomesActive(r) ==
  LET others == {q \in Starts \ {r} : ActiveStart(q)}
  IN  Disturb(others \cup {r}, others # {} \/ ActiveStops # {})
StopBecomesActive(s) == Disturb({q \in Starts : ActiveStart(q)}, TRUE)

Fault == faults < MaxFaults /\ faults' = faults + 1

SetStart(r, run) == start' = [start EXCEPT ![r] = run]
SetStop(s, run) == stop' = [stop EXCEPT ![s] = run]

(* What a run has gathered is kept until it is recorded or the run ends.    *)
Kept(r, stage) == [IdleStart EXCEPT !.stage = stage, !.mode = start[r].mode,
                                    !.spawned = start[r].spawned]
Stage(r, stage) ==
  SetStart(r, IF stage \in Ended \cup {"running", "cleaning"}
              THEN Kept(r, stage) ELSE [start[r] EXCEPT !.stage = stage])
EndStopAs(s, stage) == SetStop(s, [IdleStop EXCEPT !.stage = stage])

-----------------------------------------------------------------------------
(* start.mjs                                                                *)

(* inspectModeStateFiles: dead and unreadable files are removed on the way; *)
(* a live stack of another mode ends the start, one of its own is skipped.  *)
Inspect(r, m) ==
  LET Blocks(k) == ModeOrder[k] # m /\ IsStateAlive(file[ModeOrder[k]])
      Reached(k) == \A j \in 1..k - 1 : ~Blocks(j)
  IN  /\ InStage(r, "idle") /\ Room
      /\ file' = [n \in Modes |-> IF /\ ~IsStateAlive(file[n])
                                     /\ \E k \in DOMAIN ModeOrder : ModeOrder[k] = n /\ Reached(k)
                                  THEN None ELSE file[n]]
      /\ SetStart(r, [start[r] EXCEPT !.mode = m,
                        !.stage = IF \E k \in DOMAIN ModeOrder : Blocks(k) THEN "gone"
                                  ELSE IF IsStateAlive(file[m]) THEN "skipping" ELSE "checking"])
      /\ StartBecomesActive(r)
      /\ UNCHANGED <<procVars, infraVars, stop, mixed, misread, faults>>

SkipStart(r) ==
  /\ InStage(r, "skipping") /\ Stage(r, "gone")
  /\ UNCHANGED <<file, procVars, infraVars, stop, history>>

(* precheckRootAppPorts, assertPrecheckNoUnknownPortConflicts,              *)
(* selectServicesToStartFromPrecheck                                        *)
Precheck(r, i) ==
  \E known \in SUBSET (PortOwners \ {Foreign}) :
    LET same == {v \in Ported : PrecheckStatus(v, known) = "already_running_same_service"}
        conflict == \E v \in Ported : PrecheckStatus(v, known) = "port_conflict_unknown_process"
    IN  /\ InStage(r, "checking")
        /\ IF conflict \/ (Ported # {} /\ same = Ported)
           THEN Stage(r, "gone")
           ELSE SetStart(r, [start[r] EXCEPT !.stage = "infra", !.infra = i, !.todo = DepOrder,
                                             !.skip = same])
        /\ UNCHANGED <<file, procVars, infraVars, stop, history>>

NextDependency(r, claimed) ==
  SetStart(r, [start[r] EXCEPT !.stage = "infra", !.todo = Tail(@), !.before = FALSE,
                               !.owned = @ \cup claimed])

(* ensureInfra, one dependency: what is found decides whether it is used,   *)
(* brought up or refused.                                                   *)
Refused(r, v) == \/ start[r].infra = "external" /\ ~v.usable
                 \/ start[r].infra = "managed" /\ v.usable /\ ~Managed(v)

Discover(r) ==
  LET d == Head(start[r].todo)
  IN  /\ InStage(r, "infra") /\ start[r].todo # <<>>
      /\ \E v \in Views(d) :
           \/ Refused(r, v) /\ Stage(r, "gone") /\ UNCHANGED misread
           \/ ~Refused(r, v) /\ v.usable /\ NextDependency(r, {}) /\ UNCHANGED misread
           \/ /\ ~Refused(r, v) /\ ~v.usable
              /\ SetStart(r, [start[r] EXCEPT !.stage = "compose", !.before = v.running])
              /\ Misread(r, d, v.running)
      /\ UNCHANGED <<file, procVars, infraVars, stop, disturbed, mixed, faults>>

(* composeUpDependency, which may fail: no Docker, or the port is taken.    *)
ComposeUp(r) ==
  LET d == Head(start[r].todo)
  IN  /\ InStage(r, "compose")
      /\ \/ Stage(r, "gone") /\ UNCHANGED <<dep, upBy>>
         \/ /\ dep[d] # "external"
            /\ dep' = [dep EXCEPT ![d] = IF HasContainer(d) THEN @ ELSE "starting"]
            /\ upBy' = [upBy EXCEPT ![d] = IF HasContainer(d) THEN @ ELSE r]
            /\ Stage(r, "waiting")
      /\ UNCHANGED <<file, procVars, res, resBy, selected, stop, history>>

(* What is entered into managedServicesStarted and will be stopped: the     *)
(* container was not running when it was looked at, and is seen as ours     *)
(* when it is usable.  A plausible error is to enter whatever compose up    *)
(* was called for.                                                          *)
ClaimedByCall(r, d, v) == IF Managed(v) THEN {d} ELSE {}
Claimed(r, d, v) == IF ~start[r].before /\ Managed(v) THEN {d} ELSE {}

(* waitForDependency *)
Good(r, v) == v.usable /\ (start[r].infra = "managed" => Managed(v))

AwaitDependency(r) ==
  LET d == Head(start[r].todo)
  IN  /\ InStage(r, "waiting")
      /\ \E v \in Views(d) :
           \/ Good(r, v) /\ NextDependency(r, Claimed(r, d, v)) /\ Misread(r, d, Managed(v))
           \/ ~Good(r, v) /\ Stage(r, "gone") /\ UNCHANGED misread
      /\ UNCHANGED <<file, procVars, infraVars, stop, disturbed, mixed, faults>>

(* The build between infrastructure and resolvers (runNpm), which may fail. *)
Build(r) ==
  /\ InStage(r, "infra") /\ start[r].todo = <<>>
  /\ \/ SetStart(r, [start[r] EXCEPT !.stage = "resolvers", !.infra = None, !.rtodo = selected])
     \/ Stage(r, "gone")
  /\ UNCHANGED <<file, procVars, infraVars, stop, history>>

(* startAuxiliaryResolvers, one resolver.  One that answers is preexisting; *)
(* one that is down, or whose answer is late or not asked for               *)
(* (--skip-resolver-healthcheck), is delegated to its run.sh.               *)
SkipHealthyResolver(r, x) ==
  /\ InStage(r, "resolvers") /\ x \in start[r].rtodo
  /\ res[x] = "up"
  /\ SetStart(r, [start[r] EXCEPT !.rtodo = @ \ {x}])
  /\ UNCHANGED <<file, procVars, infraVars, stop, history>>

DelegateResolver(r, x) ==
  /\ InStage(r, "resolvers") /\ x \in start[r].rtodo
  /\ \/ SetStart(r, [start[r] EXCEPT !.rtodo = @ \ {x}]) /\ UNCHANGED <<res, resBy, misread>>
     \/ /\ SetStart(r, [start[r] EXCEPT !.rtodo = @ \ {x}, !.delegated = @ \cup {x}])
        /\ res' = [res EXCEPT ![x] = IF @ = "down" THEN "starting" ELSE @]
        /\ resBy' = [resBy EXCEPT ![x] = IF res[x] = "down" THEN r ELSE @]
        /\ misread' = IF res[x] # "down" THEN misread \cup {<<r, x>>} ELSE misread
  /\ UNCHANGED <<file, procVars, dep, upBy, selected, stop, disturbed, mixed, faults>>

(* startServices: spawn all, then record them; no await in between, but a   *)
(* crash may fall there.                                                    *)
Spawn(r) ==
  LET targets == (Services \ start[r].skip) \X {r}
  IN  /\ InStage(r, "resolvers") /\ start[r].rtodo = {}
      /\ IF targets = {}
         THEN Stage(r, "gone")
         ELSE SetStart(r, [start[r] EXCEPT !.stage = "spawned", !.spawned = targets])
      /\ up' = up \cup targets /\ serving' = serving \cup targets
      /\ UNCHANGED <<file, bound, doomed, reused, infraVars, stop, history>>

(* A plausible error: what external resolvers were delegated is forgotten.  *)
StateRecordWithoutResolvers(r) == [by |-> r, pids |-> start[r].spawned, owned |-> start[r].owned,
                                   delegated |-> {}]
StateRecord(r) == [by |-> r, pids |-> start[r].spawned, owned |-> start[r].owned,
                   delegated |-> start[r].delegated]

WriteState(r) ==
  /\ InStage(r, "spawned")
  /\ file' = [file EXCEPT ![start[r].mode] = StateRecord(r)]
  /\ Stage(r, "running")
  /\ UNCHANGED <<procVars, infraVars, stop, history>>

(* cleanup: every child is signalled, and given four seconds; whatever      *)
(* state file the mode then has is removed.                                 *)
BeginCleanup(r) ==
  /\ doomed' = doomed \cup (start[r].spawned \cap up)
  /\ Stage(r, "cleaning")
  /\ UNCHANGED <<file, up, serving, bound, reused, infraVars, stop, mixed, misread>>
Beside(r) == {q \in Starts \ {r} : ActiveStart(q) \/ start[q].mode = start[r].mode}

ChildExited(r) ==
  /\ InStage(r, "running") /\ ~(start[r].spawned \subseteq up)
  /\ BeginCleanup(r)
  /\ Disturb(Beside(r), TRUE)
  /\ UNCHANGED faults

(* SIGINT or SIGTERM from an operator, at any stage, or from a stop that    *)
(* goes by a number which another supervisor has left to this one           *)
Interrupt(r) ==
  /\ Fault
  /\ SupervisorAlive(r) /\ ~InStage(r, "cleaning") /\ ~InStage(r, "spawned")
  /\ BeginCleanup(r)
  /\ Disturb(Beside(r), TRUE)

CleanupEnds(r) ==
  /\ InStage(r, "cleaning")
  /\ file' = [file EXCEPT ![start[r].mode] = None]
  /\ Stage(r, "gone")
  /\ UNCHANGED <<procVars, infraVars, stop, history>>

(* The supervisor is killed; while it writes, it leaves half a file.        *)
KillSupervisor(r) ==
  /\ Fault
  /\ SupervisorAlive(r)
  /\ IF InStage(r, "spawned")
     THEN Stage(r, "orphaned") /\ \E f \in {file[start[r].mode], Torn} :
                                      file' = [file EXCEPT ![start[r].mode] = f]
     ELSE Stage(r, "killed") /\ UNCHANGED file
  /\ UNCHANGED <<procVars, infraVars, stop, disturbed, mixed, misread>>

-----------------------------------------------------------------------------
(* The services, containers and resolvers themselves                        *)

Die(gone) == /\ up' = up \ gone /\ serving' = serving \ gone
             /\ bound' = [v \in Ported |-> IF bound[v] \in gone THEN None ELSE bound[v]]
             /\ doomed' = doomed \ gone
             /\ UNCHANGED reused

(* A service listens; where another program does already, it exits.         *)
Listen(p) ==
  /\ p \in serving /\ p[1] \in Ported /\ bound[p[1]] # p
  /\ IF bound[p[1]] = None
     THEN bound' = [bound EXCEPT ![p[1]] = p] /\ UNCHANGED <<up, serving, doomed, reused>>
     ELSE Die({p})
  /\ UNCHANGED <<file, infraVars, start, stop, history>>

ExitOnSignal(p) ==
  /\ p \in doomed \cap serving
  /\ Die({p})
  /\ UNCHANGED <<file, infraVars, start, stop, history>>

CrashService(p) ==
  /\ Fault
  /\ p \in serving /\ Die({p})
  /\ UNCHANGED <<file, infraVars, start, stop, disturbed, mixed, misread>>

(* npm exits on the signal, the service below it does not.                  *)
LoseChild(p) ==
  /\ Fault
  /\ p \in doomed \cap up /\ up' = up \ {p} /\ doomed' = doomed \ {p}
  /\ UNCHANGED <<file, serving, bound, reused, infraVars, start, stop, disturbed, mixed, misread>>

BecomeReady ==
  /\ \/ \E d \in Deps : /\ dep[d] \in {"starting", "restarting"}
                        /\ dep' = [dep EXCEPT ![d] = "compose"]
                        /\ UNCHANGED res
     \/ \E x \in Resolvers : /\ res[x] = "starting" /\ res' = [res EXCEPT ![x] = "up"]
                             /\ UNCHANGED dep
  /\ UNCHANGED <<file, procVars, upBy, resBy, selected, start, stop, history>>

(* An operator, or a failure, takes a container down or brings it up.       *)
ContainerStops(d) ==
  /\ Fault
  /\ HasContainer(d)
  /\ dep' = [dep EXCEPT ![d] = "absent"] /\ upBy' = [upBy EXCEPT ![d] = None]
  /\ mixed' = mixed \cup {d}
  /\ UNCHANGED <<file, procVars, res, resBy, selected, start, stop, disturbed, misread>>

OperatorStartsContainer(d) ==
  /\ Fault
  /\ dep[d] = "absent" /\ dep' = [dep EXCEPT ![d] = "starting"]
  /\ mixed' = mixed \cup {d}
  /\ UNCHANGED <<file, procVars, upBy, res, resBy, selected, start, stop, disturbed, misread>>

(* A container fails and is brought up again by its restart policy.         *)
ContainerRestarts(d) ==
  /\ Fault
  /\ ComposeRunning(d) /\ dep' = [dep EXCEPT ![d] = "restarting"]
  /\ UNCHANGED <<file, procVars, upBy, res, resBy, selected, start, stop, disturbed, mixed, misread>>

(* A number that has become free is given to a stranger, and falls free.    *)
(* (What a stop then does to one of ours that has got it is an Interrupt    *)
(* or a CrashService.)                                                      *)
FreeNumbers == {p \in Procs : p \in start[By(p)].spawned \ up}
               \cup {r \in Starts : start[r].stage \in Ended \ {"idle"}}

StrangerComes(n) ==
  /\ Fault
  /\ n \in FreeNumbers \ reused /\ reused' = reused \cup {n}
  /\ UNCHANGED <<file, up, serving, bound, doomed, infraVars, start, stop, disturbed, mixed, misread>>

StrangerGoes(n) ==
  /\ n \in reused /\ reused' = reused \ {n}
  /\ UNCHANGED <<file, up, serving, bound, doomed, infraVars, start, stop, history>>

-----------------------------------------------------------------------------
(* stop.mjs                                                                 *)

(* main: the state is read; a live supervisor is signalled and cleans up.   *)
(* Nothing but the number is looked at: so is a stranger that has got it.   *)
ReadState(s, m) ==
  LET f == file[m]
      missing == f \in {None, Torn}
      running == IF missing THEN {} ELSE {r \in {f.by} : InStage(r, "running")}
  IN  /\ stop[s].stage = "idle" /\ Room
      /\ SetStop(s, [stage |-> IF missing THEN "ports" ELSE "services", mode |-> m,
                      seen |-> f, todo |-> IF missing THEN {} ELSE f.pids])
      /\ doomed' = doomed \cup {p \in up : \E r \in running : p \in start[r].spawned}
      /\ start' = [r \in Starts |-> IF r \in running THEN [start[r] EXCEPT !.stage = "cleaning"]
                                                     ELSE start[r]]
      /\ StopBecomesActive(s)
      /\ UNCHANGED <<file, up, serving, bound, reused, infraVars, mixed, misread, faults>>

(* stopService: SIGINT, then SIGTERM, to a process that still lives, or to  *)
(* whatever else has its number.                                            *)
StopService(s, p) ==
  /\ stop[s].stage = "services" /\ p \in stop[s].todo
  /\ doomed' = doomed \cup ({p} \cap up)
  /\ SetStop(s, [stop[s] EXCEPT !.todo = @ \ {p}])
  /\ UNCHANGED <<file, up, serving, bound, reused, infraVars, start, history>>

(* stopOwnedManagedDependencies, only with --infra: one compose command,    *)
(* which may fail                                                           *)
StopDependencies(s) ==
  LET stopped == {d \in stop[s].seen.owned : HasContainer(d)}
  IN  /\ stop[s].stage = "services" /\ stop[s].todo = {}
      /\ \/ SetStop(s, [stop[s] EXCEPT !.stage = "unlink"]) /\ UNCHANGED <<dep, upBy>>
         \/ /\ SetStop(s, [stop[s] EXCEPT !.stage = "resolvers"])
            /\ \E t \in {stopped, {}} :
                 /\ dep' = [d \in Deps |-> IF d \in t THEN "absent" ELSE dep[d]]
                 /\ upBy' = [d \in Deps |-> IF d \in t THEN None ELSE upBy[d]]
      /\ UNCHANGED <<file, procVars, res, resBy, selected, start, history>>

(* stopDelegatedResolverModules: each stop.sh may be missing or fail.       *)
StopResolvers(s) ==
  /\ stop[s].stage = "resolvers"
  /\ \E t \in SUBSET stop[s].seen.delegated :
       /\ res' = [x \in Resolvers |-> IF x \in t THEN "down" ELSE res[x]]
       /\ resBy' = [x \in Resolvers |-> IF x \in t THEN None ELSE resBy[x]]
  /\ SetStop(s, [stop[s] EXCEPT !.stage = "unlink"])
  /\ UNCHANGED <<file, procVars, dep, upBy, selected, start, history>>

(* Whatever file is there now is removed; with --cleanup-ports the owners   *)
(* of the ports are looked at.                                              *)
Unlink(s) ==
  /\ stop[s].stage = "unlink"
  /\ file' = [file EXCEPT ![stop[s].mode] = None]
  /\ EndStopAs(s, "ports")
  /\ UNCHANGED <<procVars, infraVars, start, history>>

(* cleanupRootAppPorts, terminateConfidentLeftoverProcess: signals up to    *)
(* SIGKILL, whatever mode the owner is of, and to each that is taken for    *)
(* ours: by command line, directory and executable, which may be unreadable *)
(* for one of ours and name the repository for a stranger.                  *)
CleanPorts(s) ==
  /\ stop[s].stage = "ports"
  /\ \E killed \in SUBSET PortOwners : Die(killed)
  /\ EndStopAs(s, "gone")
  /\ UNCHANGED <<file, infraVars, start, history>>

EndStop(s) ==
  /\ stop[s].stage = "ports"
  /\ EndStopAs(s, "gone")
  /\ UNCHANGED <<file, procVars, infraVars, start, history>>

KillStop(s) ==
  /\ Fault
  /\ s \in ActiveStops
  /\ EndStopAs(s, "killed")
  /\ UNCHANGED <<file, procVars, infraVars, start, disturbed, mixed, misread>>

-----------------------------------------------------------------------------
StartStep(r) ==
  \/ \E m \in Modes : Inspect(r, m)
  \/ SkipStart(r) \/ \E i \in InfraModes : Precheck(r, i)
  \/ Discover(r) \/ ComposeUp(r) \/ AwaitDependency(r)
  \/ Build(r) \/ \E x \in Resolvers : SkipHealthyResolver(r, x) \/ DelegateResolver(r, x)
  \/ Spawn(r) \/ WriteState(r) \/ ChildExited(r) \/ Interrupt(r) \/ CleanupEnds(r)
  \/ KillSupervisor(r)

ServiceStep(p) == Listen(p) \/ ExitOnSignal(p) \/ CrashService(p) \/ LoseChild(p)

StopStep(s) ==
  \/ \E m \in Modes : ReadState(s, m)
  \/ \E p \in Procs : StopService(s, p)
  \/ StopDependencies(s) \/ StopResolvers(s) \/ Unlink(s) \/ CleanPorts(s) \/ EndStop(s)
  \/ KillStop(s)

Next ==
  \/ \E r \in Starts : StartStep(r)
  \/ \E p \in Procs : ServiceStep(p)
  \/ \E s \in Stops : StopStep(s)
  \/ BecomeReady
  \/ \E d \in Deps : ContainerStops(d) \/ OperatorStartsContainer(d) \/ ContainerRestarts(d)
  \/ \E n \in Procs \cup Starts : StrangerComes(n) \/ StrangerGoes(n)

Spec == Init /\ [][Next]_vars

-----------------------------------------------------------------------------
(* As long as a supervisor runs that no other run was active beside while   *)
(* it started, and none of its mode was cleaned up beside since, the mode's *)
(* state file is its own and has all that the stop needs: its processes,    *)
(* and each container and resolver it brought up, but for a container that  *)
(* Docker's commands did not show it, or that an operator meddled with.     *)
StackIsOnFile ==
  \A r \in Starts : InStage(r, "running") /\ r \notin disturbed =>
    LET f == file[start[r].mode]
    IN  /\ f \notin {None, Torn} /\ f.by = r
        /\ {p \in up : By(p) = r} \subseteq f.pids
        /\ \A d \in Deps : HasContainer(d) /\ upBy[d] = r =>
             d \in f.owned \cup mixed \/ <<r, d>> \in misread
        /\ \A x \in Resolvers : res[x] # "down" /\ resBy[x] = r => x \in f.delegated

(* Two copies of a service run, neither of them told to stop, only if one   *)
(* of their starts had another run active beside it, or was killed before   *)
(* it could record what it had spawned.                                     *)
NoSecondCopy ==
  \A p, q \in up \ doomed : p[1] = q[1] /\ p # q =>
    \E r \in {By(p), By(q)} : r \in disturbed \/ InStage(r, "orphaned")

(* A stop takes down no container or resolver that was there before any     *)
(* start, but for one that the start whose file it goes by did not see as   *)
(* it was (a command of Docker failed, the container was restarting, the    *)
(* resolver answered late or was not asked), or a container that an         *)
(* operator meddled with.  By the numbers it goes by it signals none of the *)
(* processes of another mode's stack (but for a stranger that has got one   *)
(* of the numbers, see FreeNumbers); by port it does, where it is asked to. *)
SparesOthers(s) ==
  /\ \A d \in Deps : HasContainer(d) /\ dep'[d] = "absent" =>
       upBy[d] # None \/ d \in mixed \/ <<stop[s].seen.by, d>> \in misread
  /\ \A x \in Resolvers : res[x] # "down" /\ res'[x] = "down" =>
       resBy[x] # None \/ <<stop[s].seen.by, x>> \in misread
  /\ stop[s].stage # "ports" =>
       \A p \in (doomed' \ doomed) \cup (up \ up') : start[By(p)].mode = stop'[s].mode
StopSparesOthers == [][ \A s \in Stops : StopStep(s) => SparesOthers(s) ]_vars
=============================================================================
