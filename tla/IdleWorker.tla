----------------------------- MODULE IdleWorker -----------------------------
(***************************************************************************)
(* The pull worker beside the server: Busy, BusyToken and Worker of        *)
(* src/src/server/idle.rs over Idle and the Linux cgroup primitives of     *)
(* src/src/suspend.rs.                                                     *)
(*                                                                         *)
(* Analyses count themselves in `busy`; the first freezes the installed    *)
(* worker and the last thaws it.  A supervisor on a blocking thread polls  *)
(* the worker, retires one that exited (kill, wait, remove the cgroup) and *)
(* spawns and installs its replacement.  The kernel is external: a process *)
(* in a frozen cgroup does not run, not even up to its exec; a cgroup that *)
(* still has a member cannot be removed.                                   *)
(***************************************************************************)
EXTENDS Naturals, FiniteSets

CONSTANTS
    Analyses,       \* requests the server handles, over and over
    StraysLinger,   \* a killed descendant may take its time to exit
    MaxDeaths,      \* bound: worker deaths
    MaxExits        \* bound: abrupt exits of the server

ASSUME BoundsAssumption == MaxDeaths \in Nat /\ MaxExits \in Nat
ASSUME LingerAssumption == StraysLinger \in BOOLEAN

VARIABLES
    iwPc,         \* iwPc[r]: "out", "handler" or "analysis"
    count,      \* Busy::count
    sup,        \* where the supervisor is
    installed,  \* Worker::current holds an Idle
    worker,     \* the newest worker process
    stray,      \* other processes in the cgroup: an earlier worker's
    dir,        \* the cgroup exists
    frozen,     \* cgroup.freeze reads 1
    deaths,     \* deaths so far
    exits       \* abrupt exits so far

reqVars    == <<iwPc, count>>
cgroupVars == <<stray, dir, frozen>>
bounds     == <<deaths, exits>>
idleVars == <<iwPc, count, sup, installed, worker, stray, dir, frozen, deaths, exits>>

Sups == {"check", "kill", "release", "prepare", "exec", "install", "sleep", "down"}

IdleInit ==
    /\ iwPc = [r \in Analyses |-> "out"]
    /\ count = 0
    /\ sup = "check"
    /\ installed = FALSE
    /\ worker = "none"
    /\ stray = "none"
    /\ dir = FALSE
    /\ frozen = FALSE
    /\ deaths = 0
    /\ exits = 0

Up == sup # "down"

----------------------------------------------------------------------------
(* Analyses                                                                 *)

\* A request reaches its handler: preflight, memory check, upload.
Arrive(r) ==
    /\ Up
    /\ iwPc[r] = "out"
    /\ iwPc' = [iwPc EXCEPT ![r] = "handler"]
    /\ UNCHANGED <<count, sup, installed, worker, cgroupVars, bounds>>

\* It was answered without an analysis of its own.
Answered(r) ==
    /\ iwPc[r] = "handler"
    /\ iwPc' = [iwPc EXCEPT ![r] = "out"]
    /\ UNCHANGED <<count, sup, installed, worker, cgroupVars, bounds>>

\* RequestGuard::new: enter_busy, under the count's lock.
Enter(r) ==
    /\ Up
    /\ iwPc[r] = "handler"
    /\ iwPc' = [iwPc EXCEPT ![r] = "analysis"]
    /\ count' = count + 1
    /\ frozen' = IF count' = 1 /\ installed THEN TRUE ELSE frozen
    /\ UNCHANGED <<sup, installed, worker, stray, dir, bounds>>

\* BusyToken::drop.
Leave(r) ==
    /\ iwPc[r] = "analysis"
    /\ iwPc' = [iwPc EXCEPT ![r] = "out"]
    /\ count' = count - 1
    /\ frozen' = IF count' = 0 /\ installed THEN FALSE ELSE frozen
    /\ UNCHANGED <<sup, installed, worker, stray, dir, bounds>>

----------------------------------------------------------------------------
(* The supervisor: ensure_running every RESTART_DELAY                       *)

Wake ==
    /\ sup = "sleep"
    /\ sup' = "check"
    /\ UNCHANGED <<reqVars, installed, worker, cgroupVars, bounds>>

\* Under the write lock: keep a live worker, take one that exited (reaping
\* it), or find nothing installed.
Check ==
    /\ sup = "check"
    /\ IF ~installed THEN sup' = "prepare" /\ UNCHANGED <<installed, worker>>
       ELSE IF worker # "dead" THEN sup' = "sleep" /\ UNCHANGED <<installed, worker>>
       ELSE sup' = "kill" /\ installed' = FALSE /\ worker' = "none"
    /\ UNCHANGED <<reqVars, cgroupVars, bounds>>

\* Idle::drop of the outgoing worker: cgroup.kill, then wait.
Kill ==
    /\ sup = "kill"
    /\ sup' = "release"
    /\ stray' = IF stray = "none" THEN "none"
                ELSE IF StraysLinger THEN "dying" ELSE "none"
    /\ UNCHANGED <<reqVars, installed, worker, dir, frozen, bounds>>

\* Idle::drop, then imp::release: rmdir fails while the cgroup has a member.
Release ==
    /\ sup = "release"
    /\ sup' = "prepare"
    /\ IF stray = "none" THEN dir' = FALSE /\ frozen' = FALSE
                         ELSE UNCHANGED <<dir, frozen>>
    /\ UNCHANGED <<reqVars, installed, worker, stray, bounds>>

\* Mutation: a cgroup that is there already fails the spawn.
PrepareFresh ==
    /\ sup = "prepare" /\ ~dir
    /\ sup' = "exec"
    /\ dir' = TRUE
    /\ worker' = "forked"
    /\ UNCHANGED <<reqVars, installed, stray, frozen, bounds>>

\* Idle::spawn: imp::prepare makes the cgroup or reuses the one it finds, and
\* the forked child joins it before its exec.
Prepare ==
    /\ sup = "prepare"
    /\ sup' = "exec"
    /\ dir' = TRUE
    /\ worker' = "forked"
    /\ UNCHANGED <<reqVars, installed, stray, frozen, bounds>>

\* The spawn fails: imp::release, and another try at the next tick.
SpawnFails ==
    /\ sup = "prepare"
    /\ sup' = "sleep"
    /\ IF stray = "none" THEN dir' = FALSE /\ frozen' = FALSE
                         ELSE UNCHANGED <<dir, frozen>>
    /\ UNCHANGED <<reqVars, installed, worker, stray, bounds>>

\* Command::spawn returns once the child has reached its exec or is dead.
SpawnReturns ==
    /\ sup = "exec"
    /\ worker # "forked"
    /\ sup' = "install"
    /\ UNCHANGED <<reqVars, installed, worker, cgroupVars, bounds>>

\* Mutation: installed without looking at the count.
InstallBlindly ==
    /\ sup = "install"
    /\ sup' = "sleep"
    /\ installed' = TRUE
    /\ UNCHANGED <<reqVars, worker, cgroupVars, bounds>>

\* Under the busy lock: freeze the new worker if a request is in, install it.
Install ==
    /\ sup = "install"
    /\ sup' = "sleep"
    /\ installed' = TRUE
    /\ frozen' = IF count > 0 THEN TRUE ELSE frozen
    /\ UNCHANGED <<reqVars, worker, stray, dir, bounds>>

----------------------------------------------------------------------------
(* The kernel and the processes                                             *)

Exec ==
    /\ worker = "forked"
    /\ ~frozen
    /\ worker' = "running"
    /\ UNCHANGED <<reqVars, sup, installed, cgroupVars, bounds>>

\* The worker crashes or is killed for memory, perhaps leaving a descendant.
WorkerDies ==
    /\ worker \in {"forked", "running"}
    /\ deaths < MaxDeaths
    /\ deaths' = deaths + 1
    /\ worker' = "dead"
    /\ stray' \in {stray} \cup (IF worker = "running" THEN {"alive"} ELSE {})
    /\ UNCHANGED <<reqVars, sup, installed, dir, frozen, exits>>

\* A killed descendant is gone at last.
StrayExits ==
    /\ stray = "dying"
    /\ stray' = "none"
    /\ UNCHANGED <<reqVars, sup, installed, worker, dir, frozen, bounds>>

\* The server is killed or calls process::exit: no destructor runs.
ServerExits ==
    /\ Up
    /\ exits < MaxExits
    /\ exits' = exits + 1
    /\ sup' = "down"
    /\ iwPc' = [r \in Analyses |-> "out"]
    /\ count' = 0
    /\ installed' = FALSE
    /\ stray' = IF worker \in {"forked", "running"} THEN "alive" ELSE stray
    /\ worker' = "none"
    /\ UNCHANGED <<dir, frozen, deaths>>

\* The next server starts its supervisor.
Restart ==
    /\ sup = "down"
    /\ exits > 0
    /\ sup' = "check"
    /\ UNCHANGED <<reqVars, installed, worker, cgroupVars, bounds>>

----------------------------------------------------------------------------
AnalysisStep(r) == Arrive(r) \/ Answered(r) \/ Enter(r) \/ Leave(r)

Supervisor ==
    \/ Wake \/ Check \/ Kill \/ Release \/ Prepare \/ SpawnFails
    \/ SpawnReturns \/ Install

System == Exec \/ WorkerDies \/ StrayExits \/ ServerExits \/ Restart

IdleNext == (\E r \in Analyses : AnalysisStep(r)) \/ Supervisor \/ System

IdleSpec == IdleInit /\ [][IdleNext]_idleVars

\* The supervisor's thread and the kernel make progress, analyses end (their
\* timeout sees to it), and a spawn does not fail for ever.
IdleFairness ==
    /\ WF_idleVars(Supervisor) /\ SF_idleVars(Prepare)
    /\ WF_idleVars(Exec) /\ WF_idleVars(StrayExits) /\ WF_idleVars(Restart)
    /\ \A r \in Analyses : WF_idleVars(Leave(r))

IdleFairSpec == IdleSpec /\ IdleFairness

----------------------------------------------------------------------------
(* Properties                                                               *)

\* Types of every variable; the count is the number of analyses.
IdleTypeOK ==
    /\ iwPc \in [Analyses -> {"out", "handler", "analysis"}]
    /\ count = Cardinality({r \in Analyses : iwPc[r] = "analysis"})
    /\ sup \in Sups
    /\ installed \in BOOLEAN
    /\ worker \in {"none", "forked", "running", "dead"}
    /\ stray \in {"none", "alive", "dying"}
    /\ dir \in BOOLEAN /\ frozen \in BOOLEAN
    /\ deaths \in 0 .. MaxDeaths /\ exits \in 0 .. MaxExits

\* An installed worker is frozen exactly while an analysis runs: no thaw of a
\* last request overtakes the freeze of the next, a replacement installed in
\* the middle of one starts frozen, and none stays frozen once all are gone.
FrozenExactlyWhileBusy ==
    installed /\ worker = "running" => (frozen <=> count > 0)

\* A replacement is forked only once everything of the worker it replaces has
\* been killed: no two workers share the cores or the cgroup.
ReplacedAfterKill == exits = 0 /\ worker = "forked" => stray # "alive"

\* However often the worker dies, at whatever point of a freeze, the
\* supervisor gets another one running.
WorkerComesBack == worker # "running" ~> worker = "running"

\* The same while no spawn meets a cgroup that was left frozen.  One that was left
\* thawed, by a server that exited or around a process that would not die, is taken over,
\* and an analysis may freeze and thaw it from then on.
WorkerComesBackUnlessFrozen == [](sup = "prepare" => ~frozen) => WorkerComesBack

\* Busy: "the worker never runs beside a request" - an analysis here.
NeverBesideARequest == worker = "running" /\ count > 0 => frozen

\* enter_busy: "Taken at handler entry - before the memory check, before the
\* multipart parse, before the upload streams".
BusyFromHandlerEntry == \A r \in Analyses : iwPc[r] = "handler" => count > 0

\* Idle: "a server that exits must not leave a full-throttle worker behind".
NothingLeftBehind == sup = "down" /\ ~frozen => stray # "alive"

\* The idle worker makes way for every analysis, and a dead one for its replacement.
IdleWorkerYields == IdleTypeOK /\ FrozenExactlyWhileBusy /\ ReplacedAfterKill
=============================================================================
