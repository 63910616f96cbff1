-------------------------- MODULE MemoryAdmission --------------------------
(***************************************************************************)
(* The memory admission gate of the worker (src/src/admission.rs).         *)
(*                                                                         *)
(* Every analysis runs admit() on its own task before it starts: it        *)
(* registers as a waiter of the `released` Notify, samples live memory,    *)
(* and runs the compare-and-swap loop of try_reserve() on the shared       *)
(* counter `reserved`.  A refused job reclaims caches once when memory is  *)
(* really short, then sleeps until a release or the re-poll tick.  An      *)
(* admitted job lists itself in `inflight`; dropping its guard gives the   *)
(* reservation back, unlists it and wakes the waiters, in three steps that *)
(* other tasks interleave with.                                            *)
(*                                                                         *)
(* One action is one access to shared state plus the local work around it. *)
(***************************************************************************)
EXTENDS Integers, FiniteSets

CONSTANTS
    Jobs,                 \* the analyses that ask for admission
    Ceilings,             \* values `--max-rss-gb` may resolve to; 0 disables
    HostFloorBytes,       \* host memory not reserved into; 0 = no host check
    FixedEstBytes,        \* SCAN_PER_SLOT_ESTIMATE_MB override; 0 = absent
    FlatEstimateBytes,    \* DEFAULT_FLAT_ESTIMATE_BYTES
    MaxArchiveBytes,      \* MAX_ARCHIVE_ESTIMATE_BYTES
    ArchiveMultiplier,    \* archive_multiplier, 1..64
    OnDiskSizes,          \* on_disk_bytes hopper reports (an i64, may be < 0)
    UsedReadings,         \* what used_fn may return
    AvailableReadings,    \* what available_fn may return
    NoReading             \* the None of both probes

ASSUME CeilingsAssumption   == Ceilings \subseteq Nat
ASSUME FloorAssumption      == HostFloorBytes \in Nat
ASSUME FixedAssumption      == FixedEstBytes \in Nat
ASSUME FlatAssumption       == FlatEstimateBytes \in Nat \ {0}
ASSUME MaxArchiveAssumption == MaxArchiveBytes \in Nat \ {0}
ASSUME MultiplierAssumption == ArchiveMultiplier \in Nat \ {0}
ASSUME SizesAssumption      == OnDiskSizes \subseteq Int
ASSUME ReadingsAssumption   == /\ UsedReadings \subseteq Nat \cup {NoReading}
                               /\ AvailableReadings \subseteq Nat \cup {NoReading}
                               /\ NoReading \notin Nat

VARIABLES
    ceiling,     \* ceiling_bytes of this process, fixed at start
    est,         \* est[j]: job j's reservation, 0 until it is computed
    maPc,        \* maPc[j]: where job j is in admit() or in its guard's drop
    paused,      \* paused[j]: admit()'s local flag
    probe,       \* probe[j]: the used/available sample try_reserve() took
    seen,        \* seen[j]: try_reserve()'s local copy of `reserved`
    reserved,    \* the shared counter
    inflight,    \* jobs listed in the inflight registry
    notified     \* notified[j]: the registered waiter has been woken

admissionVars == <<ceiling, est, maPc, paused, probe, seen, reserved, inflight, notified>>

\* new -> poll -> load -> cas -> listing -> held -> unlist -> notify -> done,
\* with cas -> reclaim -> wait -> poll for a refused job, gone if it is dropped
Pcs == {"new", "poll", "load", "cas", "reclaim", "wait", "listing", "held",
        "unlist", "notify", "done", "gone"}

NoProbe == [used |-> NoReading, available |-> NoReading]

\* Jobs whose estimate the counter includes.
Holders == {j \in Jobs : maPc[j] \in {"listing", "held"}}

\* Mutation: the waiter registers only when it starts to wait.
EnlistedLate == {j \in Jobs : maPc[j] = "wait"}

\* Tasks whose `released` future is registered with the Notify.
Enlisted == {j \in Jobs : maPc[j] \in {"load", "cas", "reclaim", "wait"}}

----------------------------------------------------------------------------
(* The estimate                                                             *)

Smaller(a, b) == IF a <= b THEN a ELSE b

\* u64::try_from(on_disk_bytes).unwrap_or(0): negative sizes count as empty.
DynamicEstimateBytes(archive, onDisk) ==
    LET bytes == IF onDisk < 0 THEN 0 ELSE onDisk
    IN  IF archive
          THEN Smaller(bytes * ArchiveMultiplier + FlatEstimateBytes, MaxArchiveBytes)
          ELSE FlatEstimateBytes

EstimateBytes(archive, onDisk) ==
    IF FixedEstBytes # 0 THEN FixedEstBytes ELSE DynamicEstimateBytes(archive, onDisk)

PossibleEstimates ==
    {EstimateBytes(archive, onDisk) : archive \in BOOLEAN, onDisk \in OnDiskSizes}

----------------------------------------------------------------------------
(* The checks of try_reserve, on the local copy and the stale sample        *)

SaturatingSub(a, b) == IF a >= b THEN a - b ELSE 0

\* Mutation: the reservations are compared without this job's estimate.
OverReservedWithoutEst(j) == seen[j] > ceiling

OverReserved(j) == seen[j] + est[j] > ceiling

OverRss(j) == /\ probe[j].used # NoReading
              /\ probe[j].used + est[j] > ceiling

BelowFloor(j) == /\ probe[j].available # NoReading
                 /\ SaturatingSub(probe[j].available, est[j]) < HostFloorBytes

\* Mutation: the host check replaces the process check.
RefusalWithoutRss(j) ==
    IF seen[j] = 0 THEN "none"
    ELSE IF OverReserved(j) THEN "reserved"
    ELSE IF BelowFloor(j) THEN "host"
    ELSE "none"

\* Mutation: the hatch looks at the registry, which lags the counter.
RefusalHatchOnRegistry(j) ==
    IF inflight = {} THEN "none"
    ELSE IF OverReserved(j) THEN "reserved"
    ELSE IF OverRss(j) THEN "rss"
    ELSE IF BelowFloor(j) THEN "host"
    ELSE "none"

\* Nothing reserved is the forward-progress hatch: no check applies.
Refusal(j) ==
    IF seen[j] = 0 THEN "none"
    ELSE IF OverReserved(j) THEN "reserved"
    ELSE IF OverRss(j) THEN "rss"
    ELSE IF BelowFloor(j) THEN "host"
    ELSE "none"

----------------------------------------------------------------------------
AdmissionInit ==
    /\ ceiling \in Ceilings
    /\ est = [j \in Jobs |-> 0]
    /\ maPc = [j \in Jobs |-> "new"]
    /\ paused = [j \in Jobs |-> FALSE]
    /\ probe = [j \in Jobs |-> NoProbe]
    /\ seen = [j \in Jobs |-> 0]
    /\ reserved = 0
    /\ inflight = {}
    /\ notified = [j \in Jobs |-> FALSE]

Goto(j, from, to) ==
    /\ maPc[j] = from
    /\ maPc' = [maPc EXCEPT ![j] = to]

\* admit() is called: the estimate is computed before the loop.
Estimated(j) ==
    /\ Goto(j, "new", "poll")
    /\ \E e \in PossibleEstimates : est' = [est EXCEPT ![j] = e]
    /\ UNCHANGED <<ceiling, paused, probe, seen, reserved, inflight, notified>>

\* Top of the loop: register the waiter, then sample memory.
Enlist(j) ==
    /\ ceiling # 0
    /\ Goto(j, "poll", "load")
    /\ notified' = [notified EXCEPT ![j] = FALSE]
    /\ \E used \in UsedReadings, available \in AvailableReadings :
          probe' = [probe EXCEPT ![j] =
                      [used |-> used,
                       available |-> IF HostFloorBytes = 0 THEN NoReading
                                                           ELSE available]]
    /\ UNCHANGED <<ceiling, est, paused, seen, reserved, inflight>>

\* The gate is disabled: one unconditional fetch_add.
ReserveDisabled(j) ==
    /\ ceiling = 0
    /\ Goto(j, "poll", "listing")
    /\ reserved' = reserved + est[j]
    /\ UNCHANGED <<ceiling, est, paused, probe, seen, inflight, notified>>

LoadReserved(j) ==
    /\ Goto(j, "load", "cas")
    /\ seen' = [seen EXCEPT ![j] = reserved]
    /\ UNCHANGED <<ceiling, est, paused, probe, reserved, inflight, notified>>

\* try_reserve() returns, and its locals with it.
Return(j) ==
    /\ probe' = [probe EXCEPT ![j] = NoProbe]
    /\ seen' = [seen EXCEPT ![j] = 0]

\* Mutation: a plain store instead of the compare-and-swap.
CasOkPlainStore(j) ==
    /\ Goto(j, "cas", "listing")
    /\ Refusal(j) = "none"
    /\ reserved' = seen[j] + est[j]
    /\ Return(j)
    /\ paused' = [paused EXCEPT ![j] = FALSE]
    /\ notified' = [notified EXCEPT ![j] = FALSE]
    /\ UNCHANGED <<ceiling, est, inflight>>

CasOk(j) ==
    /\ Goto(j, "cas", "listing")
    /\ Refusal(j) = "none"
    /\ reserved = seen[j]
    /\ reserved' = seen[j] + est[j]
    /\ Return(j)
    /\ paused' = [paused EXCEPT ![j] = FALSE]
    /\ notified' = [notified EXCEPT ![j] = FALSE]
    /\ UNCHANGED <<ceiling, est, inflight>>

\* compare_exchange_weak failed, perhaps spuriously: retry with the value it
\* returned and the sample of the first attempt.
CasFail(j) ==
    /\ maPc[j] = "cas"
    /\ Refusal(j) = "none"
    /\ seen' = [seen EXCEPT ![j] = reserved]
    /\ UNCHANGED <<ceiling, est, maPc, paused, probe, reserved, inflight, notified>>

\* try_reserve returned Err.  Only the first refusal of a job reclaims, and
\* only when live memory, not the reservations, was short.
RefuseReserve(j) ==
    /\ Refusal(j) # "none"
    /\ Goto(j, "cas", IF ~paused[j] /\ Refusal(j) \in {"rss", "host"}
                        THEN "reclaim" ELSE "wait")
    /\ Return(j)
    /\ paused' = [paused EXCEPT ![j] = TRUE]
    /\ UNCHANGED <<ceiling, est, reserved, inflight, notified>>

ReclaimDone(j) ==
    /\ Goto(j, "reclaim", "wait")
    /\ UNCHANGED <<ceiling, est, paused, probe, seen, reserved, inflight, notified>>

Woken(j) ==
    /\ notified[j]
    /\ Goto(j, "wait", "poll")
    /\ notified' = [notified EXCEPT ![j] = FALSE]
    /\ UNCHANGED <<ceiling, est, paused, probe, seen, reserved, inflight>>

\* REPOLL_INTERVAL elapsed before any release.
Repoll(j) ==
    /\ Goto(j, "wait", "poll")
    /\ notified' = [notified EXCEPT ![j] = FALSE]
    /\ UNCHANGED <<ceiling, est, paused, probe, seen, reserved, inflight>>

\* The job's task is aborted at one of admit()'s await points.
Dropped(j) ==
    /\ maPc[j] \in {"reclaim", "wait"}
    /\ maPc' = [maPc EXCEPT ![j] = "gone"]
    /\ UNCHANGED <<ceiling, est, paused, probe, seen, reserved, inflight, notified>>

\* register(): the reservation is already in the counter.
List(j) ==
    /\ Goto(j, "listing", "held")
    /\ inflight' = inflight \cup {j}
    /\ UNCHANGED <<ceiling, est, paused, probe, seen, reserved, notified>>

\* release(), in the order of its three statements.
ReleaseReserved(j) ==
    /\ Goto(j, "held", "unlist")
    /\ reserved' = SaturatingSub(reserved, est[j])
    /\ UNCHANGED <<ceiling, est, paused, probe, seen, inflight, notified>>

ReleaseUnlist(j) ==
    /\ Goto(j, "unlist", "notify")
    /\ inflight' = inflight \ {j}
    /\ UNCHANGED <<ceiling, est, paused, probe, seen, reserved, notified>>

ReleaseNotify(j) ==
    /\ Goto(j, "notify", "done")
    /\ notified' = [k \in Jobs |-> notified[k] \/ k \in Enlisted]
    /\ UNCHANGED <<ceiling, est, paused, probe, seen, reserved, inflight>>

AdmitStep(j) ==
    \/ Estimated(j) \/ Enlist(j) \/ ReserveDisabled(j) \/ LoadReserved(j)
    \/ CasOk(j) \/ CasFail(j) \/ RefuseReserve(j) \/ ReclaimDone(j)
    \/ Woken(j) \/ Repoll(j) \/ Dropped(j) \/ List(j)

GuardDrops(j) == ReleaseReserved(j) \/ ReleaseUnlist(j) \/ ReleaseNotify(j)

AdmissionNext == \E j \in Jobs : AdmitStep(j) \/ GuardDrops(j)

AdmissionSpec == AdmissionInit /\ [][AdmissionNext]_admissionVars

\* What the task of a started job does next when it is polled.  Jobs need not arrive
\* or be dropped, and the re-poll tick is left out on purpose.
Scheduled(j) ==
    \/ Enlist(j) \/ ReserveDisabled(j) \/ LoadReserved(j) \/ CasOk(j) \/ CasFail(j)
    \/ RefuseReserve(j) \/ ReclaimDone(j) \/ Woken(j) \/ List(j) \/ GuardDrops(j)

\* Every started task is eventually polled and every analysis returns.
AdmissionFairness == \A j \in Jobs : WF_admissionVars(Scheduled(j))

AdmissionFairSpec == AdmissionSpec /\ AdmissionFairness

----------------------------------------------------------------------------
(* Properties                                                               *)

\* Every variable keeps its type; an estimate is positive once computed.
AdmissionTypeOK ==
    /\ ceiling \in Nat
    /\ maPc \in [Jobs -> Pcs]
    /\ est \in [Jobs -> Nat]
    /\ \A j \in Jobs : maPc[j] # "new" => est[j] > 0
    /\ paused \in [Jobs -> BOOLEAN]
    /\ probe \in [Jobs -> [used : Nat \cup {NoReading},
                           available : Nat \cup {NoReading}]]
    /\ seen \in [Jobs -> Nat]
    /\ reserved \in Nat
    /\ inflight \subseteq Jobs
    /\ notified \in [Jobs -> BOOLEAN]

\* One element per unit of memory charged to the jobs of S.
UnitsOf(e, S) == UNION {{j} \X (1 .. e[j]) : j \in S}

Units == UnitsOf(est, Holders)

\* The counter that try_reserve() and release() race on is always exactly the
\* sum of the estimates of the jobs holding a reservation: no interleaving of
\* the compare-and-swap loop loses an add, and no release saturates.
ReservedIsSum == reserved = Cardinality(Units)

\* The counter reads zero, opening the hatch, only when no job holds memory.
HatchOnlyWhenIdle == reserved = 0 <=> Holders = {}

\* The counter of try_reserve() and release() is of positive estimates, and exact, so
\* that it opens the hatch only when nobody holds memory.
ReservedIsExact == AdmissionTypeOK /\ ReservedIsSum /\ HatchOnlyWhenIdle

\* With the gate enabled the estimates of all holders fit under the ceiling,
\* unless one single job came through the forward-progress hatch.
CeilingOrHatch ==
    ceiling # 0 => \/ reserved <= ceiling
                   \/ \E j \in Jobs : Holders = {j}

\* A job admitted beside others passed the RSS and host checks on the sample
\* of its own call: retries of the compare-and-swap never skip them, even
\* when the counter passed through zero in between.
ProbeBindsBesideOthers ==
    [][\A j \in Jobs :
          (ceiling # 0 /\ Holders # {} /\ j \in Holders' \ Holders)
             => ~OverRss(j) /\ ~BelowFloor(j)]_admissionVars

\* TurnedAway, or about to be: the counter this job read was not zero.
TurnedAway(j) == maPc[j] \in {"reclaim", "wait"} \/ (maPc[j] = "cas" /\ seen[j] # 0)

\* Whoever will still notify the waiters when it is through.
WillNotify == {j \in Jobs : maPc[j] \in {"listing", "held", "unlist", "notify"}}

\* No wake-up is lost between the look at the counter and the sleep: a refused job that
\* nobody has woken sleeps beside another whose release will wake it, wherever in its
\* three statements that release is.
SleepersAreRemembered ==
    \A j \in Jobs : TurnedAway(j) /\ ~notified[j] => WillNotify # {}

\* Jobs between their estimate and their admission, at whatever point of the loop.
InTheLoop == {j \in Jobs : maPc[j] \in {"poll", "load", "cas", "reclaim", "wait"}}

\* Every waiter is admitted (or dropped) even if the re-poll tick never fires: every
\* release reaches every job whose refusal it invalidates, because the waiter registers
\* before it looks at the counter.  A job asks once, so that one which stayed in the
\* loop for ever would keep it from being empty again.
WaiterAdmittedWithoutRepoll == []<>(InTheLoop = {})

\* The comment in admit() on the reclaim of the first refusal: "the dispatch
\* loop admits serially, so this cannot thrash".
ReclaimsSerially ==
    \A j, k \in Jobs : maPc[j] = "reclaim" /\ maPc[k] = "reclaim" => j = k

\* The abstract gate: a job is in from its successful compare-and-swap to the
\* subtraction of its estimate.
StageOf(p) ==
    IF p = "new" THEN "new"
    ELSE IF p \in {"listing", "held"} THEN "in"
    ELSE IF p \in {"unlist", "notify", "done", "gone"} THEN "out"
    ELSE "asked"

Gate == INSTANCE AdmissionGate WITH
    Estimates <- PossibleEstimates,
    stage <- [j \in Jobs |-> StageOf(maPc[j])]

\* The compare-and-swap loop, the wake-ups and the three-step release
\* implement the one-step admission of AdmissionGate.
ImplementsGate == Gate!Spec
=============================================================================
