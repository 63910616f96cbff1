# Postdoc in TLA+

Specifications, model-checking configurations and proofs for postdoc, a malware
analysis service in Rust (`src/src`).  The program runs in two roles:

* a **server** (`server/`): an HTTP API that analyses an upload, a package or a
  URL and answers with a verdict;
* a **worker** (`worker.rs`): a pull client of a queue service named hopper. It
  claims jobs, downloads their payloads, analyses them and posts verdicts.

A server may keep a worker of its own beside it, frozen while a request is being
analysed. The analysis itself (crates `cleave`, `scan`, `burton`), hopper, and
the kernel are outside the repository: they are modelled by how this code uses
them, or left out.

## 1. Inventory

| component | source | state | operations | what is hard |
|---|---|---|---|---|
| memory admission gate | `admission.rs` | `reserved`, `inflight`, `released` | `admit`, `try_reserve`, guard drop | compare-and-swap races, lost wake-ups, the always-admit hatch |
| single-flight registry | `server/flight.rs` | key to live flight and its count; a watch channel per flight | `join`, `finish`, `wait`, attachment drop | join against retire, late drops, a leader that dies |
| leader and capacity | `server/analyze.rs`, `server/mod.rs` | slot lanes, CPU gate, in-flight entries, `stuck_orphans` | acquire, run, timeout, follow, file | threads that cannot be stopped, permits that must follow them |
| request side, status | `server/v1.rs`, `server/handlers.rs` | none of its own; reads the verdict index | join, wait, status | index against registry: a gap between the two |
| lookup | `server/v1.rs`, `server/decision.rs`, `server/handlers.rs` | the rows of one answer | `v1_lookup`, `decide`, `decide_many` | rows that end in any order, tasks that panic, an outage that reads as absence |
| analyze request | `server/v1.rs` | repair permits | parse, read the body, probe, refresh, admit, repair | what may stand in for a run, and about which artifact |
| streamed answers | `server/v1.rs` | a channel and an attachment per caller | grace window, progress, last line | a reader that left, a run that ends as the stream begins |
| request edge | `server/access.rs`, `server/acl.rs`, `server/error.rs` | none | peer gate, bearer gate, access line, failure to status | masks and mapped addresses, a wrong token on an open route |
| readiness, memory, CPU | `server/mod.rs` | readiness, overload mark, last CPU sample | `load_resources`, `admit_request`, `check_memory`, `CpuBusy` | an await between two readings, many readers of one sample |
| service times | `server/latency.rs`, `server/mod.rs` | ring of histograms; count and sum | record, percentile | a clock read before a lock, two atomics updated apart |
| server shutdown | `server/mod.rs`, `main.rs` | connections, owned tasks, `live`, a `Notify` | accept, `stop`, `drain`, runtime drop | a lost wake-up, a run registered after `stop()` |
| idle worker | `server/idle.rs`, `suspend.rs` | busy count, installed worker, cgroup | enter, leave, `ensure_running`, freeze, thaw, kill, release | freeze against thaw, replacement against requests, leftover cgroups |
| corpus | `server/corpus.rs` | rest mark, lag cache, counters | `known_with_source`, `sample` | fail-over, a stale lag, shared state around awaits |
| worker pipeline | `worker.rs` | staged queue, depth counter, tail permits, lane permits, LLM backlog | claim, stage, dispatch, run, post, second opinion | four kinds of permits held across waits; tails aborted over running threads |
| stop, drain, watchdog | `worker.rs`, `main.rs` | `Stop`, progress marks | signal, `--max-jobs`, stall, drain, exit | stop reasons racing each other, wedged threads |
| staging budgets | `worker.rs` | input bytes, spool bytes, waiters | reserve, shrink, cover, drop | sizes that are wrong or unknown, waiting with something in hand |
| job source | `worker.rs` | channel, reorder window, a mutex | `recv`, `pick_from_reorder` | starvation between tiers, age and size, a channel that closes |
| result posting, leases | `worker.rs` | none; hopper's leases and rows | post with retry, heartbeat, amended post, dependencies | retry of what was stored, a lease that lapses |
| worker telemetry | `worker.rs` | minute buckets, error times, queue times, phase clock | record, prune, observe | clocks read outside locks, a process that is suspended |
| local sample index | `worker.rs` | the walk's index, verified paths, hash slots | `stage_payload`, `locate`, `resolve` | files that change under a cache |
| renewal of rules and models | `worker.rs` | the model's handle, the process's trait mapper | `resolve`, `renew_resources_once` | a failure at any step keeps the old |
| judging and reports | `judge.rs`, `combine.rs`, `report.rs`, `engine.rs` | none | fold two outcomes into a verdict, quote a reason | one number that must say what two did |
| scratch trees | `temp_space.rs` | a directory, a marker and its lock per process | create, drop, sweep | a sweep against a start, a kill at any step |
| startup and tuning, diagnostics, CLI | the rest | none that matters | arithmetic, formatting | none |

Interactions. A request passes the edge, is parsed, and may be answered from the
index, the filters or the corpus; otherwise it is admitted (readiness, memory)
and calls the registry. The registry's leader takes permits from the capacity
semaphores and holds them in a `RequestGuard`, which also raises the idle worker's
busy count; what the run comes to is published to every caller attached, in a
response or on a stream. The worker's prefetcher feeds slots through the job
source and is woken by a `Notify`; a slot starts tails, a tail takes lane and
memory permits and hands them to a blocking thread, and posts its result under
the lease that the heartbeat renews; a watchdog reads progress marks and raises
the same `Stop` as signals do. Bytes come from the local index or are downloaded,
and are then charged to the staging budgets until the analysis drops them.

## 2. Modules

| module | models | checked by |
|---|---|---|
| `AdmissionGate` | what the memory gate promises: one-step admission | refined by `MemoryAdmission` |
| `MemoryAdmission` | `admit`, `try_reserve`, `register`, `release`, one action per access to shared state | `MCServerParts`, `MCServerLive` |
| `AnalysisFlights` | registry, leader, guard, orphans, request side, `/status` | `MCAnalysisFlights`, `MCServerLive` |
| `ServerShutdown` | accept loop, window, `stop`, `drain`, owned tasks, exit | `MCServerLive` |
| `IdleWorker` | `Busy`, supervisor, `Idle`, cgroup | `MCServerLive` |
| `StreamedAnswer` | the callers of one run: grace window, frames, last line | `MCServerParts`, `MCServerLive` |
| `LookupAnswer` | one lookup and its rows | `MCServerParts` |
| `AnalyzeRequest` | an analyze request up to the run, repairs; extends `LookupAnswer`, whose decisions it uses | `MCServerParts` |
| `RequestEdge` | peer gate, bearer gate, access line, failure to status | `MCServerParts` |
| `ServerReadiness` | loaders, memory check and mark, CPU share | `MCServerParts` |
| `ServiceTimes` | latency ring, aging totals | `MCServerParts` |
| `ScratchTrees` | `in_dir`, sweep, drop, kill | `MCHopperParts` |
| `Judging` | outcome of two engines to a report's verdict and sentence | `MCServerParts` |
| `CorpusReads` | lookups and sample downloads over several addresses | `MCHopperParts` |
| `WorkerPipeline` | prefetcher, slots, tails, threads, watchdog, stop, drain, exit | `MCWorkerPipeline`, `MCWorkerLive` |
| `StagingBudget` | `InputBudget`, `SpoolState`, both downloads | `MCStagingBudget` |
| `JobSource` | channel, reorder window, receiver mutex, choice | `MCHopperParts`, `MCWorkerLive` |
| `ResultPosts` | claims, leases, posts, retries, amendments, dependencies | `MCHopperParts`, `MCWorkerLive` |
| `WorkerTelemetry` | metrics windows; deadline and slow phase of an analysis | `MCHopperParts` |
| `LocalIndex` | the file system, the walk, resolution, staging, location | `MCLocalIndex`, `MCHopperParts` |
| `ResourceRenewal` | start and renewals of rules and models | `MCWorkerLive` |
| `MemoryAdmissionProofs`, `StagingProofs`, `FlightsProofs`, `WorkerProofs`, `ServerProofs`, `EdgeProofs`, `AnswersProofs`, `PartsProofs` | theorems, section 4 | `tlapm` |

`MC*` modules give constants their small values; four of them also put several
components into one run, see section 3. A definition whose comment begins with
"Mutation:" is a plausible defect of the definition after it; no specification
uses it. It is there so that a property can be shown to notice a defect.

### How state and actions correspond to the code

**MemoryAdmission.** `reserved`, `inflight` and `notified` are the struct's
fields; `seen`, `probe`, `paused` are locals of `try_reserve` and `admit` kept
across steps. `Enlist` is the loop head, where the waiter enables its
`Notified` and memory is sampled; `LoadReserved` and `CasOk`/`CasFail` are the loop of
the weak compare-and-swap, which may fail for no reason; `RefuseReserve` goes to
reclaim or to wait. A guard's drop is three actions, since other tasks run between the
subtraction, the unlisting and the wake-up. Memory readings are arbitrary.

**AnalysisFlights.** A flight carries the name of the request that leads it, so
`live[k]` is the registry entry and `attached[k]` its count. `JoinLead`,
`TakeSlot`, `TakeCore`, `Start`, `Joined`, `File`, `Retire`, `Send` are the
leader's path in order; `TimesOut` and `OrphanReaped` are `run`'s timeout and
`follow`. `Retire` and `Send` are the two halves of `finish`: under the lock and
after it. A request that reconnects is another request about the same key. A
status query is two steps, registry and then index.

**LookupAnswer.** A batch is one step over the index and then a task per missed
row; `laRow[i].pc` is where that task is and `laRow[i].heard` what the corpus told
it. Index, filters and corpus answer anything at each read; what the corpus answers here
is what `CorpusReads` made of the addresses, so that `OutageIsNeverUnanalyzed` is about
what a lookup does once it hears "unreachable". Levels on the wire
are numbers, with -1 for clean and -2 for manual thresholds, and compared as such.

**AnalyzeRequest.** `arReq[r]` carries the request through `parse`, `read_body`, the
probe or the refresh, and admission; `arRepair` are the tasks that hold an upload's
bytes to write a missing hopper row, each waiting for or holding one of
`MaxRepairs` permits. Readiness and memory are free here: `ServerReadiness`
says what they may do.

**StreamedAnswer.** `saRun` is what the run publishes, a status; `saCaller[c]` has the
caller's channel (`queue`), what it has read (`got`) and its place in the handler;
`saAttached` the attachments. A caller may leave at any step, also between the
grace window and the stream, and reads as slowly as it likes.

**RequestEdge.** One record per request from the peer address to the access line.
The masks are computed as the code computes them, on addresses of `AddrBits`
bits; a failure is its kind with what the classifier looks at: where in the
error's chain the telling text is, the fetch outcome.

**ServerReadiness.** `rdLoad` are the three loaders, joined by `install` or
`fail_startup`. `mmReq[r]` is a request in `admit_request`: first reading, cache
clear (on a thread that runs on if the request goes), second reading, mark. `mmMark` is
`overloaded_since`. The CPU counters only grow, may be reset, and `cbLast` is the
sample the next share is computed against.

**ServiceTimes.** `lwRing` is the ring, `lwStamp` the time a recorder read before it
took the lock; `lwLog` is history. `jbEnd[t]` is a thread in `JobBucket::record`
between its atomic steps.

**ServerShutdown.** `ssServe` is the program counter of `serve`, `drain` and the end of
`main`; `ssConn` the connections, `ssTask` the owned tasks, two per connection (the
leader and the follower of a timed-out thread), `ssThread` and `ssTold` the
blocking threads and whether their guard told them to stop. `ssDrain.at` counts
the steps of `drained`: enable the waiter, read the count, wait.

**IdleWorker.** `sup` is the program counter of the supervisor's blocking thread
through `ensure_running`; `Check` and `Install` are atomic because they run under
the lock that requests also take. The kernel's rules are external: a process in
a frozen cgroup makes no step, not even up to its exec; a cgroup with a member
cannot be removed. Only the Linux cgroup primitives are modelled, not the
signals used on FreeBSD.

**Judging.** One analysis is chosen, folded and written. Bands are ordered numbers
and a level is the budget the file fires at; `Placed` is the calibration table
that gives a band its level, arbitrary in the proofs.

**ScratchTrees.** A tree bears its owner's name; `tsTree` is what is on disk of it,
`tsHolder` who has its lock. `MakeStep` takes the four calls of `in_dir` one at a time;
a sweep lists, opens a marker, tries the lock and removes entry by entry, and
`PassOver` is an entry or a lock it cannot read, which it leaves and goes on. `Kill`
may strike at any step and takes the locks, not the files.

**CorpusReads.** `crRead[r]` is a reader with the addresses it has still to try;
everything before and everything after an await is one step, over the shared
rest mark and lag cache. A replica falls behind and catches up at will. What an attempt
comes to is one of seven `Attempts`: `busy` (408, 429) and `down` (5xx, no answer) are
tried again (`Transient`); after the last retry `Verdict` keeps them apart as the code
does, `busy` reading as nothing and `down` passing to the next address. A status `ask`
has no arm for behaves as 401 and 403 do (`denied`).

**WorkerPipeline.** `place[j]` is where a job is, from hopper through the claim, the
staged queue and the tail to its end; `thread[j]` is its blocking thread, which
may outlive the tail. `TailAborted` is a dropped future: its destructors give
back what the tail owned, and what moved to the thread stays with it. `moved`
stands for the progress marks `check_stall` compares between two ticks. The
memory gate appears only as "admitted, at the latest when nothing else runs",
which is what `AdmissionGate` promises. Which staged job a slot takes is left
open: that is `JobSource`. `Return` is what `drain` leaves behind, `ProcessExits` the
drop of the tokio runtime in `main`.

**StagingBudget.** `memory[j]` and `spooled[j]` are a job's reservations, `used` and
`spoolUsed` the counters beside them. `Headers` compares the response's length
with the hint; `BodyRead` shrinks to the real size or reroutes to the spool;
`Chunk` covers a chunk before writing it. The same download code runs for a
prefetched job (behind the download gate) and for a tail whose prefetch failed.

**JobSource.** `jsRx` is the prefetch channel, `jsWindow` the reorder window in the order
of its sweeps with each job's age. A slot waits for a tail permit, for the mutex
(`TakeTail`), and then sweeps and picks, or awaits a first job (`Recv`).

**ResultPosts.** One sample and several claims of it. A tick is longer than an attempt
with its backoff. A post may be lost, stored and not acknowledged, or still be at
work at hopper after the worker gave it up (`rpStray`).

**WorkerTelemetry.** A tail's completion is a look at the clock and then each lock on
its own. `atTrue` is the time an analysis really ran and was stopped, `atLoop` and
`atSlow` what the loop of `run_job` makes of the gaps it sees.

**LocalIndex.** `liFile` is the file system, which changes between any two steps;
`liVerified` and `liCache` are the two caches; a job goes through `stage_payload`,
each candidate's metadata and hash, and the reopening in `run_job`.

**ResourceRenewal.** A version of the models and one of the traits make a
combination. `rnDisk` is installed, `rnServed` served; `rnLoaded` is a model that a
renewal has loaded and not handed over. Every step may fail.

## 3. Runs

| run | shows |
|---|---|
| `flights` | three requests, three keys (one upload under two policies, one package), two lanes, timeouts, a lossy index: registry, counts, permits and `active_tasks` are exact, and who is attached has an answer ahead |
| `worker` | two jobs, two slots, everything that can go wrong enabled: permits and depth exact, room is heard of and tails go on, deadline wins, dropped work is cancelled, a stall is never downgraded |
| `worker_stop` | threads that may never return: a stop ends `run()`, and wedged tails end the worker |
| `staging` | understated, unknown, outgrown and large bodies, failures at every step: both budgets exact and bounded, whoever sleeps holds nothing, and no circle of waits while downloads are the prefetcher's |
| `server_parts` | lookups, the way to an analysis, the edge, readiness and memory, latency figures, streams, reports: safety of each; and the memory gate with three jobs, enabled and disabled: exact counter, ceiling or hatch, probes bind, no wake-up is lost, and refinement of `AdmissionGate` |
| `hopper_parts` | corpus reads, the order of staged jobs, posts under leases, metrics and running time, the local index, scratch trees: safety of each |
| `server_live` | flights, streams, shutdown, the idle worker and waits for memory: what must end ends, a waiter needs no re-poll tick, and the safety of shutdown, idle worker and `/status` |
| `worker_live` | pipeline, job source, posts and renewal: what must end ends, and a renewal serves what it validated and all of it |
| `worker_stall_exit`, `staging_stuck`, `index_miss`, `corpus_busy` | findings 1 to 3 and 5 below |

**Side by side.** `server_parts`, `hopper_parts`, `server_live` and `worker_live` hold
several components. A variable `part`, chosen in the initial state, says which one
a behaviour is about; the others never move. The states are the sum of the
components' states, not their product, and each component has every behaviour it
has alone, under its own fairness and no other. These are not compositions: what
two of these components share is an input that moves freely in each of them
(readiness and memory in `AnalyzeRequest`, the corpus in `LookupAnswer`).

**Properties in groups.** Most properties of a run are a conjunction of named parts,
each stated and commented on its own in its module:

| property | parts |
|---|---|
| `ReservedIsExact` | types (a charged estimate is positive); `ReservedIsSum`, `HatchOnlyWhenIdle` |
| `CapacityIsExact` | types; `CapacityHonest` (a permit is free or held by who needs it), `ActiveTasksExact` |
| `AttachedAreServed` | `AttachedExact`, `AnswerAhead` |
| `WaitsAreHonest` | types; `PermitsHonest`, `OutstandingExact`, `RoomIsHeard`, `TailsGoOn` |
| `DroppedJobsFallSilent` | `TimeoutWins`, `AbortedIsCancelled` |
| `BudgetsHold` | types; `MemoryCovered`, `SpoolCovered`, `NobodyIsStuck` |
| `IdleWorkerYields` | types; `FrozenExactlyWhileBusy`, `ReplacedAfterKill` |
| `LookupIsFaithful` | `RowsAreTheirOwn`, `NoRowForgotten`, `OutageIsNeverUnanalyzed`, `FreshSkipsFilters`, `ReleaseHearsCorpus`, `CleanIsNeverBlocked` |
| `AnswersAreAboutTheAsked` | `UploadJudgedByItsDigest`, `OnlyAnswersStandIn`, `RefreshIsCurrent`, `OneArtifactRuns`, `RefusedOnlyForWork`, `RepairsBounded` |
| `StreamIsFaithful` | `OneLastLine`, `RefusalDecidesNothing`, `OneFailureForAll`, `WaitedForIsWanted`, `OneKeyManySpellings` |
| `EdgeIsSound` | `PeerGateIsThePrefix`, `TrustIsTheToken`, `RefusalsStandOut`, `FailureNamesItsCause`; steps: `WrongTokenWaits` |
| `ReadinessIsHonest` | `RunsOnlyOnLoaded`, `RefusedOnlyAfterClear`, `MarkUnbroken`, `ShareOverAWindow` |
| `FiguresAreOfTheRecords` | `PercentileInItsBucket`, `JobCountSane` |
| `TreesAreSafe` | `LiveTreeNeverSwept`, `OneRemovesATree`, `SweepLeavesNone` |
| `ReportIsEarned` | `FoldBlocksAsEither`, `QuotedReachedIt` |
| `ShutdownIsOrderly` | `ShutdownTypeOK` (permits are exact), `NoLostWakeup`, `WindowHonored`, `WaitsOnlyForTheTold`; steps: `DrainedIsQuiet` |
| `ReadsAreHonest` | `AbsenceIsAnswered`, `FailureTriedAll`, `StaleTrustBounded`, `SampleWhole`; steps: `HeadLeadsUnlessItFailed` |
| `DispatchIsFair` | `SourceTypeOK` (every staged job is somewhere, once), `NothingLeftStaged`; steps: `SightedWaitsForNone`, `AgedIsPassedByOlder` |
| `LeasesAreKept` | `RunsUnderItsLease`, `PostsUnderItsLease`, `DependenciesFollowTheirRow` |
| `TimeIsCountedOnce` | `RateCountsTheWindow`, `ErrorsCountTheWindow`, `DeadlineCountsRunning`, `SlowHasLasted` |
| `RenewalIsWhole` | `ServedIsWhole`, `InstalledIsServed` |
| `IndexFindsTheSample` | `PathHadTheDigest`, `SampleInPlaceIsRead` |
| `FlightsEnd` | `EveryRequestAnswered`, `CoreReturned`, `GoneIsLetGo` (liveness) |
| `PipelineFinishes` | `EveryJobClaimed`, `EveryJobFinished` (liveness) |
| `WorkerMovesOn` | `EveryStagedJobGoes`, `EveryTailEnds` (liveness) |

### Bounds, and why they are enough

* *admission*: three jobs let two race the compare-and-swap while a third
  releases. They are of size 1 or 3, and sizes reported include a negative one. Under a
  ceiling of 4 what is reserved lets a large job beside a small one, and what is in
  use (2) or what the host must keep (2 of 3) does not; under 2 it passes by the hatch
  only, exceeds the ceiling and keeps all others out, and of three small jobs one waits;
  0 disables the gate. In `server_live`, where states cost more, the ceiling is 4, what is
  in use is always 2 and no host floor is set: a large job waits for one release or two,
  with a reclaim or without.
* *flights*: three requests are a leader, a follower and a successor under the
  same key; a fourth would repeat a role. Two workers with lanes is the smallest
  server where the lanes differ; one core makes refusals for want of a core
  happen. Each request arrives once; there is no counter to bound.
* *worker*: two slots and two jobs put a tail over another's permits; a buffer of
  one makes full and empty alternate; one permit per lane makes every wait
  happen. `completed` is bounded by the number of jobs. The clock is left out: a
  deadline or the stall limit may pass at any moment, and only ticks that are
  `stall_warn_after` apart are modelled, as no other tick changes anything.
* *staging*: a limit of 3 against bodies of 1, 2 and 4 and a threshold of 2 makes
  the budget too small for two full downloads, so waits, re-reservations and
  reroutes to the spool all occur; the spool holds one large payload and not two. Two of
  four jobs download and two are in tails, so that each waits for what another holds.
* *lookup*: up to three keys at a concurrency of two, so that a row waits for
  another's end; questions of one name, two names of one artifact, two artifacts,
  too many, none, and names that do not parse.
* *analyze*: two requests over one repair permit; the twenty questions cover each
  route with and without a body, each flag, and each refusal of the parser.
* *edge*: addresses of three bits under prefixes of 1, 2 and 3 bits, both families and the
  mapped one; all peers, tokens and failures. Requests share nothing, so that one
  is enough.
* *readiness*: two requests, for the mark is shared; a clock of 3. The CPU counters run
  over three windows, with resets.
* *service times*: a ring of two slots of two ticks over six ticks, so that slots are
  reused and a quiet spell is longer than the window; `JobBucket` halves at 4
  with two threads of five records each (three of two in `MCJobBucket`,
  which is the least that wraps).
* *streams*: two callers, a channel of one line, so that a slow reader fills it. The
  run's outcome is any status.
* *scratch trees*: three processes: a live one and two sweeps that meet.
* *judging*: every combination of the bands, the judges and both interpreters with five
  outcomes of scan, two of them under manual thresholds, and budgets on each side of
  each level.
* *shutdown*: two clients and one connection permit, so that a client waits at the
  permit when the signal comes; one failure of `accept`.
* *idle worker*: `MaxDeaths` and `MaxExits` bound the deaths and abrupt exits. Three
  deaths let the second replacement die as well.
* *corpus*: a replica and a primary; a clock of 3 against a reading good for two ticks and
  requests and rests of one, so that each runs out.
* *job source*: four jobs, two tiers, three sizes, two slots; `MaxWait` of 2 sweeps. An
  analyzed job comes back as another, so that the backlog never ends.
* *posts*: one sample, two claims of it, one stray request; a lease of three ticks
  against retries of one, the ratio of the code (30 and 20 minutes) rounded in
  the retries' disfavour.
* *telemetry*: two items over a window of two minutes; one analysis of two phases
  with up to nine ticks of running and stops of up to four.
* *local index*: two files of one name and one size, two jobs, one change of the files
  (two in `index_miss`).
* *renewal*: two versions of each resource, of which the two mixed combinations are
  broken; two starts.

Symmetry is used in safety runs only. Deadlock checking is off where the system
may come to rest: all requests answered, all jobs done or the process ended.

### Fairness

* tokio polls a ready task, timers fire, and a semaphore or `Notify` hands a
  permit to its waiters in order; so each task's next step is weakly fair.
  Steps that compete for a permit (`SlotPermit`, `JobPassesGate`, `AskModel`) or for the
  receiver's mutex (`TakeTail`, `Recv`) are strongly fair, because tokio's semaphores
  and mutexes are FIFO.
* no fairness is given to clients hanging up, signals, deaths, panics or failures.
* a blocking thread need not return: flights and `worker_stop` do without, shutdown
  assumes it of threads that were told to stop and of no other. The pipeline of
  `worker_live` assumes it (`HealthySpec`), since a job whose analysis never ends is never
  finished.
* hopper answers a poll in the end (`Claim`, `ClaimNone` strongly fair, as failures
  may come between), and hands out sighted jobs for at most half of the room, as
  the worker's comment says of it; without that cap a stream of sighted jobs
  starves the rest.
* the memory gate admits a job that would run alone; a spawn of the idle worker
  does not fail for ever; killed processes go away. `IdleWorkerComesBack` is conditional on
  no spawn meeting a cgroup that was left frozen, which is the one leftover that the
  code does not get over (`MCIdleWorkerReuse`, section 5); a thawed one, of a server that
  exited or around a process that would not die, is taken over.
* the memory gate has no fairness for the re-poll tick: waiters must not need it.
* the renewal's timer comes round and its blocking task ends.

## 4. Proofs

All are safety; liveness, fairness and ENABLED stay with TLC. Each theorem holds for
every value of the constants under the module's named assumptions, which TLC evaluates
in the runs. Nearly every theorem has the same shape: the property is not inductive, an
invariant is that says what is known at each step on the way, and one lemma per
action shows that the action keeps it.

**`MemoryAdmissionProofs`**, for any set of jobs, ceiling, parameters of the
estimate and memory readings:

* `TypeCorrect`: types, and every charged estimate is positive;
* `CounterExact`: `reserved` is the sum of the held estimates (`ReservedIsExact`);
* `CeilingKept`: they fit under the ceiling unless exactly one job holds;
* `HatchSound`: the counter is zero exactly when nobody holds;
* `ProbesBind`: a job admitted beside others passed both memory checks;
* `NoWakeupIsLost`: a refused job that nobody has woken sleeps beside one that will
  (`SleepersAreRemembered`);
* `Refinement`: the gate implements `AdmissionGate`.

*Sums without induction.* A sum over a set of jobs would be recursive, and no
induction over it could be proved here. The sum is therefore the cardinality of
`Units`, a set with one element per unit of memory charged. `UnitsAdd`,
`UnitsRemove` and `UnitsEmpty` say what admitting and releasing one job do to it;
they follow from the library's facts on unions and products of finite sets.

*The inductive invariant.* `IInv` is `AdmissionTypeOK`, finiteness of `Units`, `ReservedIsSum`
and `CeilingOrHatch`. `ReservedIsSum` is not inductive alone: a successful
compare-and-swap adds the job's estimate to what it *saw*, so its proof needs the
guard `seen = reserved` and that the job was not charged before, and a release
needs its estimate to be part of the sum, so that the saturating subtraction
does not saturate. Finiteness is needed for cardinalities to add up. The ceiling
needs the exact counter, since the code compares the counter and not the sum.
The proof has one lemma for steps that touch no reservation (`QuietStep`), one for
the admission (`ReserveStep`) and one for the release (`ReleaseStep`).

*The wake-up.* A job that reads a counter which is not zero saw somebody's estimate. Its
holder, or another, is then still to notify: when the last of them takes its estimate
away and notifies, the refused job has registered, since it does so before it reads, and
is marked. This is the safety half of `WaiterAdmittedWithoutRepoll`; the other half, that
whoever will notify does, is fairness.

*The refinement* maps a job's program counter to a stage (`StageOf`). A successful
compare-and-swap is the abstract `Admit`, whose guard follows from `IInv`; a
subtraction is `Leave`, as is a dropped waiter; everything else stutters.

**`StagingProofs`**, for any jobs, sizes, hints and limits: `BytesStayCovered`, both
budgets. Sums are cardinalities here too. A counter that equals its sum is
kept only if nothing is reserved over a reservation that is still there, so
`StagingInv` says what a download holds in each phase (`HoldsInv`); and the spool
passes its budget only for a payload that came alone, which stays alone in the
count because every other one is refused while the counter is above it (`SpoolExact`).
`TotalMoves` says what changing one job's share does to a sum. That nobody is stuck
(`SomebodyGoesOn`) is the safety half of `EveryJobDone`: `WaitsInv` has a sleeper short of
bytes at this moment, because whoever gives some back wakes all; if every job left were
blocked then no tail would be taken, so that all memory would be with the downloads, and
these sleep with nothing, so that the budget would be free.

**`FlightsProofs`**, for any requests, keys, workers, cores and status calls:
`FlightsStayJoinable`, `AttachedStaysExact`, `AttachedAreAnswered`,
`CapacityStaysHonest`, `CapacityStaysExact`, `StatusLeavesNoGap`. `FlightsInv` says
where a flight is registered (`RegistryInv`), where a request belongs (`RequestInv`),
what a flight holds at each stage (`HoldsInv`), and that every counter is the size of
the set it stands for. A late drop is harmless because the registry holds a flight
exactly until its retirement; without `HoldsInv` a core could be given back twice.
`AnswerInv` adds what each stage of a flight still has to give: a flight that runs has a
thread, one that is retired or about to send has its value, a settled one an outcome
that stays, for whoever subscribes late; and that a core is held by a thread or for one
about to start. Two theorems have a hypothesis, each with a configuration that shows
why. `CapacityStaysExact` needs two workers if lanes are on: with one, the two lanes
hold two permits (`ActiveTasksExact`, section 5). `StatusLeavesNoGap` needs an index
that takes what is filed and artifacts named by digest or PURL: a run about a URL reads
as unknown (`StatusNoGap`, section 5).

**`WorkerProofs`**, for any finite sets of jobs and slots, any lanes and limits:
`WaitsStayHonest`, `DroppedJobsStaySilent`, `StallIsSticky`. `WorkerInv` ties the
blocking thread of a job to where the job is (`JobInv`), since a permit follows the
thread through an abort but the result does not, and each counter to the size of a set.
The claim depth is exact only while the prefetcher lives; after its death the invariant
keeps the half that is still true (`DepthInv`). A prefetcher that saw a full depth has
the wake-up stored if room came since, as whoever makes room stores it (`RoomStep`). The
tails do not wait in a circle (`SomebodyGoesOn`): a lane without a permit has its
permits with tails that admit or with threads, one that admits waits for others that
run, and one that runs waits for its thread (`ThreadInv`).

**`ServerProofs`**: shutdown for any clients, permits and accept failures
(`ShutdownStaysOrderly`), the idle worker for any requests and deaths
(`IdleWorkerMakesWay`), readiness for any requests (`ReadinessStaysHonest`). The lost
wake-up is excluded by `WaiterIsEnabled`: the drain reads the count only after its
waiter is enabled. `StrayIsKilled` and `NewWorkerIsThawed` carry the idle worker through
its replacement, when the count rises and nothing is installed. A refusal for memory
follows a clearing because a request that reads again has seen the clearing end
(`CheckInv`).
In the same module, `WindowForgets`, for a ring of any slots and any recorders.
`LatencyInv` gives each sample the turn of the clock it was filed in, and has each slot
count the samples of one turn, the one as many turns back as the slot is places behind
the current one (`RingOf`, `AgesMove`). A sample is taken before its turn ends and filed
after it starts (`TakenInTime`), which is why a recorder that waits for the lock can file
late and never early; the sum of the counts is the size of a union (`SumOfSizes`), so
that no induction over the ring is needed.
`PercentileIsOfItsSample` is about the same ring, for any number of buckets. The rank
falls in the bucket of the sample that has it because the sum of the histogram up to a
bucket is the number of samples up to its end (`UpToIs`), again as the size of a union;
the interpolation stays within the bucket (`WithinBucket`). What a power of two is comes
from `DoublingAssumption`, as in `EdgeProofs`.
And `TwoThreadsKeepTheCount`, for the aging totals of any memory and any
number of records. `BucketInv` has the count over its line only by threads that have yet
to halve it, and makes it hold what they will take: the second to cross saw at least
half of what the first did. The hypothesis, two threads at most, is that of the code's
comment; three wrap the count (finding 4). `FiguresHold` joins the two.

**`EdgeProofs`**, for addresses of any width, any networks and requests:
`EdgeStaysSound`. The code compares masked numbers; the lemmas on masks (division and
remainder by powers of two) show that this compares prefixes. The powers are
data here (`PowersAssumption`), since what a recursive function computes cannot be
proved. The rest is an invariant of each request: who the peer is, what the token
was worth, why it failed.
In the same module, `ReadsStayHonest`, for a lookup of the corpus over any addresses:
`CorpusInv` dates a word about the lag before its question, so that the replica has been
within its bounds since; gives the head of the addresses exactly its rest from its
failure; and makes what was tried and what is left all the addresses, whatever the
order they were put in (`Ordering`), so that an outage is one of every address. Of a read
that came to nothing it says what was heard: absence, a refused query, or an address
that was busy to the last retry (finding 5). That the other failures never read as
absence is what is proved.

**`AnswersProofs`**:

* judging, for every set of analyses, budgets and placements: the fold is commutative
  and associative (`FoldCommutes`, `FoldAssociates`), blocks for exactly the budgets
  for which one of the engines would have (`VerdictBlocksAsEither`), and a report's
  number and sentence are those of engines that earned it (`ReportsAreEarned`). The
  fold compares bands before levels, so that the second half needs the band rule: every
  hostile level is tighter than every suspicious one. The rule is a hypothesis of
  `FoldBlocksAsEither`, since the calibration table is data;
* a lookup, for any engines, keys and rows (`LookupsAreFaithful`). `RowInv` says of each
  row what it may claim by what it has heard, before it is joined and after; a row
  that is not joined reads `unavailable`, which is sound whatever the sources say.
  That few rows run at once is a fact about finite sets, which needs the rows
  to be numbered;
* an analyze request (`AnswersAreHonest`). `OnItsWay` says what each step has settled:
  that the bytes are those asked for, that a refresh names one digest and nothing
  else. The least of several matches is reached with `LeastOf`, from the library's
  well-foundedness of `<` on `Nat`;
* the callers of one run (`StreamsAreFaithful`). `LinesInv` splits a stream into what
  was queued and what was read: the last line is in one of them, is the last there, and
  nothing comes before the run is over but progress.

**`PartsProofs`**:

* the scratch trees, for any set of processes, each killed at any step:
  `LiveTreesAreSafe`, `RemovalsNeverMeet`, `SweepsLeaveNone`, and `TreesStaySafe`, the
  three together. `ScratchInv` is an argument about the lock: a live process holds its own
  from the third step of `in_dir`, the marker comes with the fourth, a sweep can only
  have opened what was marked, and removes only under the lock. It is needed
  because `LiveTreeNeverSwept` says nothing of a sweep between its `open` and its
  `try_lock`. `SweepInv` adds who else may hold a lock, and that what a sweep owes is
  gone, or ahead of it with its marker, or what it has open;
* the renewal, for any versions and any set of broken combinations:
  `ServedIsValidated`. Before its validation the installed combination is arbitrary and
  the served one whole; after it the installed one is whole, and stays so until it is
  loaded and swapped, since only the renewal itself updates. What an update installed is
  in `rnChanged` until it is served, unless a step fails (`InstalledIsServed`);
* claims and posts, for any claims and times (`LeasesStayKept`). `LeaseInv` bounds the
  lease's age by the post's: a lease is no older than the post of its result, and the
  post gives up (`RetryBudget`) before a lease that young ends;
* the local index, for any files, jobs and changes of the disk
  (`IndexIsAnAccelerator`). A cached hash is of the bytes at its path or from before
  their last change (`CacheInv`), so that a job whose `stat` was before the change and
  whose hash came after stores a hash that nobody believes; `SeenInv` says what a search
  has seen of the disk;
* the job source, for any jobs, sizes, slots and permits (`DispatchStaysFair`). A job is
  dispatched by its place in a list, and the property is about the job: `StagedInv` says
  that a staged job is in the channel or in the window, and once. What a call picks is
  the first of its tier (`LeastOf`), and what it leaves keeps its order (`RemovedIs`,
  `SplitIs`). Nothing is left behind because whoever waits for a first job holds the
  mutex over an empty window (`MutexInv`);
* the telemetry, for any items, minutes, phases and gaps (`TimeStaysCountedOnce`). No two
  minutes of one window share a slot (`OneOfASlot`), so that a slot counts one minute and
  no minute of the window loses its own (`SlotsInv`, `KeptInv`); a tail is late at the
  lock by less than a window, which is the guard of `Minute`. The errors stand in order
  because their clock is read under their lock (`SortedInv`), so that a prune from the
  front drops just the old ones (`PrunedIs`). What is counted of an analysis, the gap
  it is in included, has run, up to two ticks for a stop (`RanInv`, `PhaseInv`).

*What is assumed of constants.* Sets are named by assumptions only where the code
says so: jobs and slots of a worker are finite (its slots are threads, its jobs one
claim each), networks and powers of two are well-formed (`NetworksAssumption`,
`PowersAssumption`, `DoublingAssumption`), keys and asks are what the parsers make (`LookupAssumption`,
`AnalyzeAssumption`), the retries of a post end before its lease (`PostsAssumption`), files
are listed once (`IndexAssumption`), a corpus has an address (`CorpusAssumption`), a
worker has a slot (`SourceAssumption`).

*Only model-checked*: all liveness (it rests on fairness), and so the runs that expect a
violation. Of most of them the safety half is proved, that whoever waits has something
ahead which fairness brings about:

| only model-checked | proved half | theorem |
|---|---|---|
| `WaiterAdmittedWithoutRepoll` | `SleepersAreRemembered` | `NoWakeupIsLost` |
| `EveryJobDone` | `NobodyIsStuck` | `BytesStayCovered` |
| `FlightsEnd` | `AnswerAhead` | `AttachedAreAnswered` |
| `PipelineFinishes` | `RoomIsHeard`, `TailsGoOn` | `WaitsStayHonest` |
| `WorkerMovesOn` | `NothingLeftStaged` | `DispatchStaysFair` |
| `NewsIsServed` | `InstalledIsServed` | `ServedIsValidated` |
| `SignalEndsServer` | `NoLostWakeup`, `WaitsOnlyForTheTold` | `ShutdownStaysOrderly` |
| `IdleWorkerComesBack` | `ReplacedAfterKill` | `IdleWorkerMakesWay` |

`StopReturns` and `WedgeEndsWorker` have none: they rest on the limits of the drain and of
the watchdog, which pass whatever else waits.

## 5. Findings

1. *A stalled worker does not exit* (`worker_stall_exit`, `main.rs:468`). `run()`
   returns, but dropping the runtime waits for the wedged thread.
2. *Tails and staged jobs wait for each other* (`staging_stuck`, `worker.rs:4054`). A
   tail whose prefetch failed reserves input memory while holding a tail permit;
   staged jobs hold that memory and wait for a tail permit. The stall watchdog
   is what ends it. `EveryJobDone` is what holds otherwise.
3. *A file that goes after staging fails its job* (`index_miss`, `worker.rs:3877`). A job
   staged as local whose file is gone when the tail reads it is not downloaded,
   though hopper has the sample. `IndexFindsTheSample` is what holds.
4. *The aging count wraps* (`MCJobBucket`, beside the runs; `mod.rs:610`). A thread that
   crosses the line of `JobBucket` subtracts half of what it saw. Two that cross together
   forget more, as the comment says (`mod.rs:607`); the third takes away what is no longer there, and
   the count reads about 2^64 for some fifty records. `TwoThreadsKeepTheCount` is what
   holds.
5. *A corpus that stays busy reads as one that holds nothing* (`corpus_busy`,
   `corpus.rs:630`). A 408 or 429 is retried while `attempt < READ_RETRIES` (`corpus.rs:585`);
   the last one falls to the arm of the other 4xx, `Reached::Nothing`, which
   stands for "answered and holds nothing" (`corpus.rs:78`). The address counts as
   reachable and the next is not asked, though "a transient Hopper failure" is to end
   with "the next address a chance" (`corpus.rs:32`). `AbsenceIsAnswered` is what holds.

More disagreements between a comment or document and the code, each with a
configuration beside the modules that shows it. Where a configuration has several
properties, TLC stops at the first; list one of them to see the others.

| configuration | module | property | what differs |
|---|---|---|---|
| `MCIdleWorkerReuse` | `IdleWorker` | `WorkerComesBack` | a killed descendant that is slow to exit keeps the cgroup; it is reused still frozen, and the replacement's spawn waits for ever with nothing installed to thaw it (`suspend.rs:196`, against `:194`) |
| `MCFlightsDocs` | `MCAnalysisFlights` | `ActiveTasksExact` | lanes with one worker hold two permits, `active_tasks` reads 0 (`mod.rs:885`) |
| | | `StatusNoGap` | a finished run about a URL reads as unknown: the index is asked by PURL and digest only (`handlers.rs:204`, against `:142`) |
| | | `CensusPopulated` | a registered flight may have no request (`flight.rs:377`) |
| `MCIdleWorkerDocs` | `IdleWorker` | `NeverBesideARequest` | a replacement runs beside a request until installed (`idle.rs:51`) |
| | | `BusyFromHandlerEntry` | the count rises at the permits, not at handler entry (`mod.rs:976`) |
| | | `NothingLeftBehind` | `process::exit` over the memory cap runs no destructor (`suspend.rs:42`) |
| `MCServerDocs` | `MCServerParts` | `EveryAnswerNamesFollow` | a URL request that is refused admission is answered without its follow policy (`v1.rs:779`, against the text at 877) |
| | | `ReclaimsSerially` | first refusals clear the caches at once, admission is not serial (`admission.rs:450`) |
| `MCHopperDocs` | `MCHopperParts` | `CountsMatchAnswers` | a read that ends unreachable after one address said "nothing" is counted in both (`corpus.rs:409`, against 142) |
| | | `FailedCleanupIsRetried` | a removal that failed may have removed the marker first, and no sweep takes a tree without one (`temp_space.rs:100`) |
| | | `AmendmentSticks` | a post given up on may land after the amended one and replace it (`worker.rs:4779`) |
| | | `OldestIsQueued` | a tail that panics leaves its queue time behind, and the oldest age grows for ever (`worker.rs:2197`) |
| `MCWorkerLive`, with this property in place of its own | `MCWorkerLive` | `NothingNewIsServed` | after a failed validation or load the next renewal finds nothing new on disk and says all is in order (`worker.rs:1358`) |
| `MCJobBucket` | `ServiceTimes` | `OnlyForgets` | finding 4: three threads that cross the line together wrap the count (`mod.rs:610`, against 607) |
| `MCWorkerDocs` | `MCWorkerPipeline` | `ProgressingMeansProgress` | a wedge beside idle slots reads as progress (`worker.rs:146`) |
| | | `FinishedWasAsked` | a dead prefetcher exits as `Finished` (`worker.rs:121`) |
| `MCStagingLone` | `MCStagingBudget` | `LonePayloadFits` | a lone payload that grows past the budget is refused (`worker.rs:1879`) |

Met while modelling, and shown by no configuration:

* a refresh answers from whatever its local index holds, a verdict under manual
  thresholds included, which reads as `unanalyzed` (`OnlyAnswersStandIn` says so);
* a lookup without a corpus names the filter as its source also for `unanalyzed`;
* a job's age in the reorder window counts from the sweep, not from its staging;
* a slot takes its model when it dispatches, but the trait mapper belongs to the
  process: an analysis that is running across a swap has the old model and the
  new traits (`RenewalIsWhole` is about what is served to new ones).

## 6. What is left out of the modelled parts

* the verdict index is a set of artifacts; writes succeed, except in `flights`;
* archive detection and the estimate's unit; bytes are small numbers;
* the backoff between failed polls, and the HTTP of claim and download;
* the age sweep of the spool;
* FreeBSD's signals in `suspend.rs`, and errors of freeze and thaw;
* the JSON of answers and the reading of headers; progress frames are all alike;
* findings, versions and all else a report copies;
* the uploader of samples: a repair ends, well or not;
* liveness without `--analysis-timeout` when threads may not return: then nothing
  is promised.

Not modelled at all: `bench-hopper.rs` and the other scripts, the vendored grammar
and examples (not part of the running system); `diag.rs`, `metrics.rs` and the
watchdog's log, which only read; the worker's tuning (`WorkerStartup` apart from
the resources it resolves), arithmetic before any concurrency; the command line and
one-shot commands; the worker's in-flight list for diagnostics.

## 7. Plan

Done, in this order: admission with its abstract gate and proofs; flights; idle
worker; pipeline; staging; shutdown; job source; posts; corpus; lookup, analyze,
streams, edge, readiness; telemetry and service times; local index; renewal;
scratch trees; judging.

Next proofs: a safety half of `EveryTailEnds`, and the refinement of the memory gate as
`WorkerPipeline` takes it.

Next models: `ServerShutdown` composed with the leader's path of `AnalysisFlights`,
to see that a run that ends in the window still files its verdict; a second
sample in `ResultPosts`.

## 8. Running

    tlc -workers 2 -config MCFlights.cfg MCAnalysisFlights.tla
    tlc -workers 2 -config MCServerParts.cfg MCServerParts.tla
    tlapm MemoryAdmissionProofs.tla

Every passing configuration finishes within about four minutes on two cores.
