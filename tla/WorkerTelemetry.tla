-------------------------- MODULE WorkerTelemetry --------------------------
(***************************************************************************)
(* What a worker tells hopper of itself: the queue's oldest item, the last *)
(* completion, the completion rate and the recent errors; and what one     *)
(* analysis is told of its own time: the running time its deadline counts  *)
(* and the phase that has gone slow.  WorkerMetrics, RateWindow,           *)
(* ErrorWindow, SlowPhase and the loop of run_job in src/src/worker.rs.    *)
(*                                                                         *)
(* Tails complete on any thread, and each lock is taken alone: between two *)
(* of them, or between a look at the clock and the lock, another tail may  *)
(* go through.  The unit of wtNow is a minute, that of an analysis JOB_TICK. *)
(***************************************************************************)
EXTENDS Integers, Sequences, FiniteSets, FiniteSetsExt, SequencesExt

CONSTANTS
    Items,        \* queue ids
    Minutes,      \* buckets of the rate, METRICS_WINDOW in minutes
    MaxWtNow,     \* bound: minutes modelled
    TailsPanic,   \* a tail may panic after its job was staged
    Phases,       \* phases of an analysis, 1 to Phases, each entered once
    Slow,         \* SLOW_PHASE, in ticks
    Deadline,     \* SCAN_ANALYSIS_TIMEOUT, in ticks
    MaxGap,       \* bound: ticks between two looks at an analysis
    MaxRun        \* bound: ticks of an analysis modelled

ASSUME TelemetryAssumption ==
    Minutes \in Nat \ {0} /\ {MaxWtNow, Slow, Deadline, MaxGap, MaxRun} \subseteq Nat

Never == -1

VARIABLES
    wtNow,
    wtItem,      \* an item: its step, and the clock it has read on the way
    wtEnqueued,  \* `enqueued`: when each queued item was staged, else Never
    wtLast,      \* last_completion
    wtRate,      \* RateWindow: [minute, count] by slot
    wtErrors,    \* ErrorWindow: `times`, from the oldest
    wtStory      \* history: [done, failed], the minutes of completions and errors

metricVars == <<wtNow, wtItem, wtEnqueued, wtLast, wtRate, wtErrors, wtStory>>

MetricsInit ==
    /\ wtNow = 0
    /\ wtItem = [i \in Items |-> [pc |-> "out", at |-> Never]]
    /\ wtEnqueued = [i \in Items |-> Never]
    /\ wtLast = Never
    /\ wtRate = [k \in 0..Minutes - 1 |-> [minute |-> Never, count |-> 0]]
    /\ wtErrors = <<>>
    /\ wtStory = [i \in Items |-> [done |-> Never, failed |-> Never]]

ItemAt(i, pc) == wtItem[i].pc = pc
ItemGoes(i, pc, at) == wtItem' = [wtItem EXCEPT ![i] = [pc |-> pc, at |-> at]]

----------------------------------------------------------------------------
(* The queue and the last completion                                       *)

Enqueue(i) ==
    /\ ItemAt(i, "out") /\ ItemGoes(i, "queued", Never)
    /\ wtEnqueued' = [wtEnqueued EXCEPT ![i] = wtNow]
    /\ UNCHANGED <<wtNow, wtLast, wtRate, wtErrors, wtStory>>

\* complete: its first lock.  The analysis may have failed, and said so, before.
Dequeue(i) ==
    /\ \E pc \in {"queued", "erred"} : ItemAt(i, pc)
    /\ ItemGoes(i, "dequeued", Never)
    /\ wtEnqueued' = [wtEnqueued EXCEPT ![i] = Never]
    /\ UNCHANGED <<wtNow, wtLast, wtRate, wtErrors, wtStory>>

\* The right side of an assignment is evaluated before its place: the clock is read
\* before last_completion is locked.
ReadClock(i) ==
    /\ ItemAt(i, "dequeued") /\ ItemGoes(i, "timed", wtNow)
    /\ UNCHANGED <<wtNow, wtEnqueued, wtLast, wtRate, wtErrors, wtStory>>

StoreLast(i) ==
    /\ ItemAt(i, "timed") /\ ItemGoes(i, "stored", Never)
    /\ wtLast' = wtItem[i].at
    /\ UNCHANGED <<wtNow, wtEnqueued, wtRate, wtErrors, wtStory>>

----------------------------------------------------------------------------
(* The rate                                                                *)

SlotOf(minute) == minute % Minutes

\* The minute, read before the lock.
ReadMinute(i) ==
    /\ ItemAt(i, "stored") /\ ItemGoes(i, "counting", wtNow)
    /\ UNCHANGED <<wtNow, wtEnqueued, wtLast, wtRate, wtErrors, wtStory>>

\* RateWindow::record: a slot of another minute starts again.
CountIn(slot, minute) ==
    [minute |-> minute, count |-> IF slot.minute = minute THEN slot.count + 1 ELSE 1]

Record(i) ==
    /\ ItemAt(i, "counting") /\ ItemGoes(i, "ended", Never)
    /\ LET m == wtItem[i].at IN
       /\ wtRate' = [wtRate EXCEPT ![SlotOf(m)] = CountIn(@, m)]
       /\ wtStory' = [wtStory EXCEPT ![i].done = m]
    /\ UNCHANGED <<wtNow, wtEnqueued, wtLast, wtErrors>>

Within(minute) == minute # Never /\ wtNow - minute < Minutes

Live == {k \in DOMAIN wtRate : Within(wtRate[k].minute)}

\* RateWindow::per_sec, before its division: the sum of the counts, as the number of
\* what they count, one for each.
Completions == Cardinality(UNION {{k} \X (1..wtRate[k].count) : k \in Live})

----------------------------------------------------------------------------
(* Errors                                                                  *)

\* The analysis failed, and its tail comes to record it.
Fail(i) ==
    /\ ItemAt(i, "queued") /\ ItemGoes(i, "erring", wtNow)
    /\ UNCHANGED <<wtNow, wtEnqueued, wtLast, wtRate, wtErrors, wtStory>>

\* ErrorWindow::prune: from the front, while it is older than the window.
Pruned(times) ==
    LET old == {k \in 1..Len(times) : \A j \in 1..k : wtNow - times[j] > Minutes}
    IN  SubSeq(times, Cardinality(old) + 1, Len(times))

\* record_error's clock is an argument, read with the lock already held.
ErrorTime(i) == wtNow

RecordError(i) ==
    /\ ItemAt(i, "erring") /\ ItemGoes(i, "erred", Never)
    /\ wtErrors' = Append(Pruned(wtErrors), ErrorTime(i))
    /\ wtStory' = [wtStory EXCEPT ![i].failed = ErrorTime(i)]
    /\ UNCHANGED <<wtNow, wtEnqueued, wtLast, wtRate>>

\* snapshot prunes too.
Snapshot ==
    /\ wtErrors' = Pruned(wtErrors)
    /\ UNCHANGED <<wtNow, wtItem, wtEnqueued, wtLast, wtRate, wtStory>>

\* report_tail: a tail that panicked completes nothing.
TailPanics(i) ==
    /\ TailsPanic /\ \E pc \in {"queued", "erred"} : ItemAt(i, pc)
    /\ ItemGoes(i, "lost", Never)
    /\ UNCHANGED <<wtNow, wtEnqueued, wtLast, wtRate, wtErrors, wtStory>>

\* A minute.  No tail is held up for a whole window between two locks.
Minute ==
    /\ wtNow < MaxWtNow /\ wtNow' = wtNow + 1
    /\ \A i \in Items : wtItem[i].at # Never => wtNow - wtItem[i].at < Minutes - 1
    /\ UNCHANGED <<wtItem, wtEnqueued, wtLast, wtRate, wtErrors, wtStory>>

MetricsNext ==
    \/ \E i \in Items :
          Enqueue(i) \/ Dequeue(i) \/ ReadClock(i) \/ StoreLast(i) \/ ReadMinute(i)
          \/ Record(i) \/ Fail(i) \/ RecordError(i) \/ TailPanics(i)
    \/ Snapshot \/ Minute

----------------------------------------------------------------------------
(* The time of one analysis                                                *)

VARIABLES
    atLoop,   \* run_job's loop: ticks since its last look, `ran`, timed_out
    atSlow,   \* SlowPhase: phase, since, logged
    atTrue    \* history: the phase, how long it has run, how long the analysis
              \* has, and how often the process was stopped

analysisTimeVars == <<atLoop, atSlow, atTrue>>
telemetryVars == <<metricVars, analysisTimeVars>>

AnalysisTimeInit ==
    /\ atLoop = [gap |-> 0, ran |-> 0, timedOut |-> FALSE]
    /\ atSlow = [phase |-> 0, since |-> 0, logged |-> 0]
    /\ atTrue = [phase |-> 1, inPhase |-> 0, run |-> 0, stops |-> 0]

\* The analysis runs for a tick.
Runs ==
    /\ atTrue.run < MaxRun /\ atLoop.gap < MaxGap
    /\ atTrue' = [atTrue EXCEPT !.run = @ + 1, !.inPhase = @ + 1]
    /\ atLoop' = [atLoop EXCEPT !.gap = @ + 1]
    /\ UNCHANGED atSlow

\* The process is stopped, and goes on long after.
IsStopped ==
    /\ atTrue.stops < 1 /\ atTrue' = [atTrue EXCEPT !.stops = @ + 1]
    /\ atLoop' = [atLoop EXCEPT !.gap = @ + MaxGap]
    /\ UNCHANGED atSlow

NextPhase ==
    /\ atTrue.phase < Phases
    /\ atTrue' = [atTrue EXCEPT !.phase = @ + 1, !.inPhase = 0]
    /\ UNCHANGED <<atLoop, atSlow>>

\* Mutation: all the time that passed is running time.
AllOf(gap) == gap

\* A gap counts for two ticks at most: the rest is a stop, or a runtime held up.
CountedRun(gap) == IF gap < 2 THEN gap ELSE 2

\* SlowPhase::observe.
Observe(slow, phase, ran) ==
    IF phase # slow.phase THEN [phase |-> phase, since |-> ran, logged |-> 0]
    ELSE IF ran - slow.since >= 3 * Slow THEN [slow EXCEPT !.logged = 2]
    ELSE IF ran - slow.since >= Slow /\ slow.logged < 1 THEN [slow EXCEPT !.logged = 1]
    ELSE slow

\* run_job looks at its analysis.
LookAt ==
    /\ atLoop.gap > 0
    /\ LET ran == atLoop.ran + CountedRun(atLoop.gap) IN
       /\ atSlow' = Observe(atSlow, atTrue.phase, ran)
       /\ atLoop' = [gap |-> 0, ran |-> ran,
                     timedOut |-> atLoop.timedOut \/ ran >= Deadline]
    /\ UNCHANGED atTrue

AnalysisTimeNext == Runs \/ IsStopped \/ NextPhase \/ LookAt

TelemetryInit == MetricsInit /\ AnalysisTimeInit

TelemetryNext ==
    \/ MetricsNext /\ UNCHANGED analysisTimeVars
    \/ AnalysisTimeNext /\ UNCHANGED metricVars

TelemetrySpec == TelemetryInit /\ [][TelemetryNext]_telemetryVars

----------------------------------------------------------------------------
(* Properties                                                              *)

\* The rate counts the completions of the trailing window: each once, none that has
\* left it, whatever the order in which tails came to the lock.
RateCountsTheWindow ==
    Completions = Cardinality({i \in Items : Within(wtStory[i].done)})

\* What is left after a prune are the errors of the trailing window: no old one is
\* hidden behind a newer one.
ErrorsCountTheWindow ==
    Len(Pruned(wtErrors)) = Cardinality({i \in Items :
        wtStory[i].failed # Never /\ wtNow - wtStory[i].failed <= Minutes})

\* A comment of MetricsSnapshot: the oldest age is that of an item still in the
\* queue, staged or running.
OldestIsQueued ==
    \A i \in Items : wtEnqueued[i] # Never =>
        \E pc \in {"queued", "erring", "erred"} : ItemAt(i, pc)

\* The deadline counts the time an analysis ran.  A stop of the process, however
\* long, brings it nearer by two ticks at most.
DeadlineCountsRunning ==
    atLoop.timedOut => atTrue.run + 2 * atTrue.stops >= Deadline

\* A phase is said to be slow when it has lasted: not for the time of the phases
\* before it, nor for that of a stop.
SlowHasLasted ==
    atSlow.logged > 0 /\ atSlow.phase = atTrue.phase =>
        atTrue.inPhase + 2 * atTrue.stops >= Slow * (2 * atSlow.logged - 1)

\* What the worker reports and decides by the clock counts the time, the completions
\* and the errors that belong to it, across stops of the process.
TimeIsCountedOnce ==
    /\ RateCountsTheWindow /\ ErrorsCountTheWindow
    /\ DeadlineCountsRunning /\ SlowHasLasted
=============================================================================
