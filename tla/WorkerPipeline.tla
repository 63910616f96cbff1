--------------------------- MODULE WorkerPipeline ---------------------------
(***************************************************************************)
(* The hopper worker of src/src/worker.rs: run(), drain(), the prefetcher  *)
(* (prefetch_loop, stage_claimed), the slots (slot_loop, next_dispatch),   *)
(* the tails they start (finish_job, run_job, second_opinion), the blocking *)
(* threads under them, the stall watchdog (summary_loop, check_stall) and   *)
(* the Stop they share.                                                     *)
(*                                                                          *)
(* A job goes from hopper to the prefetcher's queue, to a slot that already *)
(* holds a tail permit, to a tail of that slot.  The tail waits for the     *)
(* cleave gate and for memory, hands its gate permit to a blocking thread   *)
(* that cannot be stopped, posts the result, and may ask for a second       *)
(* opinion.  A stop ends claiming; the drain waits for the slots, within a  *)
(* limit unless this is a batch run, then aborts them.                      *)
(*                                                                          *)
(* The memory gate is MemoryAdmission's: here a job waits or is admitted,   *)
(* and is admitted when no other analysis runs.  Which staged job a slot    *)
(* takes is any of them.                                                    *)
(***************************************************************************)
EXTENDS Naturals, FiniteSets

CONSTANTS
    Jobs,           \* jobs hopper has for this worker
    Slots,          \* --workers
    SmallJobs,      \* jobs at or below SCAN_SMALL_JOB_MB
    LanePermits,    \* LanePermits[l]: permits of the cleave gate's lane l
    TailCap,        \* tail_cap
    TargetDepth,    \* target_depth
    LlmBacklog,     \* permits of llm_queue
    MaxJobs,        \* max_jobs; 0 = None
    Batch,          \* exit_if_empty
    TimeoutOn,      \* SCAN_ANALYSIS_TIMEOUT is not 0
    AbortOn,        \* stall_abort_after is not None
    SignalsOn,      \* SIGTERM or SIGINT may arrive
    PanicsOn,       \* downloads and the prefetcher may panic
    Overanswers,    \* hopper may hand out more than it was asked for
    None            \* no slot

Lanes == {"whale", "small"}

ASSUME JobsAssumption    == SmallJobs \subseteq Jobs /\ IsFiniteSet(Jobs) /\ IsFiniteSet(Slots)
ASSUME PermitsAssumption == /\ LanePermits \in [Lanes -> Nat \ {0}]
                            /\ TargetDepth \in Nat \ {0} /\ LlmBacklog \in Nat \ {0}
                            /\ MaxJobs \in Nat
\* tail_cap_from
ASSUME TailsAssumption   == TailCap \in Nat /\ TailCap >= Cardinality(Slots)
ASSUME FlagsAssumption   == {Batch, TimeoutOn, AbortOn, SignalsOn, PanicsOn, Overanswers}
                              \subseteq BOOLEAN
ASSUME NoneAssumption    == None \notin Slots

VARIABLES
    place,       \* place[j]: where job j is
    owner,       \* owner[j]: the slot whose tail has job j
    thread,      \* thread[j]: the blocking thread of job j
    cancel,      \* cancel[j]: the analysis was told to stop
    expired,     \* expired[j]: run_job's timed_out
    result,      \* result[j]: what the tail has to post
    prefetch,    \* where the prefetcher is
    want,        \* jobs it is asking for
    outstanding, \* the depth counter
    roomPermit,  \* the permit stored in `room`
    slot,        \* slot[s]: where slot s is
    tailsFree,   \* permits of `tails`
    laneFree,    \* laneFree[l]: permits of the cleave gate
    llmFree,     \* permits of llm_queue
    completed,   \* results posted
    stop,        \* "none", "Finished" or "Stalled"
    main,        \* where run() is
    exit,        \* what it returned
    watchdog,    \* the summary loop: "sleep", "tick" or "off"
    moved        \* something progressed since the last tick

jobVars  == <<place, owner, thread, cancel, expired, result>>
prefVars == <<prefetch, want, outstanding, roomPermit>>
permVars == <<tailsFree, laneFree, llmFree>>
endVars  == <<completed, stop, main, exit>>
dogVars  == <<watchdog, moved>>
vars == <<place, owner, thread, cancel, expired, result, prefetch, want, outstanding,
          roomPermit, slot, tailsFree, laneFree, llmFree, completed, stop, main, exit,
          watchdog, moved>>

\* Where a job is while a tail has it.
TailPlaces == {"payload", "gate", "admit", "run", "post", "second", "opinion"}

InTail(j) == place[j] \in TailPlaces

TailsOf(s) == {j \in Jobs : InTail(j) /\ owner[j] = s}

LaneOf(j) == IF j \in SmallJobs THEN "small" ELSE "whale"

AtMost(a, b) == IF a <= b THEN a ELSE b

Init ==
    /\ place = [j \in Jobs |-> "hopper"]
    /\ owner = [j \in Jobs |-> None]
    /\ thread = [j \in Jobs |-> "none"]
    /\ cancel = [j \in Jobs |-> FALSE]
    /\ expired = [j \in Jobs |-> FALSE]
    /\ result = [j \in Jobs |-> "none"]
    /\ prefetch = "check"
    /\ want = 0
    /\ outstanding = 0
    /\ roomPermit = FALSE
    /\ slot = [s \in Slots |-> "top"]
    /\ tailsFree = TailCap
    /\ laneFree = LanePermits
    /\ llmFree = LlmBacklog
    /\ completed = 0
    /\ stop = "none"
    /\ main = "run"
    /\ exit = "none"
    /\ watchdog = "sleep"
    /\ moved = FALSE

----------------------------------------------------------------------------
(* Stop                                                                     *)

\* Mutation: the last one to raise the stop decides.
RaisedLast(current, e) == e

\* Stop::raise: a stall overrides a plain stop, nothing overrides a stall.
Raised(current, e) == IF current = "Stalled" THEN "Stalled" ELSE e

\* stop_on_signal
Signal ==
    /\ SignalsOn
    /\ main \in {"run", "drain"}
    /\ stop' = Raised(stop, "Finished")
    /\ UNCHANGED <<jobVars, prefVars, slot, permVars, completed, main, exit, dogVars>>

\* The prefetcher's future ends: its JoinSet aborts what it was staging.
AbortStaging ==
    place' = [j \in Jobs |-> IF place[j] = "claimed" THEN "lost" ELSE place[j]]

----------------------------------------------------------------------------
(* prefetch_loop                                                            *)

PrefetchStops ==
    /\ prefetch \in {"check", "asleep"}
    /\ stop # "none"
    /\ prefetch' = "done"
    /\ AbortStaging
    /\ UNCHANGED <<owner, thread, cancel, expired, result, want, outstanding,
                   roomPermit, slot, permVars, endVars, dogVars>>

\* Room for another claim, or a full buffer to wait on.
PrefetchCheck ==
    /\ prefetch = "check"
    /\ stop = "none"
    /\ IF outstanding < TargetDepth
         THEN /\ prefetch' = "poll"
              /\ want' = AtMost(TargetDepth - outstanding, Cardinality(Slots))
         ELSE prefetch' = "full" /\ UNCHANGED want
    /\ UNCHANGED <<jobVars, outstanding, roomPermit, slot, permVars, endVars, dogVars>>

\* room.notified() is polled for the first time.
PrefetchSleeps ==
    /\ prefetch = "full"
    /\ prefetch' = "asleep"
    /\ UNCHANGED <<jobVars, want, outstanding, roomPermit, slot, permVars, endVars, dogVars>>

RoomWakes ==
    /\ prefetch = "asleep"
    /\ roomPermit
    /\ roomPermit' = FALSE
    /\ prefetch' = "check"
    /\ UNCHANGED <<jobVars, want, outstanding, slot, permVars, endVars, dogVars>>

\* hopper answered with the jobs R; S is what is left after the truncation.
Claim ==
    /\ prefetch = "poll"
    /\ \E R \in SUBSET {j \in Jobs : place[j] = "hopper"} : \E S \in SUBSET R :
          /\ R # {}
          /\ Cardinality(R) <= want \/ Overanswers
          /\ Cardinality(S) = AtMost(Cardinality(R), want)
          /\ place' = [j \in Jobs |-> IF j \in S THEN "claimed"
                                      ELSE IF j \in R THEN "lost" ELSE place[j]]
          /\ outstanding' = outstanding + Cardinality(S)
    /\ prefetch' = "check"
    /\ want' = 0
    /\ UNCHANGED <<owner, thread, cancel, expired, result, roomPermit, slot, permVars,
                   endVars, dogVars>>

\* hopper has nothing: a batch run ends its claiming once nothing is staged.
ClaimNone ==
    /\ prefetch = "poll"
    /\ \A j \in Jobs : place[j] # "hopper"
    /\ want' = 0
    /\ IF Batch /\ outstanding = 0
         THEN prefetch' = "done" /\ AbortStaging
         ELSE prefetch' = "check" /\ UNCHANGED place
    /\ UNCHANGED <<owner, thread, cancel, expired, result, outstanding, roomPermit,
                   slot, permVars, endVars, dogVars>>

\* The poll failed: back off, or stop while backing off.
ClaimFails ==
    /\ prefetch = "poll"
    /\ prefetch' = "check"
    /\ want' = 0
    /\ UNCHANGED <<jobVars, outstanding, roomPermit, slot, permVars, endVars, dogVars>>

\* A panic in the loop, or resumed from one of its staging tasks.
PrefetcherDies ==
    /\ PanicsOn
    /\ prefetch \in {"check", "poll"}
    /\ prefetch' = "died"
    /\ AbortStaging
    /\ UNCHANGED <<owner, thread, cancel, expired, result, want, outstanding,
                   roomPermit, slot, permVars, endVars, dogVars>>

\* A payload landed and was sent; the last of its batch also notifies `room`.
Download(j) ==
    /\ place[j] = "claimed"
    /\ place' = [place EXCEPT ![j] = "staged"]
    /\ roomPermit' \in {roomPermit, TRUE}
    /\ UNCHANGED <<owner, thread, cancel, expired, result, prefetch, want, outstanding,
                   slot, permVars, endVars, dogVars>>

DownloadPanics(j) ==
    /\ PanicsOn
    /\ place[j] = "claimed"
    /\ place' = [place EXCEPT ![j] = "lost"]
    /\ outstanding' = outstanding - 1
    /\ roomPermit' = TRUE
    /\ UNCHANGED <<owner, thread, cancel, expired, result, prefetch, want, slot,
                   permVars, endVars, dogVars>>

Prefetcher ==
    \/ PrefetchStops \/ PrefetchCheck \/ PrefetchSleeps \/ RoomWakes
    \/ Claim \/ ClaimNone \/ ClaimFails \/ PrefetcherDies

----------------------------------------------------------------------------
(* slot_loop                                                                *)

\* Top of the loop: --max-jobs may have been reached.
SlotTop(s) ==
    /\ slot[s] = "top"
    /\ IF MaxJobs # 0 /\ completed >= MaxJobs
         THEN stop' = Raised(stop, "Finished") /\ slot' = [slot EXCEPT ![s] = "drain"]
         ELSE slot' = [slot EXCEPT ![s] = "permit"] /\ UNCHANGED stop
    /\ UNCHANGED <<jobVars, prefVars, permVars, completed, main, exit, dogVars>>

\* next_dispatch: the tail permit first, unless stopped.
SlotPermit(s) ==
    /\ slot[s] = "permit"
    /\ IF stop # "none"
         THEN slot' = [slot EXCEPT ![s] = "drain"] /\ UNCHANGED tailsFree
         ELSE /\ tailsFree > 0
              /\ tailsFree' = tailsFree - 1
              /\ slot' = [slot EXCEPT ![s] = "recv"]
    /\ UNCHANGED <<jobVars, prefVars, laneFree, llmFree, endVars, dogVars>>

\* Mutation: notify_waiters wakes only a prefetcher that already waits.
UnstageWaiters ==
    /\ outstanding' = outstanding - 1
    /\ roomPermit' = (roomPermit \/ prefetch = "asleep")

\* unstage: notify_one keeps a permit for a prefetcher yet to wait.
Unstage ==
    /\ outstanding' = outstanding - 1
    /\ roomPermit' = TRUE

\* next_dispatch: then a staged job; it starts a tail.
SlotDispatch(s, j) ==
    /\ slot[s] = "recv"
    /\ stop = "none"
    /\ place[j] = "staged"
    /\ place' = [place EXCEPT ![j] = "payload"]
    /\ owner' = [owner EXCEPT ![j] = s]
    /\ Unstage
    /\ slot' = [slot EXCEPT ![s] = "top"]
    /\ UNCHANGED <<thread, cancel, expired, result, prefetch, want, permVars, endVars, dogVars>>

\* Stopped, or the prefetcher is gone and nothing is staged.
SlotLeaves(s) ==
    /\ slot[s] = "recv"
    /\ \/ stop # "none"
       \/ prefetch \in {"done", "died"} /\ \A j \in Jobs : place[j] # "staged"
    /\ tailsFree' = tailsFree + 1
    /\ slot' = [slot EXCEPT ![s] = "drain"]
    /\ UNCHANGED <<jobVars, prefVars, laneFree, llmFree, endVars, dogVars>>

\* The slot has joined all its tails.
SlotDone(s) ==
    /\ slot[s] = "drain"
    /\ TailsOf(s) = {}
    /\ slot' = [slot EXCEPT ![s] = "done"]
    /\ UNCHANGED <<jobVars, prefVars, permVars, endVars, dogVars>>

Slot(s) ==
    \/ SlotTop(s) \/ SlotPermit(s) \/ SlotLeaves(s) \/ SlotDone(s)
    \/ \E j \in Jobs : SlotDispatch(s, j)

----------------------------------------------------------------------------
(* finish_job and run_job, with the blocking thread                         *)

Goto(j, from, to) ==
    /\ place[j] = from
    /\ place' = [place EXCEPT ![j] = to]

\* Refused, or the direct download failed too: only an error is posted.
JobRefused(j) ==
    /\ Goto(j, "payload", "post")
    /\ result' = [result EXCEPT ![j] = "failed"]
    /\ UNCHANGED <<owner, thread, cancel, expired, prefVars, slot, permVars, endVars, dogVars>>

\* The payload is here; the job enters the census and queues for its lane.
JobQueues(j) ==
    /\ Goto(j, "payload", "gate")
    /\ moved' = TRUE
    /\ UNCHANGED <<owner, thread, cancel, expired, result, prefVars, slot, permVars,
                   endVars, watchdog>>

JobPassesGate(j) ==
    /\ Goto(j, "gate", "admit")
    /\ laneFree[LaneOf(j)] > 0
    /\ laneFree' = [laneFree EXCEPT ![LaneOf(j)] = @ - 1]
    /\ UNCHANGED <<owner, thread, cancel, expired, result, prefVars, slot, tailsFree,
                   llmFree, endVars, dogVars>>

\* Memory is granted; the permit moves to the blocking thread.
JobStarts(j) ==
    /\ Goto(j, "admit", "run")
    /\ thread' = [thread EXCEPT ![j] = "cpu"]
    /\ moved' = TRUE
    /\ UNCHANGED <<owner, cancel, expired, result, prefVars, slot, permVars, endVars,
                   watchdog>>

\* The forward-progress hatch of the memory gate.
NoOtherRuns(j) == \A k \in Jobs \ {j} : thread[k] # "cpu"

\* CpuLease: both reservations go back before a network wait.
LeaseReturned(j) ==
    /\ thread[j] = "cpu"
    /\ thread' = [thread EXCEPT ![j] = "net"]
    /\ laneFree' = [laneFree EXCEPT ![LaneOf(j)] = @ + 1]
    /\ moved' = TRUE
    /\ UNCHANGED <<place, owner, cancel, expired, result, prefVars, slot, tailsFree,
                   llmFree, endVars, watchdog>>

ThreadReturns(j) ==
    /\ thread[j] \in {"cpu", "net"}
    /\ laneFree' = IF thread[j] = "cpu" THEN [laneFree EXCEPT ![LaneOf(j)] = @ + 1]
                                        ELSE laneFree
    /\ thread' = [thread EXCEPT ![j] = "returned"]
    /\ moved' = TRUE
    /\ UNCHANGED <<place, owner, cancel, expired, result, prefVars, slot, tailsFree,
                   llmFree, endVars, watchdog>>

\* A tick past SCAN_ANALYSIS_TIMEOUT: cancel, and keep waiting for the thread.
JobExpires(j) ==
    /\ TimeoutOn
    /\ place[j] = "run"
    /\ thread[j] # "returned"
    /\ ~expired[j]
    /\ expired' = [expired EXCEPT ![j] = TRUE]
    /\ cancel' = [cancel EXCEPT ![j] = TRUE]
    /\ UNCHANGED <<place, owner, thread, result, prefVars, slot, permVars, endVars, dogVars>>

\* Mutation: a report that comes in after the deadline is posted.
JobJoinsResultWins(j) ==
    /\ thread[j] = "returned"
    /\ Goto(j, "run", "post")
    /\ thread' = [thread EXCEPT ![j] = "none"]
    /\ cancel' = [cancel EXCEPT ![j] = TRUE]
    /\ \E r \in {"failed", "verdict", "pending"} : result' = [result EXCEPT ![j] = r]
    /\ UNCHANGED <<owner, expired, prefVars, slot, permVars, endVars, dogVars>>

\* run_job returns: a timeout wins over whatever the thread brought back.
\* "pending" is a verdict that asks for a second opinion.
JobJoins(j) ==
    /\ thread[j] = "returned"
    /\ Goto(j, "run", "post")
    /\ thread' = [thread EXCEPT ![j] = "none"]
    /\ cancel' = [cancel EXCEPT ![j] = TRUE]
    /\ \E r \in {"failed", "verdict", "pending"} :
          /\ expired[j] => r = "failed"
          /\ result' = [result EXCEPT ![j] = r]
    /\ UNCHANGED <<owner, expired, prefVars, slot, permVars, endVars, dogVars>>

\* post_result returned, stored or given up on; then --max-jobs.
JobPosted(j) ==
    /\ Goto(j, "post", IF result[j] = "pending" THEN "second" ELSE "done")
    /\ completed' = completed + 1
    /\ stop' = IF MaxJobs # 0 /\ completed' >= MaxJobs THEN Raised(stop, "Finished") ELSE stop
    /\ tailsFree' = IF result[j] = "pending" THEN tailsFree ELSE tailsFree + 1
    /\ UNCHANGED <<owner, thread, cancel, expired, result, prefVars, slot, laneFree,
                   llmFree, main, exit, dogVars>>

\* An optional second opinion finds the backlog full.
OpinionSkipped(j) ==
    /\ llmFree = 0
    /\ Goto(j, "second", "done")
    /\ tailsFree' = tailsFree + 1
    /\ UNCHANGED <<owner, thread, cancel, expired, result, prefVars, slot, laneFree,
                   llmFree, endVars, dogVars>>

\* The backlog permit goes with the blocking call.
OpinionStarts(j) ==
    /\ llmFree > 0
    /\ Goto(j, "second", "opinion")
    /\ llmFree' = llmFree - 1
    /\ thread' = [thread EXCEPT ![j] = "llm"]
    /\ UNCHANGED <<owner, cancel, expired, result, prefVars, slot, tailsFree, laneFree,
                   endVars, dogVars>>

OpinionReturns(j) ==
    /\ thread[j] = "llm"
    /\ thread' = [thread EXCEPT ![j] = "none"]
    /\ llmFree' = llmFree + 1
    /\ UNCHANGED <<place, owner, cancel, expired, result, prefVars, slot, tailsFree,
                   laneFree, endVars, dogVars>>

\* Amended and posted again, or unchanged.
OpinionPosted(j) ==
    /\ thread[j] = "none"
    /\ Goto(j, "opinion", "done")
    /\ tailsFree' = tailsFree + 1
    /\ UNCHANGED <<owner, thread, cancel, expired, result, prefVars, slot, laneFree,
                   llmFree, endVars, dogVars>>

\* Mutation: the gate permit stays with the tail, so an abort frees it.
TailAbortedFreesGate(j) ==
    /\ InTail(j)
    /\ slot[owner[j]] = "cut"
    /\ place' = [place EXCEPT ![j] = "aborted"]
    /\ cancel' = [cancel EXCEPT ![j] = @ \/ place[j] = "run"]
    /\ tailsFree' = tailsFree + 1
    /\ laneFree' = IF place[j] \in {"admit", "run"}
                     THEN [laneFree EXCEPT ![LaneOf(j)] = @ + 1] ELSE laneFree
    /\ UNCHANGED <<owner, thread, expired, result, prefVars, slot, llmFree, endVars, dogVars>>

\* The tail's future is dropped: CancelOnDrop, its permit, and the gate permit
\* unless the blocking thread has it.
TailAborted(j) ==
    /\ InTail(j)
    /\ slot[owner[j]] = "cut"
    /\ place' = [place EXCEPT ![j] = "aborted"]
    /\ cancel' = [cancel EXCEPT ![j] = @ \/ place[j] = "run"]
    /\ tailsFree' = tailsFree + 1
    /\ laneFree' = IF place[j] = "admit" THEN [laneFree EXCEPT ![LaneOf(j)] = @ + 1]
                                         ELSE laneFree
    /\ UNCHANGED <<owner, thread, expired, result, prefVars, slot, llmFree, endVars, dogVars>>

JobTail(j) ==
    \/ JobRefused(j) \/ JobQueues(j) \/ JobPassesGate(j) \/ JobStarts(j)
    \/ JobExpires(j) \/ JobJoins(j) \/ JobPosted(j)
    \/ OpinionSkipped(j) \/ OpinionStarts(j) \/ OpinionPosted(j) \/ TailAborted(j)

\* The analysis enters another stage, or finishes a dependency.
StageMoves(j) ==
    /\ thread[j] \in {"cpu", "net"}
    /\ ~moved
    /\ moved' = TRUE
    /\ UNCHANGED <<jobVars, prefVars, slot, permVars, endVars, watchdog>>

Thread(j) == StageMoves(j) \/ LeaseReturned(j) \/ ThreadReturns(j) \/ OpinionReturns(j)

----------------------------------------------------------------------------
(* The watchdog                                                             *)

\* Mutation: the gauge is raised once the slot has its tail permit.
ActiveSlotsAfterPermit == Cardinality({s \in Slots : slot[s] = "recv"})

\* The `dispatching` gauge: slots waiting for a tail permit.
ActiveSlots == Cardinality({s \in Slots : slot[s] = "permit"})

TickStarts ==
    /\ watchdog = "sleep"
    /\ watchdog' = IF stop = "none" THEN "tick" ELSE "off"
    /\ UNCHANGED <<jobVars, prefVars, slot, permVars, endVars, moved>>

\* check_stall: something moved or no slot is active, or it warns.  These are
\* the ticks stall_warn_after apart: no other tick changes anything here.
StallVerdict == IF moved \/ ActiveSlots = 0 THEN "Progressing" ELSE "Stalled"

TickEnds ==
    /\ watchdog = "tick"
    /\ watchdog' = "sleep"
    /\ moved' = FALSE
    /\ UNCHANGED <<jobVars, prefVars, slot, permVars, endVars>>

\* No progress for stall_abort_after.
TickAborts ==
    /\ AbortOn
    /\ watchdog = "tick"
    /\ StallVerdict = "Stalled"
    /\ watchdog' = "off"
    /\ stop' = Raised(stop, "Stalled")
    /\ UNCHANGED <<jobVars, prefVars, slot, permVars, completed, main, exit, moved>>

----------------------------------------------------------------------------
(* run and drain                                                            *)

RunStops ==
    /\ main = "run"
    /\ stop # "none" \/ prefetch \in {"done", "died"}
    /\ main' = "drain"
    /\ UNCHANGED <<jobVars, prefVars, slot, permVars, completed, stop, exit, dogVars>>

\* drain() is over: the prefetcher and the background tasks are aborted.
Return ==
    /\ main' = "returned"
    /\ exit' = IF stop = "none" THEN "Finished" ELSE stop
    /\ prefetch' = IF prefetch = "died" THEN "died" ELSE "done"
    /\ AbortStaging
    /\ watchdog' = "off"
    /\ UNCHANGED <<owner, thread, cancel, expired, result, want, outstanding, roomPermit,
                   laneFree, llmFree, completed, stop, moved>>

Drained ==
    /\ main = "drain"
    /\ \A s \in Slots : slot[s] = "done"
    /\ Return
    /\ UNCHANGED <<slot, tailsFree>>

\* Mutation: the deadline of the drain is gone, only a stall cuts it short.
DrainCutOnStall ==
    /\ main = "drain"
    /\ stop = "Stalled"
    /\ Return
    /\ slot' = [s \in Slots |-> IF slot[s] = "done" THEN "done" ELSE "cut"]
    /\ tailsFree' = tailsFree + Cardinality({s \in Slots : slot[s] = "recv"})

\* SHUTDOWN_DRAIN elapsed, never in a batch run, or a stall: slots.shutdown().
DrainCut ==
    /\ main = "drain"
    /\ ~Batch \/ stop = "Stalled"
    /\ Return
    /\ slot' = [s \in Slots |-> IF slot[s] = "done" THEN "done" ELSE "cut"]
    /\ tailsFree' = tailsFree + Cardinality({s \in Slots : slot[s] = "recv"})

\* main drops the runtime, which waits for every blocking thread it runs.
ProcessExits ==
    /\ main = "returned"
    /\ \A j \in Jobs : ~InTail(j) /\ thread[j] \in {"none", "returned"}
    /\ main' = "exited"
    /\ UNCHANGED <<jobVars, prefVars, slot, permVars, completed, stop, exit, dogVars>>

Next ==
    \/ Signal \/ Prefetcher
    \/ \E s \in Slots : Slot(s)
    \/ \E j \in Jobs : Download(j) \/ DownloadPanics(j) \/ JobTail(j) \/ Thread(j)
    \/ TickStarts \/ TickEnds \/ TickAborts
    \/ RunStops \/ Drained \/ DrainCut \/ ProcessExits

Spec == Init /\ [][Next]_vars

\* Every task is polled, hopper answers in the end and deadlines fire; a
\* blocking thread need not return, nobody need send a signal.  Memory is
\* promised only to a job that would run alone.
Fairness ==
    /\ WF_vars(PrefetchStops \/ PrefetchCheck \/ PrefetchSleeps \/ RoomWakes)
    /\ SF_vars(Claim) /\ SF_vars(ClaimNone)
    /\ \A s \in Slots :
          /\ WF_vars(SlotTop(s) \/ SlotLeaves(s) \/ SlotDone(s))
          /\ WF_vars(\E j \in Jobs : SlotDispatch(s, j))
          /\ SF_vars(SlotPermit(s))
    /\ \A j \in Jobs :
          /\ WF_vars(Download(j))
          /\ WF_vars(JobRefused(j) \/ JobQueues(j) \/ JobJoins(j) \/ JobPosted(j))
          /\ SF_vars(JobPassesGate(j))
          /\ WF_vars(JobStarts(j) /\ NoOtherRuns(j))
          /\ WF_vars(OpinionSkipped(j) \/ OpinionStarts(j) \/ OpinionPosted(j))
          /\ WF_vars(TailAborted(j))
    /\ WF_vars(TickStarts) /\ WF_vars(TickEnds \/ TickAborts) /\ SF_vars(TickAborts)
    /\ WF_vars(RunStops) /\ WF_vars(Drained) /\ WF_vars(DrainCut) /\ WF_vars(ProcessExits)

FairSpec == Spec /\ Fairness

\* As above, and every blocking call returns sooner or later.
ThreadsReturn ==
    \A j \in Jobs : WF_vars(ThreadReturns(j)) /\ WF_vars(OpinionReturns(j))

HealthySpec == FairSpec /\ ThreadsReturn

----------------------------------------------------------------------------
(* Properties                                                               *)

\* Types of every variable.
TypeOK ==
    /\ place \in [Jobs -> {"hopper", "claimed", "staged", "lost", "done", "aborted"}
                            \cup TailPlaces]
    /\ owner \in [Jobs -> Slots \cup {None}]
    /\ thread \in [Jobs -> {"none", "cpu", "net", "llm", "returned"}]
    /\ cancel \in [Jobs -> BOOLEAN] /\ expired \in [Jobs -> BOOLEAN]
    /\ result \in [Jobs -> {"none", "failed", "verdict", "pending"}]
    /\ prefetch \in {"check", "poll", "full", "asleep", "done", "died"}
    /\ want \in 0..Cardinality(Slots)
    /\ outstanding \in 0..TargetDepth
    /\ roomPermit \in BOOLEAN
    /\ slot \in [Slots -> {"top", "permit", "recv", "drain", "done", "cut"}]
    /\ tailsFree \in 0..TailCap
    /\ laneFree \in [Lanes -> Nat] /\ llmFree \in 0..LlmBacklog
    /\ completed \in Nat
    /\ stop \in {"none", "Finished", "Stalled"}
    /\ main \in {"run", "drain", "returned", "exited"}
    /\ exit \in {"none", "Finished", "Stalled"}
    /\ watchdog \in {"sleep", "tick", "off"}
    /\ moved \in BOOLEAN

\* The depth counter is the number of jobs claimed and not yet taken by a
\* slot, while claiming goes on: whatever hopper answers and however downloads
\* end, it neither drifts (which would shut the worker out of claiming for
\* good) nor passes target_depth.
OutstandingExact ==
    /\ outstanding <= TargetDepth
    /\ prefetch \notin {"done", "died"} =>
          outstanding = Cardinality({j \in Jobs : place[j] \in {"claimed", "staged"}})

\* The free permits never claim a core or a place in the LLM backlog that a
\* detached blocking thread still uses, and a tail permit is held exactly by
\* each tail and each slot that waits for a job, through every abort.
PermitsHonest ==
    /\ \A l \in Lanes :
          laneFree[l] + Cardinality({j \in Jobs : /\ LaneOf(j) = l
                                                  /\ place[j] = "admit" \/ thread[j] = "cpu"})
            = LanePermits[l]
    /\ llmFree + Cardinality({j \in Jobs : thread[j] = "llm"}) = LlmBacklog
    /\ tailsFree + Cardinality({j \in Jobs : InTail(j)})
                 + Cardinality({s \in Slots : slot[s] = "recv"}) = TailCap

\* A prefetcher that sleeps, or is about to, beside room for a claim has a permit to wake
\* on: no slot makes room between its look at the depth and its sleep unheard.
RoomIsHeard ==
    prefetch \in {"full", "asleep"} /\ outstanding < TargetDepth => roomPermit

\* What a tail may wait for: a permit of its lane, memory beside others, or its thread.
TailWaits(j) ==
    \/ place[j] = "gate" /\ laneFree[LaneOf(j)] = 0
    \/ place[j] = "admit" /\ ~NoOtherRuns(j)
    \/ place[j] \in {"run", "opinion"} /\ thread[j] \in {"cpu", "net", "llm"}

\* No circle of waits between tail permits, lanes, memory and the backlog: a slot without
\* a permit waits for a tail, and of all tails one can go on unless a thread is at work,
\* which is what the watchdog watches.
TailsGoOn ==
    /\ \A s \in Slots : slot[s] = "permit" /\ tailsFree = 0 => \E j \in Jobs : InTail(j)
    /\ (\E j \in Jobs : InTail(j)) =>
          \E j \in Jobs : \/ InTail(j) /\ ~TailWaits(j)
                         \/ thread[j] \in {"cpu", "net", "llm"}

\* A job that passed its deadline posts no verdict, even when the cancelled
\* analysis comes back with one.
TimeoutWins ==
    \A j \in Jobs : expired[j] => result[j] \in {"none", "failed"}

\* An analysis whose job was dropped was told to stop: no tail dies and leaves
\* its thread running uncancelled.
AbortedIsCancelled ==
    \A j \in Jobs :
        place[j] = "aborted" /\ thread[j] \in {"cpu", "net"} => cancel[j]

\* A stall is never downgraded, by a signal or --max-jobs that comes later,
\* and a drain that ends after it reports it.
StallSticky ==
    [][stop = "Stalled" => /\ stop' = "Stalled"
                           /\ main = "drain" /\ main' = "returned" => exit' = "Stalled"]_vars

\* No job waits in hopper for ever while the worker runs: the prefetcher is
\* woken whenever a slot makes room, in whatever order they get there.
EveryJobClaimed ==
    \A j \in Jobs : place[j] = "hopper" ~> place[j] # "hopper" \/ main # "run"

\* Every claimed job is finished while the worker runs: no cycle between tail
\* permits, lanes, memory and the LLM backlog holds it up.
EveryJobFinished ==
    \A j \in Jobs : place[j] = "claimed" ~> place[j] = "done" \/ main # "run"

\* A slot never waits for ever behind wedged tails: if nothing moves any more,
\* the watchdog ends the worker, although no slot has an analysis of its own.
WedgeEndsWorker ==
    \A s \in Slots :
        <>[]~moved => (slot[s] = "permit" ~> slot[s] # "permit" \/ stop # "none")

\* Outside batch runs, a stop of any kind ends run() even when a blocking
\* thread never returns.
StopReturns == stop # "none" ~> main \in {"returned", "exited"}

\* "A stalled worker exits EX_TEMPFAIL so its supervisor restarts it."
StallExits == stop = "Stalled" ~> main = "exited"

\* StallVerdict::Progressing: "Something completed, or there is nothing in
\* flight to complete."
ProgressingMeansProgress ==
    [][TickEnds /\ StallVerdict = "Progressing" /\ ~moved
         => \A j \in Jobs : thread[j] \notin {"cpu", "net"}]_vars

\* Exit::Finished: "Asked to stop - a signal or `--max-jobs` - or
\* `--exit-if-empty` drained the queue."
FinishedWasAsked == exit = "Finished" => stop # "none" \/ Batch

\* Whatever somebody waits for is counted as it is held, and somebody is there to give it:
\* permits and staged depth, through aborts, panics and a hopper that answers too much.
WaitsAreHonest == TypeOK /\ PermitsHonest /\ OutstandingExact /\ RoomIsHeard /\ TailsGoOn

\* A job whose tail was given up, by its deadline or by an abort, runs cancelled and
\* posts no verdict.
DroppedJobsFallSilent == TimeoutWins /\ AbortedIsCancelled
=============================================================================
