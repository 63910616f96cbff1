---------------------------- MODULE MCWorkerLive ----------------------------
(* What the worker promises to end: its pipeline, the source of its jobs,   *)
(* the posts of their results and the renewal of its rules, on small        *)
(* instances side by side.  A behaviour picks one of them and takes steps   *)
(* of that one only, under that one's own fairness, so the states are the   *)
(* sum of theirs.                                                           *)
EXTENDS MCWorkerPipeline, JobSource, ResultPosts, ResourceRenewal

CONSTANTS sighted, small, big, h1, h2, c1, c2

MCJobSize == [j \in Rows |-> CASE j = sighted -> 2 [] j = small -> 1 [] j = big -> 3]

MCBroken == {Combination(1, 0), Combination(0, 1)}

MCLiveOutcomes ==
    {[kind |-> "verdict", opinion |-> o, deps |-> FALSE] : o \in {"required", "optional"}}

VARIABLE part

liveVars == <<vars, sourceVars, postVars, renewalVars, part>>

LiveInit ==
    /\ part \in {"pipeline", "source", "posts", "renewal"}
    /\ Init /\ SourceInit /\ PostsInit /\ RenewalInit
    /\ (part # "source" => jsOrder = "fifo")
    /\ (part # "renewal" => rnPinned)

Pipeline == part = "pipeline" /\ UNCHANGED <<part, sourceVars, postVars, renewalVars>>
Source   == part = "source" /\ UNCHANGED <<part, vars, postVars, renewalVars>>
Posts    == part = "posts" /\ UNCHANGED <<part, vars, sourceVars, renewalVars>>
Renewing == part = "renewal" /\ UNCHANGED <<part, vars, sourceVars, postVars>>

LiveNext ==
    \/ Pipeline /\ Next
    \/ Source /\ SourceNext
    \/ Posts /\ PostsNext
    \/ Renewing /\ RenewalNext

\* HealthySpec's fairness, in the behaviours that pick the pipeline.  Every job passes
\* the gate at most once, so that the gate's fairness to some job is its fairness to each.
PipelineFairness ==
    LET here == part = "pipeline" IN
    /\ WF_vars(here /\ (PrefetchStops \/ PrefetchCheck \/ PrefetchSleeps \/ RoomWakes))
    /\ \A s \in Slots :
          /\ WF_vars(here /\ (SlotTop(s) \/ SlotLeaves(s) \/ SlotDone(s)))
          /\ WF_vars(here /\ \E j \in Jobs : SlotDispatch(s, j))
          /\ SF_vars(here /\ SlotPermit(s))
    /\ \A j \in Jobs :
          /\ WF_vars(here /\ Download(j))
          /\ WF_vars(here /\ (JobRefused(j) \/ JobQueues(j) \/ JobJoins(j) \/ JobPosted(j)))
          /\ WF_vars(here /\ JobStarts(j) /\ NoOtherRuns(j))
          /\ WF_vars(here /\ (OpinionSkipped(j) \/ OpinionStarts(j) \/ OpinionPosted(j)))
          /\ WF_vars(here /\ TailAborted(j))
          /\ WF_vars(here /\ ThreadReturns(j)) /\ WF_vars(here /\ OpinionReturns(j))
    /\ SF_vars(here /\ \E j \in Jobs : JobPassesGate(j))
    /\ WF_vars(here /\ TickStarts) /\ WF_vars(here /\ (TickEnds \/ TickAborts))
    /\ WF_vars(here /\ RunStops)
    /\ WF_vars(here /\ Drained) /\ WF_vars(here /\ DrainCut) /\ WF_vars(here /\ ProcessExits)

\* SourceFairness, PostsFairness and RenewalFairness, in the behaviours that pick each.
PartFairness ==
    /\ WF_liveVars((Source /\ WaitOn) \/ (Renewing /\ Renewal))
    /\ \A s \in Hands : WF_sourceVars(part = "source" /\ SlotStep(s))
    /\ \A j \in Rows :
          /\ WF_sourceVars(part = "source" /\ LandJob(j))
          /\ WF_sourceVars(part = "source" /\ EndTail(j))
    /\ WF_postVars(part = "posts" /\ \E lost \in SUBSET Claims : Pass(lost))
    /\ \A c \in Claims : WF_postVars(part = "posts" /\ TailStep(c))

\* Their strong fairness, one formula for a step of each: a behaviour has steps
\* of one part only, and TLC's cost doubles with each formula.
StrongFairness ==
    /\ SF_liveVars(\/ Pipeline /\ Claim
                   \/ Source /\ (TakeTail(h1) \/ Recv(h1))
                   \/ Posts /\ AskModel(c1))
    /\ SF_liveVars(\/ Pipeline /\ ClaimNone
                   \/ Source /\ (TakeTail(h2) \/ Recv(h2))
                   \/ Posts /\ AskModel(c2))

LiveSpec ==
    LiveInit /\ [][LiveNext]_liveVars /\ PipelineFairness /\ PartFairness /\ StrongFairness

\* Every job waiting in hopper is claimed while the worker runs, and every claimed one
\* is finished.
PipelineFinishes == (part = "pipeline" => EveryJobClaimed) /\ EveryJobFinished

\* No job rests in the staged window, and no tail in its posts.
WorkerMovesOn == EveryStagedJobGoes /\ EveryTailEnds
=============================================================================
