---------------------------- MODULE ResultPosts ----------------------------
(***************************************************************************)
(* What a worker and hopper say to each other about one sample: the claim  *)
(* and its lease, the heartbeat that renews it, the post of the result     *)
(* with its retries, the dependencies that follow it and the amended post  *)
(* of the second opinion.  Hopper::claim, send_result, second_opinion,     *)
(* finish_job and heartbeat_loop of src/src/worker.rs.                     *)
(*                                                                         *)
(* A tick is a few minutes: longer than an attempt with its backoff and    *)
(* its 120 s timeout, much longer than the time between two heartbeats.    *)
(* Hopper is external, as the worker's comments tell it: a claim is a      *)
(* lease that runs out after LeaseTime, and a result that arrives replaces *)
(* the row.  A request may be lost, answered late, or still be at work at  *)
(* hopper after the worker gave up on it.                                  *)
(***************************************************************************)
EXTENDS Integers, FiniteSets

CONSTANTS
    Claims,        \* one sample, claimed more than once: by workers, or by one twice
    Nobody,        \* holds no lease
    Outcomes,      \* of an analysis: [kind, opinion, deps], what there is to post
    LeaseTime,     \* 30 minutes, at hopper
    RetryBudget,   \* RETRY_BUDGET, 20 minutes
    ModelQueue,    \* permits of llm_queue
    MaxStray       \* bound: requests given up on that hopper still works at

ASSUME PostsAssumption ==
    /\ \A out \in Outcomes :
          /\ out.kind \in {"verdict", "failed"}
          /\ out.kind = "failed" => out.opinion = "no" /\ ~out.deps
    /\ Nobody \notin Claims /\ ModelQueue \in Nat \ {0}
    /\ {LeaseTime, RetryBudget, MaxStray} \subseteq Nat /\ RetryBudget + 1 < LeaseTime

VARIABLES
    rpTail,    \* a claim: where its job is, and what its post has been through
    rpLease,   \* hopper: who holds the sample, and since how long unrenewed
    rpRow,     \* hopper: the result it keeps
    rpStray,   \* requests the worker gave up on that hopper may still finish
    rpLlm,     \* free permits of the LLM backlog
    rpDeps,    \* dependencies of the sample were mirrored into hopper
    rpStory    \* history, see NoStory

postVars == <<rpTail, rpLease, rpRow, rpStray, rpLlm, rpDeps, rpStory>>

NoTail  == [pc |-> "none", kind |-> "verdict", age |-> 0, tried |-> 0, opinion |-> "no",
            deps |-> FALSE]
NoRow   == [by |-> Nobody, kind |-> "failed"]
Kinds   == {"verdict", "amended", "failed"}

\* History of a claim: hopper renewed its lease within a tick of the analysis's
\* end; a renewal was missed while it ran; its amended result was acknowledged.
NoStory == [heard |-> FALSE, missed |-> FALSE, amended |-> FALSE]

PostsInit ==
    /\ rpTail = [c \in Claims |-> NoTail]
    /\ rpLease = [to |-> Nobody, age |-> 0]
    /\ rpRow = NoRow
    /\ rpStray = {}
    /\ rpLlm = ModelQueue
    /\ rpDeps = FALSE
    /\ rpStory = [c \in Claims |-> NoStory]

At(c, pcs) == rpTail[c].pc \in pcs
TailGoes(c, pc) == rpTail' = [rpTail EXCEPT ![c].pc = pc]

----------------------------------------------------------------------------
(* The claim                                                               *)

\* Hopper hands the sample out when nobody holds it and no result is kept.
ClaimRow(c) ==
    /\ At(c, {"none"}) /\ rpRow = NoRow
    /\ rpLease.to = Nobody \/ rpLease.age >= LeaseTime
    /\ rpLease' = [to |-> c, age |-> 0]
    /\ rpTail' = [rpTail EXCEPT ![c] = [NoTail EXCEPT !.pc = "staged"]]
    /\ UNCHANGED <<rpRow, rpStray, rpLlm, rpDeps, rpStory>>

\* The admission gate lets the job run and knows its digest from here on; until
\* then it is staged, or waits at a gate.
RunJob(c) ==
    /\ At(c, {"staged"}) /\ TailGoes(c, "running")
    /\ rpStory' = [rpStory EXCEPT ![c].missed = rpLease.to # c \/ rpLease.age >= LeaseTime]
    /\ UNCHANGED <<rpLease, rpRow, rpStray, rpLlm, rpDeps>>

\* The claims whose digest heartbeat_report lists: in_flight_shas of the gate.
ActiveShas == {c \in Claims : At(c, {"running"})}

\* The reservation is gone when the analysis ends, and the digest with it.
EndJob(c, out) ==
    /\ At(c, {"running"})
    /\ rpTail' = [rpTail EXCEPT ![c] = [NoTail EXCEPT !.pc = "posting",
            !.kind = out.kind, !.opinion = out.opinion, !.deps = out.deps]]
    /\ rpStory' = [rpStory EXCEPT ![c] =
            [NoStory EXCEPT !.heard = rpLease.to = c /\ rpLease.age = 0]]
    /\ UNCHANGED <<rpLease, rpRow, rpStray, rpLlm, rpDeps>>

----------------------------------------------------------------------------
(* send_result                                                             *)

\* The body is on the wire; hopper has not seen it yet.
Send(c) ==
    /\ At(c, {"posting"}) /\ TailGoes(c, "sent")
    /\ UNCHANGED <<rpLease, rpRow, rpStray, rpLlm, rpDeps, rpStory>>

\* Mutation: the post is retried until it is stored.
RetriedForEver(c) == TRUE

\* After an attempt that failed: again, unless the budget is spent.
RetriesLeft(c) == rpTail[c].age < RetryBudget

\* What a post leads to, stored or given up: the end of an amended one, else the
\* count of the job, and the second opinion.
AfterPost(t) ==
    IF t.kind = "amended" \/ t.opinion = "no" THEN [NoTail EXCEPT !.pc = "ended"]
    ELSE [t EXCEPT !.pc = "opinion", !.age = 0, !.tried = 0, !.deps = FALSE]

\* Hopper keeps the result, answers, and the sample is nobody's any more.
Keeps(c, kind) ==
    /\ rpRow' = [by |-> c, kind |-> kind]
    /\ rpLease' = IF rpLease.to = c THEN [to |-> Nobody, age |-> 0] ELSE rpLease

\* sync_dependencies runs for a verdict that came with some, once it is stored.
Mirrors(t, stored) == t.deps /\ stored

\* A success: the dependencies are mirrored, then the tail goes on.
Stored(c) ==
    /\ At(c, {"sent"})
    /\ Keeps(c, rpTail[c].kind)
    /\ rpTail' = [rpTail EXCEPT ![c] = AfterPost(rpTail[c])]
    /\ rpDeps' = (rpDeps \/ Mirrors(rpTail[c], TRUE))
    /\ rpStory' = [rpStory EXCEPT ![c].amended = rpTail[c].kind = "amended"]
    /\ UNCHANGED <<rpStray, rpLlm>>

\* A status that is_permanent: hopper keeps nothing, nothing is sent again.
Rejected(c) ==
    /\ At(c, {"sent"})
    /\ rpTail' = [rpTail EXCEPT ![c] = AfterPost(rpTail[c])]
    /\ UNCHANGED <<rpLease, rpRow, rpStray, rpLlm, rpDeps, rpStory>>

\* Any other answer, or none.  The request may be lost, may have been kept with
\* only the answer lost, or may still be at work at hopper.
Unanswered(c, fate) ==
    /\ At(c, {"sent"})
    /\ fate = "stray" => Cardinality(rpStray) < MaxStray
    /\ IF fate = "kept" THEN Keeps(c, rpTail[c].kind) ELSE UNCHANGED <<rpRow, rpLease>>
    /\ rpStray' = IF fate = "stray" THEN rpStray \cup {[by |-> c, kind |-> rpTail[c].kind]}
                  ELSE rpStray
    /\ rpTail' = [rpTail EXCEPT ![c] =
            IF RetriesLeft(c) THEN [@ EXCEPT !.pc = "posting", !.tried = 0] ELSE AfterPost(@)]
    /\ rpDeps' = (rpDeps \/ Mirrors(rpTail[c], FALSE))
    /\ UNCHANGED <<rpLlm, rpStory>>

\* Hopper finishes a request whose sender has given up on it, or drops it.
StrayEnds(r, kept) ==
    /\ r \in rpStray /\ rpStray' = rpStray \ {r}
    /\ IF kept THEN Keeps(r.by, r.kind) ELSE UNCHANGED <<rpRow, rpLease>>
    /\ UNCHANGED <<rpTail, rpLlm, rpDeps, rpStory>>

----------------------------------------------------------------------------
(* second_opinion                                                          *)

\* A Required opinion waits for the backlog.
AskModel(c) ==
    /\ At(c, {"opinion"}) /\ rpLlm > 0
    /\ TailGoes(c, "asking") /\ rpLlm' = rpLlm - 1
    /\ UNCHANGED <<rpLease, rpRow, rpStray, rpDeps, rpStory>>

\* An Optional one is skipped when the backlog is full.
SkipOpinion(c) ==
    /\ At(c, {"opinion"}) /\ rpTail[c].opinion = "optional" /\ rpLlm = 0
    /\ rpTail' = [rpTail EXCEPT ![c] = [NoTail EXCEPT !.pc = "ended"]]
    /\ UNCHANGED <<rpLease, rpRow, rpStray, rpLlm, rpDeps, rpStory>>

\* The permit covers the blocking call, whatever it says.
PermitFreed(changed) == 1

\* The call ends; a verdict it changed is posted again.
HearModel(c, changed) ==
    /\ At(c, {"asking"}) /\ rpLlm' = rpLlm + PermitFreed(changed)
    /\ rpTail' = [rpTail EXCEPT ![c] =
            IF changed THEN [@ EXCEPT !.pc = "posting", !.kind = "amended", !.age = 0, !.tried = 0]
            ELSE [NoTail EXCEPT !.pc = "ended"]]
    /\ UNCHANGED <<rpLease, rpRow, rpStray, rpDeps, rpStory>>

----------------------------------------------------------------------------
(* Time and failures                                                       *)

Older(age) == IF age < LeaseTime THEN age + 1 ELSE age
InPost(c) == At(c, {"posting", "sent"})

\* A few minutes pass.  Every worker has sent its heartbeats; those of lost were
\* not heard.  An attempt lasts less than a tick, so that at most one tick passes
\* while it is under way.
Pass(lost) ==
    /\ \A c \in Claims : InPost(c) => rpTail[c].tried = 0
    /\ rpTail' = [c \in Claims |->
            IF InPost(c) THEN [rpTail[c] EXCEPT !.age = Older(@), !.tried = 1]
            ELSE rpTail[c]]
    /\ rpLease' = [rpLease EXCEPT !.age =
            IF rpLease.to = Nobody \/ rpLease.to \in ActiveShas \ lost THEN 0 ELSE Older(@)]
    /\ rpStory' = [c \in Claims |->
            IF At(c, {"running"}) /\ c \in lost
            THEN [rpStory[c] EXCEPT !.missed = TRUE] ELSE rpStory[c]]
    /\ UNCHANGED <<rpRow, rpStray, rpLlm, rpDeps>>

\* The worker's process ends: its tail is gone.  The restart registers the worker,
\* and hopper takes the claim back, or the lease runs out.
Perish(c, registers) ==
    /\ ~At(c, {"none", "ended"})
    /\ rpTail' = [rpTail EXCEPT ![c] = [NoTail EXCEPT !.pc = "ended"]]
    /\ rpLease' = IF registers /\ rpLease.to = c THEN [to |-> Nobody, age |-> 0] ELSE rpLease
    /\ rpLlm' = IF At(c, {"asking"}) THEN rpLlm + 1 ELSE rpLlm
    /\ UNCHANGED <<rpRow, rpStray, rpDeps, rpStory>>

TailStep(c) ==
    \/ Send(c) \/ Stored(c) \/ Rejected(c) \/ AskModel(c) \/ SkipOpinion(c)
    \/ \E fate \in {"lost", "kept", "stray"} : Unanswered(c, fate)
    \/ \E changed \in BOOLEAN : HearModel(c, changed)

PostsNext ==
    \/ \E c \in Claims :
          \/ ClaimRow(c) \/ RunJob(c) \/ TailStep(c)
          \/ \E out \in Outcomes : EndJob(c, out)
          \/ \E registers \in BOOLEAN : Perish(c, registers)
    \/ \E r \in rpStray, kept \in BOOLEAN : StrayEnds(r, kept)
    \/ \E lost \in SUBSET Claims : Pass(lost)

\* Time passes, the worker's runtime runs its tails, and the semaphore of the
\* backlog is first come, first served.
PostsFairness ==
    /\ WF_postVars(\E lost \in SUBSET Claims : Pass(lost))
    /\ \A c \in Claims : WF_postVars(TailStep(c)) /\ SF_postVars(AskModel(c))

PostsSpec == PostsInit /\ [][PostsNext]_postVars
PostsFairSpec == PostsSpec /\ PostsFairness

----------------------------------------------------------------------------
(* Properties                                                              *)

\* The variables have their types, and a permit of the LLM backlog is taken for a
\* call that is being made and for nothing else.
PostsTypeOK ==
    /\ \A c \in Claims :
          /\ rpTail[c].pc \in {"none", "staged", "running", "posting", "sent", "opinion",
                               "asking", "ended"}
          /\ rpTail[c].kind \in Kinds /\ rpTail[c].age \in 0..LeaseTime /\ rpTail[c].tried \in 0..1
    /\ rpLease.to \in Claims \cup {Nobody} /\ rpLease.age \in 0..LeaseTime
    /\ rpRow.by \in Claims \cup {Nobody}
    /\ rpLlm = ModelQueue - Cardinality({c \in Claims : At(c, {"asking"})})

\* The heartbeat keeps the lease of a job while it runs, however long: hopper
\* hands the sample to nobody else as long as it hears the worker.
RunsUnderItsLease ==
    \A c \in Claims : At(c, {"running"}) /\ ~rpStory[c].missed /\ rpRow = NoRow =>
        rpLease.to = c

\* The retries of a result end before the lease does: while a worker still tries
\* to post the verdict of a job whose lease was renewed until it was done, no
\* other worker is given the sample.
PostsUnderItsLease ==
    \A c \in Claims : InPost(c) /\ rpTail[c].kind # "amended" /\ rpStory[c].heard /\ rpRow = NoRow =>
        rpLease.to = c

\* A sample's dependencies reach hopper after the sample's own row.
DependenciesFollowTheirRow ==
    rpDeps => rpRow # NoRow

\* A comment of send_result: the post is idempotent on hopper, so sending it again
\* after an ambiguous timeout is safe.  What the second opinion changed, once hopper
\* has acknowledged it, would then stay.
AmendmentSticks ==
    \A c \in Claims : rpStory[c].amended /\ rpRow.by = c => rpRow.kind = "amended"

\* A tail that posts or asks comes to an end, whether or not hopper ever answers.
EveryTailEnds ==
    \A c \in Claims : At(c, {"posting", "sent", "opinion", "asking"}) ~> At(c, {"ended"})

\* A worker works on a sample, and posts about it, while the sample is its own.
LeasesAreKept ==
    PostsTypeOK /\ RunsUnderItsLease /\ PostsUnderItsLease /\ DependenciesFollowTheirRow
=============================================================================
