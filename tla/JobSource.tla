----------------------------- MODULE JobSource -----------------------------
(***************************************************************************)
(* How staged jobs reach the slots: the prefetch channel, the reorder      *)
(* window, the mutex the slots take in turn, and the choice of the next    *)
(* job.  JobSource::recv, pick_from_reorder and next_dispatch of           *)
(* src/src/worker.rs.                                                      *)
(*                                                                         *)
(* Hopper is external: it hands out jobs in polls of at most the room      *)
(* there is, of which at most half are sighted, and a job that was         *)
(* analyzed may be handed out again (as another of its size and tier), so  *)
(* that the backlog never ends.                                            *)
(***************************************************************************)
EXTENDS Integers, Sequences, FiniteSets, FiniteSetsExt, SequencesExt

CONSTANTS
    Rows,         \* jobs at hopper
    Sighted,      \* those of the tier hopper calls sighted
    JobSize,      \* [Rows -> Nat], 0 when hopper does not say
    Orders,       \* dispatch orders to start with: fifo, smallest, largest
    MaxWait,      \* SCAN_SJF_MAX_WAIT_SECS
    ClaimDepth,   \* jobs claimed ahead of the tails
    Hands,        \* slots
    Tails,        \* permits of WorkerShared::tails
    NoSlot        \* the mutex is free

ASSUME SourceAssumption ==
    /\ Sighted \subseteq Rows /\ Hands # {} /\ NoSlot \notin Hands
    /\ Orders \subseteq {"fifo", "smallest", "largest"}
    /\ {MaxWait, ClaimDepth, Tails} \subseteq Nat \ {0}

VARIABLES
    jsOrder,    \* SCAN_SJF
    jsJob,      \* a job: hopper, claimed, rx, window, running
    jsRx,       \* the prefetch channel
    jsWindow,   \* `reorder`, by sweep: [job, age], the age up to MaxWait
    jsSlot,     \* a slot: permit (it waits for a tail's), ask, first, ended
    jsMutex,    \* the slot that holds the receiver
    jsTails,    \* free permits
    jsOpen,     \* the prefetcher holds the sender
    jsStop      \* the stop signal is raised

sourceVars == <<jsOrder, jsJob, jsRx, jsWindow, jsSlot, jsMutex, jsTails, jsOpen, jsStop>>

SourceInit ==
    /\ jsOrder \in Orders
    /\ jsJob = [j \in Rows |-> "hopper"]
    /\ jsRx = <<>> /\ jsWindow = <<>>
    /\ jsSlot = [s \in Hands |-> "permit"]
    /\ jsMutex = NoSlot
    /\ jsTails = Tails
    /\ jsOpen = TRUE /\ jsStop = FALSE

JobsAt(place) == {j \in Rows : jsJob[j] = place}
Outstanding == Cardinality(JobsAt("claimed") \cup JobsAt("rx") \cup JobsAt("window"))

----------------------------------------------------------------------------
(* The prefetcher, as far as the slots see it                              *)

\* A poll for the room there is; at most half of what hopper hands out is sighted.
Poll(batch) ==
    /\ jsOpen /\ ~jsStop
    /\ batch # {} /\ batch \subseteq JobsAt("hopper")
    /\ Outstanding + Cardinality(batch) <= ClaimDepth
    /\ 2 * Cardinality(batch \cap Sighted) <= Cardinality(batch)
    /\ jsJob' = [j \in Rows |-> IF j \in batch THEN "claimed" ELSE jsJob[j]]
    /\ UNCHANGED <<jsOrder, jsRx, jsWindow, jsSlot, jsMutex, jsTails, jsOpen, jsStop>>

\* A download ends: downloads of a burst end in any order.
LandJob(j) ==
    /\ jsJob[j] = "claimed" /\ jsOpen
    /\ jsJob' = [jsJob EXCEPT ![j] = "rx"] /\ jsRx' = Append(jsRx, j)
    /\ UNCHANGED <<jsOrder, jsWindow, jsSlot, jsMutex, jsTails, jsOpen, jsStop>>

\* The prefetcher ends, told to stop, with nothing left to do, or by a panic.  Its
\* staging tasks end with it, and so do the downloads they wait for; what has
\* landed stays staged.
CloseChannel ==
    /\ jsOpen /\ jsOpen' = FALSE
    /\ jsJob' = [j \in Rows |-> IF jsJob[j] = "claimed" THEN "hopper" ELSE jsJob[j]]
    /\ UNCHANGED <<jsOrder, jsRx, jsWindow, jsSlot, jsMutex, jsTails, jsStop>>

----------------------------------------------------------------------------
(* The choice                                                              *)

\* What try_recv drains goes behind what the window holds.
Swept(window, rx) == window \o [i \in DOMAIN rx |-> [job |-> rx[i], age |-> 0]]

SightedIn(w) == {i \in DOMAIN w : w[i].job \in Sighted}
AgedIn(w)    == {i \in DOMAIN w : w[i].age >= MaxWait}

\* The positions `order` may choose among: those of the smallest or largest jobs.
BySize(w) ==
    {i \in DOMAIN w : \A k \in DOMAIN w :
        IF jsOrder = "largest" THEN JobSize[w[k].job] <= JobSize[w[i].job]
        ELSE JobSize[w[i].job] <= JobSize[w[k].job]}

\* Mutation: nothing is taken for its age.
PickedBySizeOnly(w) ==
    IF SightedIn(w) # {} THEN {Min(SightedIn(w))} ELSE BySize(w)

\* Mutation: age comes before hopper's priority.
PickedAgedFirst(w) ==
    IF AgedIn(w) # {} THEN {Min(AgedIn(w))}
    ELSE IF SightedIn(w) # {} THEN {Min(SightedIn(w))}
    ELSE BySize(w)

\* pick_from_reorder: the oldest of the sighted jobs, else of the aged ones, else
\* one of those the order puts first (swap_remove leaves ties in any order).
Picked(w) ==
    IF SightedIn(w) # {} THEN {Min(SightedIn(w))}
    ELSE IF AgedIn(w) # {} THEN {Min(AgedIn(w))}
    ELSE BySize(w)

----------------------------------------------------------------------------
(* next_dispatch and recv                                                  *)

SlotIs(s, pc) == jsSlot[s] = pc
SlotGoes(s, pc) == jsSlot' = [jsSlot EXCEPT ![s] = pc]

\* The tail's permit comes before the job.
TakeTail(s) ==
    /\ SlotIs(s, "permit") /\ ~jsStop /\ jsTails > 0
    /\ SlotGoes(s, "ask") /\ jsTails' = jsTails - 1
    /\ UNCHANGED <<jsOrder, jsJob, jsRx, jsWindow, jsMutex, jsOpen, jsStop>>

\* The slot dispatches w[i]: its tail runs it, the slot comes back for the next.
Dispatch(s, w, i) ==
    /\ jsWindow' = RemoveAt(w, i)
    /\ jsJob' = [j \in Rows |->
            IF j = w[i].job THEN "running"
            ELSE IF \E k \in DOMAIN w : w[k].job = j THEN "window" ELSE jsJob[j]]
    /\ SlotGoes(s, "permit")

\* How many of the n jobs in the channel a call drains: Fifo takes one.
Taken(n) == IF jsOrder = "fifo" /\ n > 0 THEN 1 ELSE n

\* With a job at hand, recv hands it out and frees the mutex.
HandOut(s) ==
    /\ LET n == Taken(Len(jsRx))
           w == Swept(jsWindow, SubSeq(jsRx, 1, n)) IN
       /\ w # <<>>
       /\ \E i \in Picked(w) : Dispatch(s, w, i)
       /\ jsRx' = SubSeq(jsRx, n + 1, Len(jsRx))
    /\ jsMutex' = NoSlot
    /\ UNCHANGED <<jsOrder, jsTails, jsOpen, jsStop>>

\* recv gets the mutex: what there is decides whether it has to wait with it.
Recv(s) == SlotIs(s, "ask") /\ jsMutex = NoSlot /\ ~jsStop /\ HandOut(s)

AwaitFirst(s) ==
    /\ SlotIs(s, "ask") /\ jsMutex = NoSlot /\ ~jsStop
    /\ jsRx = <<>> /\ jsWindow = <<>>
    /\ jsMutex' = s /\ SlotGoes(s, "first")
    /\ UNCHANGED <<jsOrder, jsJob, jsRx, jsWindow, jsTails, jsOpen, jsStop>>

\* rx.recv() has a first job; the rest of the burst is drained with it.
RecvFirst(s) == SlotIs(s, "first") /\ ~jsStop /\ jsRx # <<>> /\ HandOut(s)

\* recv returns None: the slot that waits for a first job is told there is none.
NothingComes(s) == jsMutex = s /\ jsRx = <<>>

\* The slot ends, its permit with it: nothing more comes, or the stop, which drops
\* whatever it waits for.
EndSlot(s) ==
    /\ ~SlotIs(s, "ended")
    /\ jsStop \/ (~SlotIs(s, "permit") /\ ~jsOpen /\ NothingComes(s))
    /\ SlotGoes(s, "ended")
    /\ jsMutex' = IF jsMutex = s THEN NoSlot ELSE jsMutex
    /\ jsTails' = IF SlotIs(s, "permit") THEN jsTails ELSE jsTails + 1
    /\ UNCHANGED <<jsOrder, jsJob, jsRx, jsWindow, jsOpen, jsStop>>

\* The tail is done with its job.
EndTail(j) ==
    /\ jsJob[j] = "running"
    /\ jsJob' = [jsJob EXCEPT ![j] = "hopper"] /\ jsTails' = jsTails + 1
    /\ UNCHANGED <<jsOrder, jsRx, jsWindow, jsSlot, jsMutex, jsOpen, jsStop>>

RaiseStop ==
    /\ ~jsStop /\ jsStop' = TRUE
    /\ UNCHANGED <<jsOrder, jsJob, jsRx, jsWindow, jsSlot, jsMutex, jsTails, jsOpen>>

WaitOn ==
    /\ \E i \in DOMAIN jsWindow : jsWindow[i].age < MaxWait
    /\ jsWindow' = [i \in DOMAIN jsWindow |->
            [jsWindow[i] EXCEPT !.age = IF @ < MaxWait THEN @ + 1 ELSE @]]
    /\ UNCHANGED <<jsOrder, jsJob, jsRx, jsSlot, jsMutex, jsTails, jsOpen, jsStop>>

SlotStep(s) == TakeTail(s) \/ Recv(s) \/ AwaitFirst(s) \/ RecvFirst(s) \/ EndSlot(s)

SourceNext ==
    \/ \E batch \in SUBSET Rows : Poll(batch)
    \/ \E j \in Rows : LandJob(j) \/ EndTail(j)
    \/ \E s \in Hands : SlotStep(s)
    \/ CloseChannel \/ RaiseStop \/ WaitOn

\* The runtime polls its tasks; downloads and analyses end; time passes.  Nothing
\* is promised of hopper's polls, nor that the worker is ever stopped.
SourceFairness ==
    /\ \A s \in Hands : WF_sourceVars(SlotStep(s)) /\ SF_sourceVars(TakeTail(s) \/ Recv(s))
    /\ \A j \in Rows : WF_sourceVars(LandJob(j)) /\ WF_sourceVars(EndTail(j))
    /\ WF_sourceVars(WaitOn)

SourceSpec == SourceInit /\ [][SourceNext]_sourceVars
SourceFairSpec == SourceSpec /\ SourceFairness

----------------------------------------------------------------------------
(* Properties                                                              *)

\* Every staged job is in the channel or the window, once, and the permits are
\* those of the running tails and of the slots that ask.
SourceTypeOK ==
    /\ JobsAt("rx") = ToSet(jsRx) /\ Cardinality(JobsAt("rx")) = Len(jsRx)
    /\ JobsAt("window") = {jsWindow[i].job : i \in DOMAIN jsWindow}
    /\ Cardinality(JobsAt("window")) = Len(jsWindow)
    /\ jsTails = Tails - Cardinality(JobsAt("running"))
                 - Cardinality({s \in Hands : jsSlot[s] \in {"ask", "first"}})
    /\ jsMutex # NoSlot <=> \E s \in Hands : SlotIs(s, "first")

\* Whether j is dispatched by this step.
HandedOut(j) == jsJob[j] \in {"rx", "window"} /\ jsJob'[j] = "running"

\* A sighted job waits for no other: when the order is by size and a job goes that
\* is not sighted, no sighted job is staged, not even one that landed just now.
SightedWaitsForNone ==
    [][ \A j \in Rows \ Sighted : HandedOut(j) /\ jsOrder # "fifo" =>
            Sighted \cap (JobsAt("rx") \cup JobsAt("window")) = {} ]_sourceVars

\* A job that has aged is passed over by sighted jobs and by those staged before
\* it, and by no other, however small (or large) they are.
AgedIsPassedByOlder ==
    [][ \A j \in Rows \ Sighted, i \in DOMAIN jsWindow :
            HandedOut(j) /\ i \in AgedIn(jsWindow) =>
                \E k \in 1..i : jsWindow[k].job = j ]_sourceVars

\* When the slots have ended for lack of work, nothing is left staged: a prefetcher
\* that is gone takes no job with it that had landed.
NothingLeftStaged ==
    ~jsStop /\ (\A s \in Hands : SlotIs(s, "ended")) => JobsAt("rx") \cup JobsAt("window") = {}

\* Every staged job is dispatched in the end, whatever comes after it: aging keeps
\* the size order from starving one, and hopper's cap the sighted tier.
EveryStagedJobGoes ==
    \A j \in Rows : jsJob[j] \in {"rx", "window"} ~> (jsJob[j] = "running" \/ jsStop)

\* The order of dispatch: tiers first, age before size, and nothing left behind.
DispatchIsFair ==
    /\ [](SourceTypeOK /\ NothingLeftStaged)
    /\ SightedWaitsForNone /\ AgedIsPassedByOlder
=============================================================================
