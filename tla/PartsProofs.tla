---------------------------- MODULE PartsProofs ----------------------------
(***************************************************************************)
(* That the smaller parts of a worker keep their promises, for any number  *)
(* of processes, claims, files and jobs: the scratch trees of a process, the*)
(* renewal of model and traits, the lease a result is posted under, the    *)
(* local index of samples, the source of jobs, and the telemetry.          *)
(*                                                                         *)
(* Six arguments, one per part.  A sweep removes a tree only while it holds*)
(* the lock a live owner would hold.  Nothing but the renewal moves what is*)
(* installed between its validation and its hand-over.  The lease of a post*)
(* is no older than the post, whose budget is shorter.  A cached hash is of*)
(* the bytes that lie at the path, or of a time before their last change.  *)
(* A staged job is in the channel or in the window, once, and a job that   *)
(* is handed out is one of those its call has picked of both.  A slot of the*)
(* rate counts one minute, the list of errors stands from the oldest, and a *)
(* gap counts for no more than has run of it.                              *)
(***************************************************************************)
EXTENDS ScratchTrees, ResourceRenewal, ResultPosts, LocalIndex, JobSource, WorkerTelemetry,
        WellFoundedInduction, FiniteSetTheorems, SequenceTheorems, TLAPS

----------------------------------------------------------------------------
(* Scratch trees                                                          *)

\* Alive, and past the making of its tree.
Alive(p) == tsPhase[p] \in {"making", "sweeping", "opened", "removing", "running", "closing"}
Made(p)  == tsPhase[p] \in {"sweeping", "opened", "removing", "running", "closing"}

\* A made tree has been through every step of in_dir.
MadeIsWhole == \A p \in Procs : Made(p) => tsStage[p] = 4

\* A live process holds its lock from the third step on.
LiveHoldsLock == \A p \in Procs : Alive(p) /\ tsStage[p] >= 3 => tsHolder[p] = p

\* There is no marker before the last step, so that a sweep has open only what was made.
MarkerIsLast == \A p \in Procs : "marker" \in tsTree[p] => tsStage[p] = 4

OpenedWasMade ==
    \A p \in Procs :
        tsPhase[p] \in {"opened", "removing"} => tsOpen[p] \in Procs /\ tsStage[tsOpen[p]] = 4

\* A sweep that removes holds the lock of what it removes, which is not its own tree.
RemoverHoldsLock ==
    \A p \in Procs : tsPhase[p] = "removing" => tsOpen[p] # p /\ tsHolder[tsOpen[p]] = p

ScratchInv ==
    /\ ScratchTypeOK /\ MadeIsWhole /\ LiveHoldsLock /\ MarkerIsLast /\ OpenedWasMade
    /\ RemoverHoldsLock /\ LiveTreeNeverSwept

\* The four steps of in_dir, by their number.
LEMMA MakingSteps ==
    /\ Making[1] = "dir" /\ Making[2] = "temp" /\ Making[3] = "lock" /\ Making[4] = "marker"
BY DEF Making

LEMMA ScratchInitInv == ScratchInit => ScratchInv
BY ScratchAssumption DEF ScratchInit, ScratchInv, ScratchTypeOK, ScratchPhases, Entries,
   MadeIsWhole, Made, LiveHoldsLock, Alive, MarkerIsLast, OpenedWasMade, RemoverHoldsLock,
   LiveTreeNeverSwept, Uses

LEMMA ScratchStepInv == ScratchInv /\ [ScratchNext]_scratchVars => ScratchInv'
<1> SUFFICES ASSUME ScratchInv, [ScratchNext]_scratchVars PROVE ScratchInv'
  OBVIOUS
<1> USE ScratchAssumption DEF ScratchInv, ScratchTypeOK, ScratchPhases, Entries, In, Become,
        TreeBecomes
<1>1. ASSUME NEW p \in Procs, MakeStep(p) PROVE ScratchInv'
  <2>1. PICK n \in 0 .. 3 : tsStage[p] = n
    BY <1>1 DEF MakeStep
  <2>2. CASE n = 0
    BY <1>1, <2>1, <2>2, MakingSteps DEF MakeStep, MadeIsWhole, Made, LiveHoldsLock, Alive,
       MarkerIsLast, OpenedWasMade, RemoverHoldsLock, LiveTreeNeverSwept, Uses
  <2>3. CASE n = 1
    BY <1>1, <2>1, <2>3, MakingSteps DEF MakeStep, MadeIsWhole, Made, LiveHoldsLock, Alive,
       MarkerIsLast, OpenedWasMade, RemoverHoldsLock, LiveTreeNeverSwept, Uses
  <2>4. CASE n = 2
    BY <1>1, <2>1, <2>4, MakingSteps DEF MakeStep, MadeIsWhole, Made, LiveHoldsLock, Alive,
       MarkerIsLast, OpenedWasMade, RemoverHoldsLock, LiveTreeNeverSwept, Uses
  <2>5. CASE n = 3
    BY <1>1, <2>1, <2>5, MakingSteps DEF MakeStep, MadeIsWhole, Made, LiveHoldsLock, Alive,
       MarkerIsLast, OpenedWasMade, RemoverHoldsLock, LiveTreeNeverSwept, Uses
  <2> QED
    BY <2>2, <2>3, <2>4, <2>5
<1>2. ASSUME NEW p \in Procs, MakeFails(p) PROVE ScratchInv'
  BY <1>2 DEF MakeFails, MadeIsWhole, Made, LiveHoldsLock, Alive, MarkerIsLast, OpenedWasMade,
     RemoverHoldsLock, LiveTreeNeverSwept, Uses
<1>3. ASSUME NEW p \in Procs, SweepBegins(p) \/ NoSweep(p) \/ SweepEnds(p) PROVE ScratchInv'
  BY <1>3 DEF SweepBegins, NoSweep, SweepEnds, MadeIsWhole, Made, LiveHoldsLock, Alive,
     MarkerIsLast, OpenedWasMade, RemoverHoldsLock, LiveTreeNeverSwept, Uses
<1>4. ASSUME NEW p \in Procs, NEW t \in Procs, Meet(p, t) PROVE ScratchInv'
  BY <1>4 DEF Meet, Marked, MadeIsWhole, Made, LiveHoldsLock, Alive, MarkerIsLast, OpenedWasMade,
     RemoverHoldsLock, LiveTreeNeverSwept, Uses
<1>5. ASSUME NEW p \in Procs, TryLock(p) PROVE ScratchInv'
  BY <1>5 DEF TryLock, InUse, MadeIsWhole, Made, LiveHoldsLock, Alive, MarkerIsLast,
     OpenedWasMade, RemoverHoldsLock, LiveTreeNeverSwept, Uses
<1>6. ASSUME NEW p \in Procs, Write(p) \/ Drop(p) PROVE ScratchInv'
  BY <1>6 DEF Write, Drop, DropHolds, MadeIsWhole, Made, LiveHoldsLock, Alive, MarkerIsLast,
     OpenedWasMade, RemoverHoldsLock, LiveTreeNeverSwept, Uses
<1>7. ASSUME NEW p \in Procs, Kill(p) PROVE ScratchInv'
  BY <1>7 DEF Kill, MadeIsWhole, Made, LiveHoldsLock, Alive, MarkerIsLast, OpenedWasMade,
     RemoverHoldsLock, LiveTreeNeverSwept, Uses
<1>8. ASSUME NEW p \in Procs, NEW t \in Procs, RemoveEntry(p, t) PROVE ScratchInv'
  BY <1>8 DEF RemoveEntry, Removes, MadeIsWhole, Made, LiveHoldsLock, Alive, MarkerIsLast,
     OpenedWasMade, RemoverHoldsLock, LiveTreeNeverSwept, Uses
<1>9. ASSUME NEW p \in Procs, NEW t \in Procs, LeaveTree(p, t) PROVE ScratchInv'
  BY <1>9 DEF LeaveTree, Removes, MadeIsWhole, Made, LiveHoldsLock, Alive, MarkerIsLast,
     OpenedWasMade, RemoverHoldsLock, LiveTreeNeverSwept, Uses
<1>10. CASE UNCHANGED scratchVars
  BY <1>10 DEF scratchVars, MadeIsWhole, Made, LiveHoldsLock, Alive, MarkerIsLast,
     OpenedWasMade, RemoverHoldsLock, LiveTreeNeverSwept, Uses
<1>11. ASSUME NEW p \in Procs, NEW t \in Procs, PassOver(p, t) PROVE ScratchInv'
  BY <1>11 DEF PassOver, MadeIsWhole, Made, LiveHoldsLock, Alive, MarkerIsLast, OpenedWasMade,
     RemoverHoldsLock, LiveTreeNeverSwept, Uses
<1> QED
  BY <1>1, <1>2, <1>3, <1>4, <1>5, <1>6, <1>7, <1>8, <1>9, <1>10, <1>11 DEF ScratchNext

\* The invariant the two theorems rest on holds in every run.
THEOREM ScratchInvariant == ScratchSpec => []ScratchInv
BY ScratchInitInv, ScratchStepInv, PTL DEF ScratchSpec

\* No sweep takes the directory of a process that makes or uses it, however many start
\* and die at whatever step (in_dir locks before it publishes the marker).
THEOREM LiveTreesAreSafe == ScratchSpec => []LiveTreeNeverSwept
<1>1. ScratchInv => LiveTreeNeverSwept
  BY DEF ScratchInv
<1> QED
  BY <1>1, ScratchInvariant, PTL

\* A tree is removed by one process at a time: two sweeps, or a sweep and the Drop of
\* its owner, never meet in one (cleanup_stale keeps the lock through the removal).
THEOREM RemovalsNeverMeet == ScratchSpec => []OneRemovesATree
<1>1. ScratchInv => OneRemovesATree
  BY DEF ScratchInv, OneRemovesATree, Removes, In, MadeIsWhole, Made, LiveHoldsLock, Alive,
     RemoverHoldsLock
<1> QED
  BY <1>1, ScratchInvariant, PTL

----------------------------------------------------------------------------
(* What a sweep owes                                                       *)

TreeGone(t) == tsPhase[t] \in {"ended", "failed", "dead"}

\* A lock is held by the owner of the tree or by a sweep that removes it.
HoldersAreKnown ==
    \A p, t \in Procs : tsHolder[t] = p => p = t \/ (tsPhase[p] = "removing" /\ tsOpen[p] = t)

\* What a sweep owes has no live owner and is locked by nobody else; it is removed, or
\* still ahead of the sweep with its marker, or what the sweep has open.
Owes(p, t) ==
    /\ TreeGone(t) /\ tsHolder[t] \in {NoProc, p}
    /\ \/ tsTree[t] = {}
       \/ tsPhase[p] \in {"sweeping", "opened", "removing"} /\ t \in tsTodo[p] /\ Marked(t)
       \/ tsPhase[p] \in {"opened", "removing"} /\ tsOpen[p] = t

SweepInv ==
    /\ HoldersAreKnown
    /\ \A p \in Procs : tsPhase[p] = "making" => tsOwed[p] = {}
    /\ \A p \in Procs : Alive(p) => \A t \in tsOwed[p] : Owes(p, t)

LEMMA SweepInitInv == ScratchInit => SweepInv
BY ScratchAssumption DEF ScratchInit, SweepInv, HoldersAreKnown, Alive, Owes

LEMMA SweepStepInv == ScratchInv /\ SweepInv /\ [ScratchNext]_scratchVars => SweepInv'
<1> SUFFICES ASSUME ScratchInv, SweepInv, [ScratchNext]_scratchVars PROVE SweepInv'
  OBVIOUS
<1> USE ScratchAssumption DEF ScratchInv, ScratchTypeOK, ScratchPhases, Entries, In, Become,
        TreeBecomes, SweepInv, HoldersAreKnown, Alive, Owes, TreeGone
<1>1. ASSUME NEW p \in Procs, MakeStep(p) PROVE SweepInv'
  BY <1>1 DEF MakeStep, Marked, MadeIsWhole, Made
<1>2. ASSUME NEW p \in Procs, MakeFails(p) PROVE SweepInv'
  BY <1>2 DEF MakeFails, Marked
<1>3. ASSUME NEW p \in Procs, SweepBegins(p) PROVE SweepInv'
  BY <1>3 DEF SweepBegins, Marked, Abandoned, LiveHoldsLock, MarkerIsLast
<1>4. ASSUME NEW p \in Procs, NoSweep(p) \/ SweepEnds(p) PROVE SweepInv'
  BY <1>4 DEF NoSweep, SweepEnds, Marked
<1>5. ASSUME NEW p \in Procs, NEW t \in Procs, Meet(p, t) PROVE SweepInv'
  BY <1>5 DEF Meet, Marked
<1>6. ASSUME NEW p \in Procs, TryLock(p) PROVE SweepInv'
  BY <1>6 DEF TryLock, InUse, Marked, OpenedWasMade
<1>7. ASSUME NEW p \in Procs, Write(p) \/ Drop(p) PROVE SweepInv'
  BY <1>7 DEF Write, Drop, DropHolds, Marked
<1>8. ASSUME NEW p \in Procs, Kill(p) PROVE SweepInv'
  BY <1>8 DEF Kill, Marked
<1>9. ASSUME NEW p \in Procs, NEW t \in Procs, RemoveEntry(p, t) PROVE SweepInv'
  BY <1>9 DEF RemoveEntry, Removes, Marked, RemoverHoldsLock, OpenedWasMade
<1>10. ASSUME NEW p \in Procs, NEW t \in Procs, LeaveTree(p, t) PROVE SweepInv'
  <2>1. HoldersAreKnown' /\ \A q \in Procs : tsPhase'[q] = "making" => tsOwed'[q] = {}
    BY <1>10 DEF LeaveTree, Removes, RemoverHoldsLock, OpenedWasMade, MadeIsWhole, Made,
       LiveHoldsLock
  <2>2. ASSUME NEW q \in Procs, Alive(q)', NEW u \in tsOwed'[q] PROVE Owes(q, u)'
    BY <1>10, <2>2 DEF LeaveTree, Removes, Marked, RemoverHoldsLock, OpenedWasMade, MadeIsWhole,
       Made, LiveHoldsLock
  <2> QED BY <2>1, <2>2
<1>11. CASE UNCHANGED scratchVars
  BY <1>11 DEF scratchVars, Marked
<1>12. ASSUME NEW p \in Procs, NEW t \in Procs, PassOver(p, t) PROVE SweepInv'
  BY <1>12 DEF PassOver, Marked
<1> QED
  BY <1>1, <1>2, <1>3, <1>4, <1>5, <1>6, <1>7, <1>8, <1>9, <1>10, <1>11, <1>12 DEF ScratchNext

\* A sweep that is over has left nothing that was abandoned when it began, unless it
\* could not be read or removed or another sweep took it (cleanup_abandoned passes over a
\* tree in use).
THEOREM SweepsLeaveNone == ScratchSpec => []SweepLeavesNone
<1>1. ScratchInv /\ SweepInv => SweepLeavesNone
  BY DEF ScratchInv, ScratchTypeOK, SweepInv, Alive, Owes, SweepLeavesNone, In
<1> QED
  BY <1>1, SweepInitInv, SweepStepInv, ScratchInvariant, PTL DEF ScratchSpec

\* The three together, as the runs check them: the trees of a process are safe from the
\* sweeps of the others, and theirs from it.
THEOREM TreesStaySafe == ScratchSpec => []TreesAreSafe
<1>1. LiveTreeNeverSwept /\ OneRemovesATree /\ SweepLeavesNone => TreesAreSafe
  BY DEF TreesAreSafe
<1> QED
  BY <1>1, LiveTreesAreSafe, RemovalsNeverMeet, SweepsLeaveNone, PTL

----------------------------------------------------------------------------
(* The renewal of model and traits                                        *)

Pairs == [models : Versions, traits : Versions]

Steps == {"down", "refreshed", "validated", "serving", "models", "traits", "updated",
          "validate", "load", "reload", "swap"}

RenewalTypeOK ==
    /\ rnUpstream \in Pairs /\ rnDisk \in Pairs /\ rnServed \in Pairs
    /\ rnLoaded \in Versions /\ rnPc \in Steps /\ rnFailed \in BOOLEAN

\* What is installed has passed the validation, once it is about to be loaded.
InstalledIsValid == rnPc \in {"validated", "load", "reload", "swap"} => rnDisk \notin Broken

\* What a renewal holds is the installed model, and at the end the served traits are the
\* installed ones.
HeldIsInstalled ==
    /\ rnPc \in {"reload", "swap"} => rnLoaded = rnDisk.models
    /\ rnPc = "swap" => rnServed.traits = rnDisk.traits

RenewalInv == RenewalTypeOK /\ InstalledIsValid /\ HeldIsInstalled /\ RenewalIsWhole

LEMMA RenewalInitInv == RenewalInit => RenewalInv
<1> SUFFICES ASSUME RenewalInit PROVE RenewalInv
  OBVIOUS
<1>1. RenewalTypeOK
  <2>1. 0 \in Versions
    BY RenewalAssumption DEF Versions
  <2>2. Oldest \in Pairs
    BY <2>1 DEF Oldest, Combination, Pairs
  <2> QED
    BY <2>1, <2>2 DEF RenewalInit, RenewalTypeOK, Steps
<1>2. InstalledIsValid /\ HeldIsInstalled /\ RenewalIsWhole
  BY DEF RenewalInit, InstalledIsValid, HeldIsInstalled, RenewalIsWhole, ServedIsWhole,
         InstalledIsServed
<1> QED
  BY <1>1, <1>2 DEF RenewalInv

LEMMA RenewalStepInv == RenewalInv /\ [RenewalNext]_renewalVars => RenewalInv'
<1> SUFFICES ASSUME RenewalInv, [RenewalNext]_renewalVars PROVE RenewalInv'
  OBVIOUS
<1> USE RenewalAssumption DEF RenewalInv, RenewalTypeOK, Pairs, Versions, Steps, InstalledIsValid,
        HeldIsInstalled, RenewalIsWhole, ServedIsWhole, InstalledIsServed, Installed, RenewAt, GoTo,
        RenewalFails
<1>1. ASSUME NEW kind \in Installed, NewVersion(kind) PROVE RenewalInv'
  BY <1>1 DEF NewVersion, Installed
<1>2. CASE StartUp
  <2>1. CASE Refresh
    BY <2>1 DEF Refresh
  <2>2. CASE StartValidates
    BY <2>2 DEF StartValidates
  <2>3. CASE StartLoads
    BY <2>3 DEF StartLoads
  <2> QED
    BY <1>2, <2>1, <2>2, <2>3 DEF StartUp
<1>3. CASE GoDown
  BY <1>3 DEF GoDown
<1>4. CASE RenewalDue
  BY <1>4 DEF RenewalDue
<1>5. CASE UpdateModels
  BY <1>5 DEF UpdateModels, Update
<1>6. CASE UpdateTraits
  BY <1>6 DEF UpdateTraits, Update
<1>7. CASE Decide
  \* With nothing changed and nothing failed, there is nothing that is not served.
  <2>1. ASSUME rnChanged = {}, rnPc = "updated", ~rnFailed PROVE rnServed = rnDisk
    <3>1. rnDisk.models = rnServed.models /\ rnDisk.traits = rnServed.traits
      BY <2>1
    <3> QED
      BY <3>1
  <2> QED
    BY <1>7, <2>1 DEF Decide, SomethingChanged
<1>8. CASE Validate
  BY <1>8 DEF Validate
<1>9. CASE Load
  BY <1>9 DEF Load
<1>10. CASE Reload
  BY <1>10 DEF Reload
<1>11. CASE Swap
  \* The pair that is served from here on is the one that was validated.
  <2>1. rnServed' = rnDisk
    BY <1>11 DEF Swap
  <2> QED
    BY <1>11, <2>1 DEF Swap
<1>12. CASE UNCHANGED renewalVars
  BY <1>12 DEF renewalVars
<1> QED
  BY <1>1, <1>2, <1>3, <1>4, <1>5, <1>6, <1>7, <1>8, <1>9, <1>10, <1>11, <1>12
  DEF RenewalNext, Renewal

\* Whatever fails in whichever renewal, a worker between two renewals serves with a
\* model and traits that were validated together; and while none of its steps fails,
\* it serves all of what is installed (renew_resources_once).
THEOREM ServedIsValidated == RenewalSpec => []RenewalIsWhole
<1>1. RenewalInv => RenewalIsWhole
  BY DEF RenewalInv
<1> QED
  BY <1>1, RenewalInitInv, RenewalStepInv, PTL DEF RenewalSpec

----------------------------------------------------------------------------
(* Claims, leases and posts                                               *)

TailFields == {"pc", "kind", "age", "tried", "opinion", "deps"}
TailRecord(t) == DOMAIN t = TailFields /\ t = [field \in DOMAIN t |-> t[field]]
PostSteps == {"posting", "sent"}

\* A post is as old as its budget at most, and a tick older while an attempt is under way.
TailInv(t) ==
    /\ TailRecord(t)
    /\ t.pc \in {"none", "staged", "running", "posting", "sent", "opinion", "asking", "ended"}
    /\ t.kind \in Kinds /\ t.age \in 0..LeaseTime /\ t.tried \in 0..1
    /\ t.pc \in PostSteps => t.age <= RetryBudget + t.tried

TailsInv == rpTail = [c \in Claims |-> rpTail[c]] /\ \A c \in Claims : TailInv(rpTail[c])

Asking == {c \in Claims : At(c, {"asking"})}
BacklogInv == IsFiniteSet(Asking) /\ rpLlm = ModelQueue - Cardinality(Asking) /\ rpLlm \in Int

StoriesInv ==
    /\ rpStory = [c \in Claims |-> rpStory[c]]
    /\ \A c \in Claims : rpStory[c] = [heard |-> rpStory[c].heard, missed |-> rpStory[c].missed,
                                       amended |-> rpStory[c].amended]

HopperInv ==
    /\ rpLease.to \in Claims \cup {Nobody} /\ rpLease.age \in 0..LeaseTime
    /\ DOMAIN rpLease = {"to", "age"} /\ rpLease = [field \in DOMAIN rpLease |-> rpLease[field]]
    /\ rpRow.by \in Claims \cup {Nobody} /\ \A r \in rpStray : r.by \in Claims
    /\ DependenciesFollowTheirRow

\* A lease is younger than the job's last renewal allows: young while it runs, and no older
\* than the post of its result.
LeaseInv(c) ==
    rpRow = NoRow =>
        /\ At(c, {"running"}) /\ ~rpStory[c].missed =>
             rpLease.to = c /\ rpLease.age < LeaseTime
        /\ InPost(c) /\ rpTail[c].kind # "amended" /\ rpStory[c].heard =>
             rpLease.to = c /\ rpLease.age <= rpTail[c].age

PostsInv ==
    TailsInv /\ BacklogInv /\ StoriesInv /\ HopperInv /\ \A c \in Claims : LeaseInv(c)

\* One tail moves; a permit goes with the call.
LEMMA OneTailMoves ==
    ASSUME PostsInv, NEW c \in Claims, NEW STATE new, TailInv(new),
           rpTail' = [rpTail EXCEPT ![c] = new],
           rpLlm' = rpLlm + (IF At(c, {"asking"}) THEN 1 ELSE 0)
                          - (IF new.pc = "asking" THEN 1 ELSE 0)
    PROVE  /\ TailsInv' /\ BacklogInv' /\ rpTail'[c] = new
           /\ \A d \in Claims \ {c} : rpTail'[d] = rpTail[d]
<1>1. /\ rpTail' = [d \in Claims |-> rpTail'[d]] /\ rpTail'[c] = new
      /\ \A d \in Claims \ {c} : rpTail'[d] = rpTail[d]
  BY DEF PostsInv, TailsInv
<1>2. TailsInv'
  <2>1. \A d \in Claims : TailInv(rpTail'[d])
    BY <1>1 DEF PostsInv, TailsInv
  <2> QED BY <1>1, <2>1 DEF TailsInv, TailInv, TailRecord
<1>3. Asking' = IF new.pc = "asking" THEN Asking \cup {c} ELSE Asking \ {c}
  BY <1>1 DEF Asking, At
<1>4. c \in Asking <=> At(c, {"asking"})
  BY DEF Asking
<1>5. IsFiniteSet(Asking) /\ rpLlm = ModelQueue - Cardinality(Asking) /\ ModelQueue \in Nat
  BY PostsAssumption DEF PostsInv, BacklogInv
<1>6. Cardinality(Asking) \in Nat
  BY <1>5, FS_CardinalityType
<1>7. /\ IsFiniteSet(Asking \cup {c})
      /\ Cardinality(Asking \cup {c}) =
           IF c \in Asking THEN Cardinality(Asking) ELSE Cardinality(Asking) + 1
  BY <1>5, FS_AddElement
<1>8. /\ IsFiniteSet(Asking \ {c})
      /\ Cardinality(Asking \ {c}) =
           IF c \in Asking THEN Cardinality(Asking) - 1 ELSE Cardinality(Asking)
  BY <1>5, FS_RemoveElement
<1>9. BacklogInv'
  <2> DEFINE k == Cardinality(Asking)
             m == Cardinality(Asking')
  <2>1. IsFiniteSet(Asking') /\ k \in Nat
        /\ m = IF new.pc = "asking" THEN (IF c \in Asking THEN k ELSE k + 1)
               ELSE IF c \in Asking THEN k - 1 ELSE k
    BY <1>3, <1>6, <1>7, <1>8
  <2>2. rpLlm = ModelQueue - k BY <1>5
  <2>3. m = Cardinality(Asking)' OBVIOUS
  <2> HIDE DEF k, m
  <2> QED BY <1>4, <1>5, <2>1, <2>2, <2>3 DEF BacklogInv
<1> QED BY <1>1, <1>2, <1>9

\* Hopper keeps a row.
LEMMA KeepsRow ==
    ASSUME PostsInv, NEW c \in Claims, NEW kind, Keeps(c, kind)
    PROVE  /\ rpRow' # NoRow /\ rpRow'.by \in Claims
           /\ rpLease'.to \in Claims \cup {Nobody} /\ rpLease'.age \in 0..LeaseTime
           /\ DOMAIN rpLease' = {"to", "age"}
           /\ rpLease' = [field \in DOMAIN rpLease' |-> rpLease'[field]]
<1>1. c # Nobody /\ LeaseTime \in Nat
  BY PostsAssumption
<1>2. rpRow' # NoRow /\ rpRow'.by \in Claims
  BY <1>1 DEF Keeps, NoRow
<1>3. CASE rpLease' = rpLease
  BY <1>2, <1>3 DEF PostsInv, HopperInv
<1>4. CASE rpLease' = [to |-> Nobody, age |-> 0]
  BY <1>1, <1>2, <1>4
<1> QED BY <1>3, <1>4 DEF Keeps

LEMMA Times ==
    /\ LeaseTime \in Nat /\ RetryBudget \in Nat /\ RetryBudget + 1 < LeaseTime
    /\ Nobody \notin Claims
BY PostsAssumption

LEMMA NewTail ==
    ASSUME NEW pc, pc \in {"staged", "ended"}
    PROVE  LET n == [NoTail EXCEPT !.pc = pc] IN TailInv(n) /\ n.pc = pc
<1> DEFINE base == NoTail
           n == [base EXCEPT !.pc = pc]
<1>1. TailRecord(base) /\ base.kind = "verdict" /\ base.age = 0 /\ base.tried = 0
  BY DEF NoTail, TailRecord, TailFields
<1> HIDE DEF base
<1>2. TailRecord(n) /\ n.pc = pc /\ n.kind = "verdict" /\ n.age = 0 /\ n.tried = 0
  BY <1>1 DEF TailRecord, TailFields
<1> HIDE DEF n
<1>3. TailInv(n) /\ n.pc = pc
  BY <1>2, Times DEF TailInv, Kinds, PostSteps
<1> QED BY <1>3 DEF n, base

LEMMA AfterPostInv ==
    ASSUME NEW t, TailInv(t)
    PROVE  TailInv(AfterPost(t)) /\ AfterPost(t).pc \in {"ended", "opinion"}
<1> DEFINE zero == 0
           no == FALSE
           n == [t EXCEPT !.pc = "opinion", !.age = zero, !.tried = zero, !.deps = no]
<1>1. TailRecord(t) /\ zero = 0 /\ t.kind \in Kinds
  BY DEF TailInv
<1> HIDE DEF zero, no
<1>2. TailRecord(n) /\ n.pc = "opinion" /\ n.kind = t.kind /\ n.age = zero /\ n.tried = zero
  BY <1>1 DEF TailRecord, TailFields
<1> HIDE DEF n
<1>3. TailInv(n) /\ n.pc = "opinion"
  BY <1>1, <1>2, Times DEF TailInv, PostSteps
<1> QED BY <1>3, NewTail DEF AfterPost, n, zero, no

\* A tail moves, and nothing becomes of the lease and the row: no job starts to run and no
\* post begins, but of an amended result.
LEMMA QuietMove ==
    ASSUME PostsInv, NEW c \in Claims, NEW STATE new, TailInv(new),
           rpTail' = [rpTail EXCEPT ![c] = new],
           rpLlm' = rpLlm + (IF At(c, {"asking"}) THEN 1 ELSE 0)
                          - (IF new.pc = "asking" THEN 1 ELSE 0),
           UNCHANGED <<rpLease, rpRow, rpStory>>, \A r \in rpStray' : r.by \in Claims,
           rpDeps' <=> rpDeps, new.pc # "running",
           new.pc \in PostSteps =>
             \/ new.kind = "amended"
             \/ InPost(c) /\ new.kind = rpTail[c].kind /\ new.age = rpTail[c].age
    PROVE  PostsInv'
<1>1. /\ TailsInv' /\ BacklogInv' /\ rpTail'[c] = new
      /\ \A d \in Claims \ {c} : rpTail'[d] = rpTail[d]
  BY OneTailMoves
<1>2. StoriesInv' /\ HopperInv'
  BY DEF PostsInv, StoriesInv, HopperInv, DependenciesFollowTheirRow
<1>3. ASSUME NEW d \in Claims PROVE LeaseInv(d)'
  BY <1>1 DEF PostsInv, LeaseInv, At, InPost, PostSteps
<1> QED BY <1>1, <1>2, <1>3 DEF PostsInv

\* A tail moves and hopper keeps a row: there is no lease to keep from then on.
LEMMA KeptMove ==
    ASSUME PostsInv, NEW c \in Claims, NEW kind, Keeps(c, kind),
           TailsInv', BacklogInv', StoriesInv', \A r \in rpStray' : r.by \in Claims
    PROVE  PostsInv'
<1>1. HopperInv' /\ rpRow' # NoRow
  BY KeepsRow DEF HopperInv, DependenciesFollowTheirRow
<1> QED BY <1>1 DEF PostsInv, LeaseInv

LEMMA ClaimRowInv ==
    ASSUME PostsInv, NEW c \in Claims, ClaimRow(c)
    PROVE  PostsInv'
<1> DEFINE new == [NoTail EXCEPT !.pc = "staged"]
<1>1. /\ At(c, {"none"}) /\ rpRow = NoRow /\ (rpLease.to = Nobody \/ rpLease.age >= LeaseTime)
      /\ rpLease' = [to |-> c, age |-> 0] /\ rpTail' = [rpTail EXCEPT ![c] = new]
      /\ UNCHANGED <<rpRow, rpStray, rpLlm, rpDeps, rpStory>>
  BY DEF ClaimRow
<1>2. TailInv(new) /\ new.pc = "staged"
  BY NewTail
<1> HIDE DEF new
<1>3. rpLlm \in Int
  BY DEF PostsInv, BacklogInv
<1>4. /\ TailsInv' /\ BacklogInv' /\ rpTail'[c] = new
      /\ \A d \in Claims \ {c} : rpTail'[d] = rpTail[d]
  <2>1. rpLlm' = rpLlm + (IF At(c, {"asking"}) THEN 1 ELSE 0)
                       - (IF new.pc = "asking" THEN 1 ELSE 0)
    BY <1>1, <1>2, <1>3 DEF At
  <2> QED BY <1>1, <1>2, <2>1, OneTailMoves
<1>5. StoriesInv' /\ HopperInv'
  BY <1>1, Times DEF PostsInv, StoriesInv, HopperInv, DependenciesFollowTheirRow
<1>6. ASSUME NEW d \in Claims PROVE LeaseInv(d)'
  <2>1. CASE d = c
    BY <1>2, <1>4, <2>1 DEF LeaseInv, At, InPost
  <2>2. CASE d # c
    <3>1. rpTail'[d] = rpTail[d] /\ rpStory'[d] = rpStory[d]
      BY <1>1, <1>4, <2>2
    <3>2. d # Nobody /\ LeaseInv(d) /\ TailInv(rpTail[d]) /\ rpLease.age \in 0..LeaseTime
      BY Times DEF PostsInv, TailsInv, HopperInv
    <3>3. InPost(d) => rpTail[d].age \in Nat /\ rpTail[d].age < LeaseTime
      BY <3>2, Times DEF TailInv, InPost, At, PostSteps
    <3>4. ~(At(d, {"running"}) /\ ~rpStory[d].missed)
      BY <1>1, <3>2, Times DEF LeaseInv
    <3>5. ~(InPost(d) /\ rpTail[d].kind # "amended" /\ rpStory[d].heard)
      BY <1>1, <3>2, <3>3, Times DEF LeaseInv
    <3> QED BY <3>1, <3>4, <3>5 DEF LeaseInv, At, InPost
  <2> QED BY <2>1, <2>2
<1> QED BY <1>4, <1>5, <1>6 DEF PostsInv

LEMMA RunJobInv ==
    ASSUME PostsInv, NEW c \in Claims, RunJob(c)
    PROVE  PostsInv'
<1> DEFINE t == rpTail[c]
           new == [t EXCEPT !.pc = "running"]
           story == rpStory[c]
           missed == rpLease.to # c \/ rpLease.age >= LeaseTime
           told == [story EXCEPT !.missed = missed]
<1>1. /\ t.pc = "staged" /\ rpTail' = [rpTail EXCEPT ![c] = new]
      /\ rpStory' = [rpStory EXCEPT ![c] = told]
      /\ UNCHANGED <<rpLease, rpRow, rpStray, rpLlm, rpDeps>>
  BY DEF RunJob, TailGoes, At
<1>2. TailInv(t) /\ rpLlm \in Int
  BY DEF PostsInv, TailsInv, BacklogInv
<1>3. TailInv(new) /\ new.pc = "running"
  <2> HIDE DEF t
  <2>1. TailRecord(t) BY <1>2 DEF TailInv
  <2>2. TailRecord(new) /\ new.pc = "running" /\ new.kind = t.kind /\ new.age = t.age
        /\ new.tried = t.tried
    BY <2>1 DEF TailRecord, TailFields
  <2> QED BY <1>2, <2>2 DEF TailInv, PostSteps
<1>4. /\ TailsInv' /\ BacklogInv' /\ rpTail'[c] = new
      /\ \A d \in Claims \ {c} : rpTail'[d] = rpTail[d]
  <2> HIDE DEF new
  <2>1. rpLlm' = rpLlm + (IF At(c, {"asking"}) THEN 1 ELSE 0)
                       - (IF new.pc = "asking" THEN 1 ELSE 0)
    BY <1>1, <1>2, <1>3 DEF At
  <2> QED BY <1>1, <1>3, <2>1, OneTailMoves
<1>5. /\ told = [heard |-> story.heard, missed |-> missed, amended |-> story.amended]
      /\ told.missed <=> missed
  <2>1. story = [heard |-> story.heard, missed |-> story.missed, amended |-> story.amended]
    BY DEF PostsInv, StoriesInv
  <2> HIDE DEF story, missed
  <2> QED BY <2>1
<1> HIDE DEF told
<1>6. /\ rpStory' = [d \in Claims |-> rpStory'[d]] /\ rpStory'[c] = told
      /\ \A d \in Claims \ {c} : rpStory'[d] = rpStory[d]
  BY <1>1 DEF PostsInv, StoriesInv
<1>7. StoriesInv'
  <2>1. told = [heard |-> told.heard, missed |-> told.missed, amended |-> told.amended]
    BY <1>5
  <2> QED BY <1>6, <2>1 DEF PostsInv, StoriesInv
<1>8. HopperInv'
  BY <1>1 DEF PostsInv, HopperInv, DependenciesFollowTheirRow
<1>9. ASSUME NEW d \in Claims PROVE LeaseInv(d)'
  <2>1. CASE d = c
    <3>1. ~missed => rpLease.to = c /\ rpLease.age < LeaseTime
      BY Times DEF PostsInv, HopperInv
    <3> HIDE DEF new, missed
    <3> QED BY <1>1, <1>3, <1>4, <1>5, <1>6, <2>1, <3>1 DEF LeaseInv, At, InPost
  <2>2. CASE d # c
    BY <1>1, <1>4, <1>6, <2>2 DEF PostsInv, LeaseInv, At, InPost
  <2> QED BY <2>1, <2>2
<1> QED BY <1>4, <1>7, <1>8, <1>9 DEF PostsInv

LEMMA EndJobInv ==
    ASSUME PostsInv, NEW c \in Claims, NEW out \in Outcomes, EndJob(c, out)
    PROVE  PostsInv'
<1> DEFINE base == NoTail
           new == [base EXCEPT !.pc = "posting", !.kind = out.kind, !.opinion = out.opinion,
                               !.deps = out.deps]
           calm == NoStory
           heard == rpLease.to = c /\ rpLease.age = 0
           told == [calm EXCEPT !.heard = heard]
<1>1. /\ At(c, {"running"}) /\ rpTail' = [rpTail EXCEPT ![c] = new]
      /\ rpStory' = [rpStory EXCEPT ![c] = told]
      /\ UNCHANGED <<rpLease, rpRow, rpStray, rpLlm, rpDeps>>
  BY DEF EndJob
<1>2. TailRecord(base) /\ base.age = 0 /\ base.tried = 0 /\ rpLlm \in Int
  BY DEF NoTail, TailRecord, TailFields, PostsInv, BacklogInv
<1>3. TailInv(new) /\ new.pc = "posting" /\ new.age = 0
  <2> HIDE DEF base
  <2>1. TailRecord(new) /\ new.pc = "posting" /\ new.kind = out.kind /\ new.age = base.age
        /\ new.tried = base.tried
    BY <1>2 DEF TailRecord, TailFields
  <2> HIDE DEF new
  <2> QED BY <1>2, <2>1, Times, PostsAssumption DEF TailInv, PostSteps, Kinds
<1> HIDE DEF new
<1>4. /\ TailsInv' /\ BacklogInv' /\ rpTail'[c] = new
      /\ \A d \in Claims \ {c} : rpTail'[d] = rpTail[d]
  <2>1. rpLlm' = rpLlm + (IF At(c, {"asking"}) THEN 1 ELSE 0)
                       - (IF new.pc = "asking" THEN 1 ELSE 0)
    BY <1>1, <1>2, <1>3 DEF At
  <2> QED BY <1>1, <1>3, <2>1, OneTailMoves
<1>5. told = [heard |-> heard, missed |-> calm.missed, amended |-> calm.amended]
      /\ (told.heard <=> heard)
  <2>1. calm = [heard |-> calm.heard, missed |-> calm.missed, amended |-> calm.amended]
    BY DEF NoStory
  <2> HIDE DEF calm, heard
  <2> QED BY <2>1
<1> HIDE DEF told, calm
<1>6. /\ rpStory' = [d \in Claims |-> rpStory'[d]] /\ rpStory'[c] = told
      /\ \A d \in Claims \ {c} : rpStory'[d] = rpStory[d]
  BY <1>1 DEF PostsInv, StoriesInv
<1>7. StoriesInv'
  <2>1. told = [heard |-> told.heard, missed |-> told.missed, amended |-> told.amended]
    BY <1>5
  <2> QED BY <1>6, <2>1 DEF PostsInv, StoriesInv
<1>8. HopperInv'
  BY <1>1 DEF PostsInv, HopperInv, DependenciesFollowTheirRow
<1>9. ASSUME NEW d \in Claims PROVE LeaseInv(d)'
  <2>1. CASE d = c
    <3>1. told.heard => rpLease.to = c /\ rpLease.age <= new.age
      BY <1>3, <1>5
    <3> QED BY <1>1, <1>3, <1>4, <1>6, <2>1, <3>1 DEF LeaseInv, At, InPost
  <2>2. CASE d # c
    BY <1>1, <1>4, <1>6, <2>2 DEF PostsInv, LeaseInv, At, InPost
  <2> QED BY <2>1, <2>2
<1> QED BY <1>4, <1>7, <1>8, <1>9 DEF PostsInv

LEMMA SendInv ==
    ASSUME PostsInv, NEW c \in Claims, Send(c)
    PROVE  PostsInv'
<1> DEFINE t == rpTail[c]
           new == [t EXCEPT !.pc = "sent"]
<1>1. /\ t.pc = "posting" /\ rpTail' = [rpTail EXCEPT ![c] = new] /\ TailInv(t)
      /\ UNCHANGED <<rpLease, rpRow, rpStray, rpLlm, rpDeps, rpStory>> /\ rpLlm \in Int
  BY DEF Send, TailGoes, At, PostsInv, TailsInv, BacklogInv
<1>2. TailRecord(new) /\ new.pc = "sent" /\ new.kind = t.kind /\ new.age = t.age
      /\ new.tried = t.tried
  <2> HIDE DEF t
  <2> QED BY <1>1 DEF TailInv, TailRecord, TailFields
<1> HIDE DEF new
<1>3. TailInv(new)
  BY <1>1, <1>2 DEF TailInv, PostSteps
<1>4. rpLlm' = rpLlm + (IF At(c, {"asking"}) THEN 1 ELSE 0)
                     - (IF new.pc = "asking" THEN 1 ELSE 0)
  BY <1>1, <1>2 DEF At
<1>5. InPost(c) /\ \A r \in rpStray' : r.by \in Claims
  BY <1>1 DEF InPost, At, PostsInv, HopperInv
<1>6. new.pc # "running" /\ (new.kind = rpTail[c].kind /\ new.age = rpTail[c].age)
  BY <1>2
<1>7. /\ rpTail' = [rpTail EXCEPT ![c] = new] /\ (rpDeps' <=> rpDeps)
      /\ UNCHANGED <<rpLease, rpRow, rpStory>>
  BY <1>1
<1> QED BY <1>3, <1>4, <1>5, <1>6, <1>7, QuietMove

\* What follows a post.
LEMMA GoesOn ==
    ASSUME PostsInv, NEW c \in Claims, At(c, {"sent"}),
           rpTail' = [rpTail EXCEPT ![c] = AfterPost(rpTail[c])], rpLlm' = rpLlm
    PROVE  /\ TailsInv' /\ BacklogInv'
           /\ UNCHANGED <<rpLease, rpRow, rpStory>> /\ rpDeps' = rpDeps
                /\ (\A r \in rpStray' : r.by \in Claims) => PostsInv'
<1> DEFINE t == rpTail[c]
           new == AfterPost(t)
<1>1. TailInv(t) /\ rpLlm \in Int
  BY DEF PostsInv, TailsInv, BacklogInv
<1>2. TailInv(new) /\ new.pc \in {"ended", "opinion"}
  BY <1>1, AfterPostInv
<1> HIDE DEF new
<1>3. rpLlm' = rpLlm + (IF At(c, {"asking"}) THEN 1 ELSE 0)
                     - (IF new.pc = "asking" THEN 1 ELSE 0)
  BY <1>1, <1>2 DEF At
<1>4. rpTail' = [rpTail EXCEPT ![c] = new]
  BY DEF new
<1>5. TailsInv' /\ BacklogInv'
  BY <1>2, <1>3, <1>4, OneTailMoves
<1>6. new.pc # "running" /\ new.pc \notin PostSteps
  BY <1>2 DEF PostSteps
<1>7. ASSUME UNCHANGED <<rpLease, rpRow, rpStory>>, rpDeps' = rpDeps,
             \A r \in rpStray' : r.by \in Claims
      PROVE  PostsInv'
  BY <1>2, <1>3, <1>4, <1>6, <1>7, QuietMove
<1> QED BY <1>5, <1>7

LEMMA StoredInv ==
    ASSUME PostsInv, NEW c \in Claims, Stored(c)
    PROVE  PostsInv'
<1> DEFINE story == rpStory[c]
           amended == rpTail[c].kind = "amended"
           told == [story EXCEPT !.amended = amended]
<1>1. TailsInv' /\ BacklogInv' /\ Keeps(c, rpTail[c].kind) /\ rpStray' = rpStray
      /\ rpStory' = [rpStory EXCEPT ![c] = told]
  BY GoesOn DEF Stored
<1>2. story = [heard |-> story.heard, missed |-> story.missed, amended |-> story.amended]
  BY DEF PostsInv, StoriesInv
<1> HIDE DEF story, amended
<1>3. told = [heard |-> told.heard, missed |-> told.missed, amended |-> told.amended]
  BY <1>2
<1> HIDE DEF told
<1>4. StoriesInv'
  BY <1>1, <1>3 DEF PostsInv, StoriesInv
<1>5. \A r \in rpStray' : r.by \in Claims
  BY <1>1 DEF PostsInv, HopperInv
<1> QED BY <1>1, <1>4, <1>5, KeptMove

LEMMA RejectedInv ==
    ASSUME PostsInv, NEW c \in Claims, Rejected(c)
    PROVE  PostsInv'
<1>1. \A r \in rpStray' : r.by \in Claims
  BY DEF Rejected, PostsInv, HopperInv
<1> QED BY <1>1, GoesOn DEF Rejected

LEMMA UnansweredInv ==
    ASSUME PostsInv, NEW c \in Claims, NEW fate, Unanswered(c, fate)
    PROVE  PostsInv'
<1> DEFINE t == rpTail[c]
           zero == 0
           again == [t EXCEPT !.pc = "posting", !.tried = zero]
           new == IF RetriesLeft(c) THEN again ELSE AfterPost(t)
<1>1. /\ At(c, {"sent"}) /\ TailInv(t) /\ rpTail' = [rpTail EXCEPT ![c] = new]
      /\ rpLlm' = rpLlm /\ rpStory' = rpStory /\ rpLlm \in Int /\ (rpDeps' <=> rpDeps)
      /\ IF fate = "kept" THEN Keeps(c, t.kind) ELSE UNCHANGED <<rpRow, rpLease>>
  BY DEF Unanswered, PostsInv, TailsInv, BacklogInv, Mirrors
<1>2. \A r \in rpStray' : r.by \in Claims
  <2>1. rpStray' = rpStray \/ rpStray' = rpStray \cup {[by |-> c, kind |-> rpTail[c].kind]}
    BY DEF Unanswered
  <2> QED BY <2>1 DEF PostsInv, HopperInv
<1>3. TailRecord(again) /\ again.pc = "posting" /\ again.kind = t.kind /\ again.age = t.age
      /\ again.tried = zero /\ zero = 0
  <2>1. zero = 0 OBVIOUS
  <2> HIDE DEF t, zero
  <2> QED BY <1>1, <2>1 DEF TailInv, TailRecord, TailFields
<1>4. RetriesLeft(c) => TailInv(again)
  <2> HIDE DEF again
  <2> QED BY <1>1, <1>3, Times DEF TailInv, PostSteps, RetriesLeft
<1>5. TailInv(AfterPost(t)) /\ AfterPost(t).pc \in {"ended", "opinion"}
  BY <1>1, AfterPostInv
<1>6. \/ new = again /\ RetriesLeft(c)
      \/ new = AfterPost(t)
  OBVIOUS
<1> HIDE DEF new, again
<1>7. TailInv(new) /\ new.pc \in {"posting", "ended", "opinion"}
      /\ (new.pc = "posting" => new.kind = t.kind /\ new.age = t.age)
  BY <1>3, <1>4, <1>5, <1>6
<1>8. rpLlm' = rpLlm + (IF At(c, {"asking"}) THEN 1 ELSE 0)
                     - (IF new.pc = "asking" THEN 1 ELSE 0)
  BY <1>1, <1>7 DEF At
<1>9. CASE fate = "kept"
  <2>1. TailsInv' /\ BacklogInv'
    BY <1>1, <1>7, <1>8, OneTailMoves
  <2>2. StoriesInv'
    BY <1>1 DEF PostsInv, StoriesInv
  <2> QED BY <1>1, <1>2, <1>9, <2>1, <2>2, KeptMove
<1>10. CASE fate # "kept"
  <2>1. InPost(c) /\ new.pc # "running" /\ (new.pc \in PostSteps => new.pc = "posting")
    BY <1>1, <1>7 DEF InPost, At, PostSteps
  <2> QED BY <1>1, <1>2, <1>7, <1>8, <1>10, <2>1, QuietMove
<1> QED BY <1>9, <1>10

LEMMA StrayEndsInv ==
    ASSUME PostsInv, NEW r \in rpStray, NEW kept \in BOOLEAN, StrayEnds(r, kept)
    PROVE  PostsInv'
<1>1. /\ rpStray' = rpStray \ {r} /\ UNCHANGED <<rpTail, rpLlm, rpDeps, rpStory>>
      /\ IF kept THEN Keeps(r.by, r.kind) ELSE UNCHANGED <<rpRow, rpLease>>
  BY DEF StrayEnds
<1>2. TailsInv' /\ BacklogInv' /\ StoriesInv'
  BY <1>1 DEF PostsInv, TailsInv, TailInv, TailRecord, BacklogInv, Asking, At, StoriesInv
<1>3. r.by \in Claims /\ \A s \in rpStray' : s.by \in Claims
  BY <1>1 DEF PostsInv, HopperInv
<1>4. CASE kept
  BY <1>1, <1>2, <1>3, <1>4, KeptMove
<1>5. CASE ~kept
  <2>1. HopperInv'
    BY <1>1, <1>3, <1>5 DEF PostsInv, HopperInv, DependenciesFollowTheirRow
  <2>2. \A c \in Claims : LeaseInv(c)'
    BY <1>1, <1>5 DEF PostsInv, LeaseInv, At, InPost
  <2> QED BY <1>2, <2>1, <2>2 DEF PostsInv
<1> QED BY <1>4, <1>5

LEMMA AskModelInv ==
    ASSUME PostsInv, NEW c \in Claims, AskModel(c)
    PROVE  PostsInv'
<1> DEFINE t == rpTail[c]
           new == [t EXCEPT !.pc = "asking"]
<1>1. /\ t.pc = "opinion" /\ rpTail' = [rpTail EXCEPT ![c] = new] /\ TailInv(t)
      /\ UNCHANGED <<rpLease, rpRow, rpStray, rpDeps, rpStory>>
      /\ rpLlm' = rpLlm - 1 /\ rpLlm \in Int
  BY DEF AskModel, TailGoes, At, PostsInv, TailsInv, BacklogInv
<1>2. TailRecord(new) /\ new.pc = "asking" /\ new.kind = t.kind /\ new.age = t.age
      /\ new.tried = t.tried
  <2> HIDE DEF t
  <2> QED BY <1>1 DEF TailInv, TailRecord, TailFields
<1> HIDE DEF new
<1>3. TailInv(new) /\ new.pc # "running" /\ new.pc \notin PostSteps
  BY <1>1, <1>2 DEF TailInv, PostSteps
<1>4. rpLlm' = rpLlm + (IF At(c, {"asking"}) THEN 1 ELSE 0)
                     - (IF new.pc = "asking" THEN 1 ELSE 0)
  BY <1>1, <1>2 DEF At
<1>5. /\ rpTail' = [rpTail EXCEPT ![c] = new] /\ (rpDeps' <=> rpDeps)
      /\ UNCHANGED <<rpLease, rpRow, rpStory>> /\ \A r \in rpStray' : r.by \in Claims
  BY <1>1 DEF PostsInv, HopperInv
<1> QED BY <1>3, <1>4, <1>5, QuietMove

\* A tail is over, and with it the call it may have been making.
LEMMA TailEnds ==
    ASSUME PostsInv, NEW c \in Claims,
           rpTail' = [rpTail EXCEPT ![c] = [NoTail EXCEPT !.pc = "ended"]],
           rpLlm' = rpLlm + (IF At(c, {"asking"}) THEN 1 ELSE 0)
    PROVE  /\ TailsInv' /\ BacklogInv' /\ ~At(c, {"running"})' /\ ~InPost(c)'
           /\ \A d \in Claims \ {c} : rpTail'[d] = rpTail[d]
<1> DEFINE new == [NoTail EXCEPT !.pc = "ended"]
<1>1. TailInv(new) /\ new.pc = "ended"
  BY NewTail
<1> HIDE DEF new
<1>2. rpTail' = [rpTail EXCEPT ![c] = new]
  BY DEF new
<1>3. rpLlm' = rpLlm + (IF At(c, {"asking"}) THEN 1 ELSE 0)
                     - (IF new.pc = "asking" THEN 1 ELSE 0)
  BY <1>1 DEF PostsInv, BacklogInv
<1>4. /\ TailsInv' /\ BacklogInv' /\ rpTail'[c] = new
      /\ \A d \in Claims \ {c} : rpTail'[d] = rpTail[d]
  BY <1>1, <1>2, <1>3, OneTailMoves
<1> QED BY <1>1, <1>4 DEF At, InPost

LEMMA QuietEnd ==
    ASSUME PostsInv, NEW c \in Claims,
           rpTail' = [rpTail EXCEPT ![c] = [NoTail EXCEPT !.pc = "ended"]],
           rpLlm' = rpLlm + (IF At(c, {"asking"}) THEN 1 ELSE 0),
           UNCHANGED <<rpRow, rpStray, rpDeps, rpStory>>,
           rpLease' = rpLease \/ (rpLease.to = c /\ rpLease' = [to |-> Nobody, age |-> 0])
    PROVE  PostsInv'
<1>1. /\ TailsInv' /\ BacklogInv' /\ ~At(c, {"running"})' /\ ~InPost(c)'
      /\ \A d \in Claims \ {c} : rpTail'[d] = rpTail[d]
  BY TailEnds
<1>2. StoriesInv' /\ HopperInv'
  BY Times DEF PostsInv, StoriesInv, HopperInv, DependenciesFollowTheirRow
<1>3. ASSUME NEW d \in Claims PROVE LeaseInv(d)'
  <2>1. CASE d = c
    BY <1>1, <2>1 DEF LeaseInv
  <2>2. CASE d # c
    BY <1>1, <2>2 DEF PostsInv, LeaseInv, At, InPost
  <2> QED BY <2>1, <2>2
<1> QED BY <1>1, <1>2, <1>3 DEF PostsInv

LEMMA SkipOpinionInv ==
    ASSUME PostsInv, NEW c \in Claims, SkipOpinion(c)
    PROVE  PostsInv'
<1>1. rpLlm' = rpLlm + (IF At(c, {"asking"}) THEN 1 ELSE 0)
  BY DEF SkipOpinion, At, PostsInv, BacklogInv
<1> QED BY <1>1, QuietEnd DEF SkipOpinion

LEMMA HearModelInv ==
    ASSUME PostsInv, NEW c \in Claims, NEW changed \in BOOLEAN, HearModel(c, changed)
    PROVE  PostsInv'
<1>1. /\ At(c, {"asking"}) /\ rpLlm' = rpLlm + 1 /\ rpLlm \in Int
      /\ UNCHANGED <<rpLease, rpRow, rpStray, rpDeps, rpStory>>
  BY DEF HearModel, PermitFreed, PostsInv, BacklogInv
<1>2. CASE ~changed
  <2>1. rpTail' = [rpTail EXCEPT ![c] = [NoTail EXCEPT !.pc = "ended"]]
    BY <1>2 DEF HearModel
  <2>2. rpLlm' = rpLlm + (IF At(c, {"asking"}) THEN 1 ELSE 0)
    BY <1>1
  <2> QED BY <1>1, <2>1, <2>2, QuietEnd
<1>3. CASE changed
  <2> DEFINE t == rpTail[c]
             zero == 0
             new == [t EXCEPT !.pc = "posting", !.kind = "amended", !.age = zero, !.tried = zero]
  <2>1. rpTail' = [rpTail EXCEPT ![c] = new]
    BY <1>3 DEF HearModel
  <2>2. TailRecord(t) /\ zero = 0
    BY DEF PostsInv, TailsInv, TailInv
  <2> HIDE DEF t, zero
  <2>3. TailRecord(new) /\ new.pc = "posting" /\ new.kind = "amended" /\ new.age = zero
        /\ new.tried = zero
    BY <2>2 DEF TailRecord, TailFields
  <2> HIDE DEF new
  <2>4. TailInv(new)
    BY <2>2, <2>3, Times DEF TailInv, PostSteps, Kinds
  <2>5. rpLlm' = rpLlm + (IF At(c, {"asking"}) THEN 1 ELSE 0)
                       - (IF new.pc = "asking" THEN 1 ELSE 0)
    BY <1>1, <2>3
  <2>6. (rpDeps' <=> rpDeps) /\ \A r \in rpStray' : r.by \in Claims
    BY <1>1 DEF PostsInv, HopperInv
  <2> QED BY <1>1, <2>1, <2>3, <2>4, <2>5, <2>6, QuietMove
<1> QED BY <1>2, <1>3

LEMMA PerishInv ==
    ASSUME PostsInv, NEW c \in Claims, NEW registers \in BOOLEAN, Perish(c, registers)
    PROVE  PostsInv'
<1>1. rpLlm' = rpLlm + (IF At(c, {"asking"}) THEN 1 ELSE 0)
  BY DEF Perish, PostsInv, BacklogInv
<1>2. rpLease' = rpLease \/ (rpLease.to = c /\ rpLease' = [to |-> Nobody, age |-> 0])
  BY DEF Perish
<1> QED BY <1>1, <1>2, QuietEnd DEF Perish

LEMMA PassInv ==
    ASSUME PostsInv, NEW lost \in SUBSET Claims, Pass(lost)
    PROVE  PostsInv'
<1> DEFINE one == 1
           older(t) == [t EXCEPT !.age = Older(t.age), !.tried = one]
<1>1. /\ \A c \in Claims : InPost(c) => rpTail[c].tried = 0
      /\ rpTail' = [c \in Claims |-> IF InPost(c) THEN older(rpTail[c]) ELSE rpTail[c]]
      /\ rpStory' = [c \in Claims |-> IF At(c, {"running"}) /\ c \in lost
                                      THEN [rpStory[c] EXCEPT !.missed = TRUE] ELSE rpStory[c]]
      /\ UNCHANGED <<rpRow, rpStray, rpLlm, rpDeps>>
  BY DEF Pass
<1>2. ASSUME NEW t, TailInv(t), t.pc \in PostSteps, t.tried = 0
      PROVE  /\ TailInv(older(t)) /\ older(t).pc = t.pc /\ older(t).kind = t.kind
             /\ older(t).age = Older(t.age) /\ Older(t.age) = t.age + 1
  <2> DEFINE age == Older(t.age)
             new == [t EXCEPT !.age = age, !.tried = one]
  <2>1. TailRecord(t) /\ one = 1 /\ t.age <= RetryBudget /\ t.age \in Nat
    BY <1>2, Times DEF TailInv
  <2>2. age = t.age + 1
    BY <2>1, Times DEF Older
  <2>3. older(t) = new /\ age = Older(t.age)
    OBVIOUS
  <2> HIDE DEF one, age, older
  <2>4. TailRecord(new) /\ new.pc = t.pc /\ new.kind = t.kind /\ new.age = age
        /\ new.tried = one
    BY <2>1 DEF TailRecord, TailFields
  <2> HIDE DEF new
  <2>5. TailInv(new)
    BY <1>2, <2>1, <2>2, <2>4, Times DEF TailInv, PostSteps
  <2> QED BY <2>2, <2>3, <2>4, <2>5
<1> HIDE DEF older
<1>3. ASSUME NEW c \in Claims
      PROVE  /\ TailInv(rpTail'[c]) /\ rpTail'[c].pc = rpTail[c].pc
             /\ rpTail'[c].kind = rpTail[c].kind
             /\ InPost(c) => rpTail'[c].age = rpTail[c].age + 1 /\ rpTail[c].age < LeaseTime
                             /\ rpTail[c].age \in Nat
  <2>1. TailInv(rpTail[c])
    BY DEF PostsInv, TailsInv
  <2>2. CASE InPost(c)
    <3>1. PICK t : t = rpTail[c]
      OBVIOUS
    <3>2. TailInv(t) /\ t.pc \in PostSteps /\ t.tried = 0 /\ rpTail'[c] = older(t)
      BY <1>1, <2>1, <2>2, <3>1 DEF InPost, At, PostSteps
    <3>3. /\ TailInv(older(t)) /\ older(t).pc = t.pc /\ older(t).kind = t.kind
          /\ older(t).age = t.age + 1
      BY <1>2, <3>2
    <3>4. t.age \in Nat /\ t.age < LeaseTime
      BY <3>2, Times DEF TailInv
    <3> QED BY <3>1, <3>2, <3>3, <3>4
  <2>3. CASE ~InPost(c)
    BY <1>1, <2>1, <2>3
  <2> QED BY <2>2, <2>3
<1>4. TailsInv'
  <2>1. rpTail' = [c \in Claims |-> rpTail'[c]]
    BY <1>1
  <2> QED BY <1>3, <2>1 DEF TailsInv, TailInv, TailRecord
<1>5. BacklogInv'
  BY <1>1, <1>3 DEF PostsInv, BacklogInv, Asking, At
<1>6. StoriesInv' /\ \A c \in Claims :
          /\ rpStory'[c].heard <=> rpStory[c].heard
          /\ rpStory'[c].missed <=> rpStory[c].missed \/ (At(c, {"running"}) /\ c \in lost)
  <2>1. ASSUME NEW c \in Claims
        PROVE  /\ rpStory'[c] = [heard |-> rpStory'[c].heard, missed |-> rpStory'[c].missed,
                                 amended |-> rpStory'[c].amended]
               /\ rpStory'[c].heard <=> rpStory[c].heard
               /\ rpStory'[c].missed
                    <=> rpStory[c].missed \/ (At(c, {"running"}) /\ c \in lost)
    <3>1. PICK s : s = rpStory[c]
      OBVIOUS
    <3>2. s = [heard |-> s.heard, missed |-> s.missed, amended |-> s.amended]
      BY <3>1 DEF PostsInv, StoriesInv
    <3>3. CASE At(c, {"running"}) /\ c \in lost
      <4>1. rpStory'[c] = [s EXCEPT !.missed = TRUE]
        BY <1>1, <3>1, <3>3
      <4>2. rpStory'[c] = [heard |-> s.heard, missed |-> TRUE, amended |-> s.amended]
        BY <3>2, <4>1
      <4> QED BY <3>1, <3>3, <4>2
    <3>4. CASE ~(At(c, {"running"}) /\ c \in lost)
      BY <1>1, <3>1, <3>2, <3>4
    <3> QED BY <3>3, <3>4
  <2>2. rpStory' = [c \in Claims |-> rpStory'[c]]
    BY <1>1
  <2> QED BY <2>1, <2>2 DEF StoriesInv
<1> DEFINE renewed == rpLease.to = Nobody \/ rpLease.to \in ActiveShas \ lost
           age == IF renewed THEN 0 ELSE Older(rpLease.age)
<1>7. /\ rpLease' = [rpLease EXCEPT !.age = age] /\ rpLease.age \in 0..LeaseTime
      /\ DOMAIN rpLease = {"to", "age"} /\ rpLease = [field \in DOMAIN rpLease |-> rpLease[field]]
  BY DEF Pass, PostsInv, HopperInv
<1>8. /\ age \in 0..LeaseTime /\ (renewed => age = 0) /\ age <= rpLease.age + 1
      /\ age = 0 \/ ~renewed
  BY <1>7, Times DEF Older
<1>9. \A c \in Claims : At(c, {"running"}) /\ c \notin lost /\ rpLease.to = c => renewed
  BY DEF ActiveShas
<1> HIDE DEF renewed, age
<1>10. /\ rpLease'.to = rpLease.to /\ rpLease'.age = age
       /\ DOMAIN rpLease' = {"to", "age"}
       /\ rpLease' = [field \in DOMAIN rpLease' |-> rpLease'[field]]
  BY <1>7
<1>11. HopperInv'
  BY <1>1, <1>8, <1>10 DEF PostsInv, HopperInv, DependenciesFollowTheirRow
<1>12. ASSUME NEW c \in Claims PROVE LeaseInv(c)'
  <2> SUFFICES ASSUME rpRow = NoRow
      PROVE  /\ At(c, {"running"})' /\ ~rpStory'[c].missed =>
                  rpLease'.to = c /\ rpLease'.age < LeaseTime
             /\ InPost(c)' /\ rpTail'[c].kind # "amended" /\ rpStory'[c].heard =>
                  rpLease'.to = c /\ rpLease'.age <= rpTail'[c].age
    BY <1>1 DEF LeaseInv
  <2>1. LeaseInv(c) /\ (At(c, {"running"})' <=> At(c, {"running"}))
        /\ (InPost(c)' <=> InPost(c))
    BY <1>3 DEF PostsInv, At, InPost
  <2>2. ASSUME At(c, {"running"})', ~rpStory'[c].missed
        PROVE  rpLease'.to = c /\ rpLease'.age < LeaseTime
    <3>1. At(c, {"running"}) /\ c \notin lost /\ rpLease.to = c
      BY <1>6, <2>1, <2>2 DEF LeaseInv
    <3>2. age = 0
      BY <1>8, <1>9, <3>1
    <3> QED BY <1>10, <3>1, <3>2, Times
  <2>3. ASSUME InPost(c)', rpTail'[c].kind # "amended", rpStory'[c].heard
        PROVE  rpLease'.to = c /\ rpLease'.age <= rpTail'[c].age
    <3>1. /\ rpLease.to = c /\ rpLease.age <= rpTail[c].age /\ rpTail[c].age \in Nat
          /\ rpTail'[c].age = rpTail[c].age + 1
      BY <1>3, <1>6, <2>1, <2>3 DEF LeaseInv
    <3> QED BY <1>7, <1>8, <1>10, <3>1
  <2> QED BY <2>2, <2>3
<1> QED BY <1>4, <1>5, <1>6, <1>11, <1>12 DEF PostsInv

LEMMA PostsStart == PostsInit => PostsInv
<1> SUFFICES ASSUME PostsInit PROVE PostsInv
  OBVIOUS
<1>1. TailsInv
  <2>1. PICK t : t = NoTail
    OBVIOUS
  <2>2. TailRecord(t) /\ t.pc = "none" /\ t.kind = "verdict" /\ t.age = 0 /\ t.tried = 0
    BY <2>1 DEF NoTail, TailRecord, TailFields
  <2>3. TailInv(t)
    BY <2>2, Times DEF TailInv, Kinds, PostSteps
  <2> QED BY <2>1, <2>3 DEF TailsInv, PostsInit
<1>2. \A c \in Claims : rpTail[c].pc = "none"
  BY DEF PostsInit, NoTail
<1>3. BacklogInv
  <2>1. Asking = {}
    BY <1>2 DEF Asking, At
  <2> QED BY <2>1, FS_EmptySet, PostsAssumption DEF BacklogInv, PostsInit
<1>4. StoriesInv /\ HopperInv
  BY Times DEF PostsInit, StoriesInv, NoStory, HopperInv, NoRow, DependenciesFollowTheirRow
<1>5. \A c \in Claims : LeaseInv(c)
  BY <1>2 DEF LeaseInv, At, InPost
<1> QED BY <1>1, <1>3, <1>4, <1>5 DEF PostsInv

LEMMA PostsStep == PostsInv /\ [PostsNext]_postVars => PostsInv'
<1> SUFFICES ASSUME PostsInv, [PostsNext]_postVars PROVE PostsInv'
  OBVIOUS
<1>1. ASSUME NEW c \in Claims, TailStep(c) PROVE PostsInv'
  BY <1>1, SendInv, StoredInv, RejectedInv, AskModelInv, SkipOpinionInv, UnansweredInv,
     HearModelInv DEF TailStep
<1>2. ASSUME NEW c \in Claims, ClaimRow(c) \/ RunJob(c) PROVE PostsInv'
  BY <1>2, ClaimRowInv, RunJobInv
<1>3. ASSUME NEW c \in Claims, NEW out \in Outcomes, EndJob(c, out) PROVE PostsInv'
  BY <1>3, EndJobInv
<1>4. ASSUME NEW c \in Claims, NEW registers \in BOOLEAN, Perish(c, registers) PROVE PostsInv'
  BY <1>4, PerishInv
<1>5. ASSUME NEW r \in rpStray, NEW kept \in BOOLEAN, StrayEnds(r, kept) PROVE PostsInv'
  BY <1>5, StrayEndsInv
<1>6. ASSUME NEW lost \in SUBSET Claims, Pass(lost) PROVE PostsInv'
  BY <1>6, PassInv
<1>7. CASE UNCHANGED postVars
  BY <1>7 DEF postVars, PostsInv, TailsInv, TailInv, TailRecord, BacklogInv, Asking, At,
     StoriesInv, HopperInv, DependenciesFollowTheirRow, LeaseInv, InPost
<1>8. CASE PostsNext
  BY <1>1, <1>2, <1>3, <1>4, <1>5, <1>6, <1>8 DEF PostsNext
<1> QED BY <1>7, <1>8

LEMMA LeasesHold == PostsInv => LeasesAreKept
<1> SUFFICES ASSUME PostsInv PROVE LeasesAreKept
  OBVIOUS
<1>1. PostsTypeOK
  BY DEF PostsInv, TailsInv, TailInv, HopperInv, BacklogInv, Asking, PostsTypeOK
<1>2. RunsUnderItsLease
  BY DEF PostsInv, LeaseInv, RunsUnderItsLease
<1>3. PostsUnderItsLease
  BY DEF PostsInv, LeaseInv, PostsUnderItsLease
<1>4. DependenciesFollowTheirRow
  BY DEF PostsInv, HopperInv
<1> QED BY <1>1, <1>2, <1>3, <1>4 DEF LeasesAreKept

\* In every reachable state, for any claims and any times with a budget that is shorter than
\* the lease, the lease of a post is no older than the post.
THEOREM PostsInvariant == PostsSpec => []PostsInv
BY PostsStart, PostsStep, PTL DEF PostsSpec

\* A worker works on a sample, and posts about it, while the sample is its own
\* (send_result's RETRY_BUDGET against hopper's lease, heartbeat_loop).
THEOREM LeasesStayKept == PostsSpec => []LeasesAreKept
BY PostsInvariant, LeasesHold, PTL

----------------------------------------------------------------------------
(* The local index                                                        *)

JobFields == {"pc", "staged", "queue", "verified", "stat", "reads"}
Job(me) == DOMAIN me = JobFields /\ me = [field \in DOMAIN me |-> me[field]]

\* A file's time of change is that of one of the changes so far.
FilesInv ==
    /\ liWrites \in Nat
    /\ liFile = [f \in Paths |-> liFile[f]]
    /\ \A f \in Paths : liFile[f].changed \in Nat /\ liFile[f].changed <= liWrites

\* A cached hash is of the past, or is that of the bytes.
CacheInv ==
    /\ liCache = [f \in Paths |-> liCache[f]]
    /\ \A f \in Paths : liCache[f] # Gone =>
         /\ liCache[f].changed \in Nat /\ liCache[f].changed <= liFile[f].changed
         /\ liCache[f].changed = liFile[f].changed => liCache[f].digest = liFile[f].bytes

IndexedInv ==
    /\ DOMAIN liIndex \subseteq Paths
    /\ liVerified = [d \in Digests |-> liVerified[d]]
    /\ \A d \in Digests : liVerified[d] \in Paths \cup {Gone}

\* What a search has seen: the files that have the digest now had it at some time, and
\* those that have had it all along have it now.
Searches(me) == me.pc \in {"search", "stat", "hash", "disk"}
SeenInv(j, held) ==
    /\ \A f \in Paths : liFile[f].bytes = WantOf[j] => f \in held.once
    /\ \A f \in held.throughout : liFile[f].bytes = WantOf[j]

JobInv(j, me, held) ==
    /\ Job(me) /\ me.verified \in BOOLEAN
    /\ me.pc \in {"claimed", "search", "stat", "hash", "disk", "ended", "failed"}
    /\ me.pc = "claimed" => held.throughout = {}
    /\ Searches(me) => SeenInv(j, held)
    /\ me.pc \in {"stat", "hash"} => me.queue \subseteq Paths
    /\ me.pc = "hash" =>
         /\ me.queue # {} /\ me.stat.changed \in Nat
         /\ me.stat.changed <= liFile[FirstOf(me.queue)].changed
    /\ me.pc = "ended" =>
         /\ me.reads # Gone => me.reads \in held.once
         /\ PathOf[j] \in held.throughout => me.reads # Gone
    /\ me.pc = "failed" /\ PathOf[j] \in held.throughout => me.staged = "unreadable"

JobsInv ==
    /\ liJob = [j \in Lookers |-> liJob[j]] /\ liHeld = [j \in Lookers |-> liHeld[j]]
    /\ \A j \in Lookers : JobInv(j, liJob[j], liHeld[j])

IndexInv == FilesInv /\ CacheInv /\ IndexedInv /\ JobsInv

\* The least of some numbers.
LEMMA LeastOf ==
    ASSUME NEW S \in SUBSET Nat, S # {}
    PROVE  Min(S) \in S /\ \A y \in S : Min(S) <= y
<1> DEFINE Less == OpToRel(<, Nat)
<1>1. IsWellFoundedOn(Less, Nat)
  BY Zenon, NatLessThanWellFounded
<1>2. \A x, y \in Nat : x < y => <<x, y>> \in Less
  BY Zenon DEF OpToRel
<1> HIDE DEF Less
<1>3. PICK x \in S : \A y \in S : ~ (<<y, x>> \in Less)
  BY <1>1, WFMin
<1>4. ASSUME NEW y \in S PROVE x <= y
  <2>1. x \in Nat /\ y \in Nat
    OBVIOUS
  <2>2. ~ (y < x)
    BY <1>2, <1>3, <2>1
  <2> QED
    BY <2>1, <2>2
<1> QED
  BY <1>3, <1>4 DEF Min

\* The first of some paths is one of them.
LEMMA FirstIsOne ==
    ASSUME NEW paths \in SUBSET Paths, paths # {}
    PROVE  FirstOf(paths) \in paths
<1> DEFINE ids == {id \in DOMAIN Files : Files[id] \in paths}
<1>1. ids \in SUBSET Nat /\ ids # {}
  <2>1. DOMAIN Files = 1..Len(Files) /\ Len(Files) \in Nat
    BY IndexAssumption, LenProperties
  <2>2. PICK f \in paths : f \in Range(Files)
    BY DEF Paths
  <2>3. PICK id \in DOMAIN Files : Files[id] = f
    BY <2>2 DEF Range
  <2> QED
    BY <2>1, <2>2, <2>3
<1>2. Min(ids) \in ids
  <2> HIDE DEF ids
  <2> QED
    BY <1>1, LeastOf
<1> QED
  BY <1>2 DEF FirstOf

\* A step of one job that leaves the file system alone.
LEMMA OneJobMoves ==
    ASSUME IndexInv, NEW j \in Lookers, NEW STATE new, NEW STATE held,
           liJob' = [liJob EXCEPT ![j] = new], liHeld' = [liHeld EXCEPT ![j] = held],
           liFile' = liFile, liWrites' = liWrites, JobInv(j, new, held)
    PROVE  JobsInv' /\ FilesInv'
<1>1. FilesInv'
  BY DEF IndexInv, FilesInv
<1>2. /\ liJob' = [i \in Lookers |-> liJob'[i]] /\ liHeld' = [i \in Lookers |-> liHeld'[i]]
      /\ liJob'[j] = new /\ liHeld'[j] = held
      /\ \A i \in Lookers \ {j} : liJob'[i] = liJob[i] /\ liHeld'[i] = liHeld[i]
  BY DEF IndexInv, JobsInv
<1>3. ASSUME NEW i \in Lookers PROVE JobInv(i, liJob[i], liHeld[i])'
  <2>1. PICK me, seen : me = liJob'[i] /\ seen = liHeld'[i]
    OBVIOUS
  <2>2. JobInv(i, me, seen)
    BY <1>2, <2>1 DEF IndexInv, JobsInv
  <2>3. JobInv(i, me, seen)'
    BY <2>2 DEF JobInv, SeenInv
  <2> QED BY <2>1, <2>3 DEF JobInv, SeenInv
<1> QED BY <1>1, <1>2, <1>3 DEF JobsInv

LEMMA ChangeInv ==
    ASSUME IndexInv, NEW f \in Paths, NEW bytes, Change(f, bytes)
    PROVE  IndexInv'
<1> DEFINE file == [bytes |-> bytes, changed |-> liWrites + 1]
           seen(j) == [once |-> liHeld[j].once \cup IF bytes = WantOf[j] THEN {f} ELSE {},
                       throughout |-> liHeld[j].throughout \ {f}]
<1>1. /\ liWrites' = liWrites + 1 /\ liFile' = [liFile EXCEPT ![f] = file]
      /\ liHeld' = [j \in Lookers |-> seen(j)]
      /\ liIndex' = liIndex /\ liVerified' = liVerified /\ liCache' = liCache /\ liJob' = liJob
  BY DEF Change
<1>2. FilesInv /\ CacheInv /\ IndexedInv /\ JobsInv /\ liWrites \in Nat
  BY DEF IndexInv, FilesInv
<1>3. /\ file.bytes = bytes /\ file.changed = liWrites + 1
      /\ liFile' = [g \in Paths |-> liFile'[g]] /\ liFile'[f] = file
      /\ \A g \in Paths \ {f} : liFile'[g] = liFile[g]
  BY <1>1, <1>2 DEF FilesInv
<1> HIDE DEF file
<1>4. FilesInv'
  BY <1>1, <1>2, <1>3 DEF FilesInv
<1>5. CacheInv'
  <2> SUFFICES ASSUME NEW g \in Paths, liCache[g] # Gone
               PROVE  /\ liCache[g].changed \in Nat /\ liCache[g].changed <= liFile'[g].changed
                      /\ liCache[g].changed = liFile'[g].changed
                           => liCache[g].digest = liFile'[g].bytes
    BY <1>1, <1>2 DEF CacheInv
  <2>1. CASE g = f
    <3>1. /\ liCache[g].changed \in Nat /\ liCache[g].changed <= liFile[g].changed
          /\ liFile[g].changed \in Nat /\ liFile[g].changed <= liWrites
      BY <1>2 DEF CacheInv, FilesInv
    <3> QED BY <1>2, <1>3, <2>1, <3>1
  <2>2. CASE g # f
    BY <1>2, <1>3, <2>2 DEF CacheInv
  <2> QED BY <2>1, <2>2
<1>6. ASSUME NEW j \in Lookers PROVE JobInv(j, liJob[j], liHeld[j])'
  <2>1. PICK me, held : me = liJob[j] /\ held = seen(j)
    OBVIOUS
  <2>2. JobInv(j, me, liHeld[j])
    BY <1>2, <2>1 DEF JobsInv
  <2>3. /\ held.once = liHeld[j].once \cup IF bytes = WantOf[j] THEN {f} ELSE {}
        /\ held.throughout = liHeld[j].throughout \ {f}
    BY <2>1
  <2>4. liJob'[j] = me /\ liHeld'[j] = held
    BY <1>1, <2>1
  <2> HIDE DEF seen
  <2>5. /\ \A g \in Paths : liFile[g].changed <= liFile'[g].changed
        /\ \A g \in Paths : liFile[g].changed \in Nat /\ liFile'[g].changed \in Nat
    BY <1>2, <1>3, <1>4 DEF FilesInv
  <2>6. Job(me) /\ me.verified \in BOOLEAN
        /\ me.pc \in {"claimed", "search", "stat", "hash", "disk", "ended", "failed"}
        /\ (me.pc = "claimed" => held.throughout = {})
        /\ (me.pc \in {"stat", "hash"} => me.queue \subseteq Paths)
    BY <2>2, <2>3 DEF JobInv
  <2>7. Searches(me) => SeenInv(j, held)'
    <3> SUFFICES ASSUME Searches(me) PROVE SeenInv(j, held)'
      OBVIOUS
    <3>1. SeenInv(j, liHeld[j])
      BY <2>2 DEF JobInv
    <3>2. \A g \in Paths : liFile'[g].bytes = WantOf[j] => g \in held.once
      BY <1>3, <2>3, <3>1 DEF SeenInv
    <3>3. \A g \in held.throughout : liFile'[g].bytes = WantOf[j]
      BY <1>1, <2>3, <3>1 DEF SeenInv
    <3> QED BY <3>2, <3>3 DEF SeenInv
  <2>8. me.pc = "hash" =>
          /\ me.queue # {} /\ me.stat.changed \in Nat
          /\ me.stat.changed <= liFile'[FirstOf(me.queue)].changed
    BY <2>2, <2>5, <2>6, FirstIsOne DEF JobInv
  <2>9. /\ me.pc = "ended" =>
             /\ me.reads # Gone => me.reads \in held.once
             /\ PathOf[j] \in held.throughout => me.reads # Gone
        /\ me.pc = "failed" /\ PathOf[j] \in held.throughout => me.staged = "unreadable"
    BY <2>2, <2>3 DEF JobInv
  <2> QED BY <2>4, <2>6, <2>7, <2>8, <2>9 DEF JobInv, SeenInv
<1>7. JobsInv'
  BY <1>1, <1>2, <1>6 DEF JobsInv
<1> QED BY <1>1, <1>2, <1>4, <1>5, <1>7 DEF IndexInv, IndexedInv

LEMMA NobodyMoves ==
    ASSUME IndexInv, UNCHANGED <<liFile, liWrites, liVerified, liCache, liJob, liHeld>>,
           DOMAIN liIndex' \subseteq Paths
    PROVE  IndexInv'
<1>1. ASSUME NEW j \in Lookers PROVE JobInv(j, liJob[j], liHeld[j])'
  BY DEF IndexInv, JobsInv, JobInv, SeenInv
<1> QED BY <1>1 DEF IndexInv, FilesInv, CacheInv, IndexedInv, JobsInv

LEMMA CandidatesArePaths ==
    ASSUME IndexInv, NEW j \in Lookers
    PROVE  Candidates(j) \subseteq Paths
BY DEF IndexInv, IndexedInv, Candidates

LEMMA StageInv ==
    ASSUME IndexInv, NEW j \in Lookers, NEW downloaded \in BOOLEAN, Stage(j, downloaded)
    PROVE  IndexInv'
<1> DEFINE me == liJob[j]
           staged == IF Exists(PathOf[j]) THEN "local"
                     ELSE IF downloaded THEN "bytes" ELSE "transient"
           new == [me EXCEPT !.pc = "search", !.staged = staged]
           now == {f \in Paths : liFile[f].bytes = WantOf[j]}
           held == [once |-> now, throughout |-> now]
<1>1. /\ liJob' = [liJob EXCEPT ![j] = new] /\ liHeld' = [liHeld EXCEPT ![j] = held]
      /\ UNCHANGED <<liFile, liWrites, liIndex, liReady, liVerified, liCache>>
  BY DEF Stage, JobIs
<1>2. Job(me) /\ me.verified \in BOOLEAN
  BY DEF IndexInv, JobsInv, JobInv
<1>3. Job(new) /\ new.pc = "search" /\ new.verified = me.verified
  <2> HIDE DEF me, staged
  <2> QED BY <1>2 DEF Job, JobFields
<1>4. SeenInv(j, held)
  BY DEF SeenInv
<1> HIDE DEF me, new, held
<1>5. JobInv(j, new, held)
  BY <1>2, <1>3, <1>4 DEF JobInv
<1>6. JobsInv' /\ FilesInv'
  BY <1>1, <1>5, OneJobMoves
<1> QED BY <1>1, <1>6 DEF IndexInv, CacheInv, IndexedInv

LEMMA SearchInv ==
    ASSUME IndexInv, NEW j \in Lookers, Search(j)
    PROVE  IndexInv'
<1> DEFINE me == liJob[j]
           hit == liVerified[WantOf[j]]
           yes == TRUE
           one == {hit}
           disk == [me EXCEPT !.pc = "disk"]
           known == [me EXCEPT !.pc = "stat", !.queue = one, !.verified = yes]
           named == [me EXCEPT !.pc = "stat", !.queue = Candidates(j)]
           new == IF liReady # "yes" THEN disk ELSE IF hit # Gone THEN known ELSE named
<1>1. /\ liJob' = [liJob EXCEPT ![j] = new] /\ me.pc = "search"
      /\ UNCHANGED <<liFile, liWrites, liIndex, liReady, liVerified, liCache, liHeld>>
  BY DEF Search, JobIs
<1>2. /\ Job(me) /\ me.verified \in BOOLEAN /\ SeenInv(j, liHeld[j])
      /\ liHeld' = [liHeld EXCEPT ![j] = liHeld[j]]
  BY <1>1 DEF IndexInv, JobsInv, JobInv, Searches
<1>3. yes \in BOOLEAN /\ Candidates(j) \subseteq Paths /\ (hit # Gone => one \subseteq Paths)
  BY IndexAssumption, CandidatesArePaths DEF IndexInv, IndexedInv
<1> HIDE DEF me, hit, yes, one
<1>4. /\ Job(disk) /\ disk.pc = "disk" /\ disk.verified = me.verified
      /\ Job(named) /\ named.pc = "stat" /\ named.verified = me.verified
      /\ named.queue = Candidates(j)
  BY <1>2 DEF Job, JobFields
<1>5. Job(known) /\ known.pc = "stat" /\ known.verified = yes /\ known.queue = one
  BY <1>2 DEF Job, JobFields
<1> HIDE DEF disk, known, named
<1>6. JobInv(j, disk, liHeld[j]) /\ JobInv(j, named, liHeld[j])
      /\ (hit # Gone => JobInv(j, known, liHeld[j]))
  BY <1>2, <1>3, <1>4, <1>5 DEF JobInv
<1>7. JobInv(j, new, liHeld[j])
  BY <1>6
<1> HIDE DEF new
<1>8. JobsInv' /\ FilesInv'
  BY <1>1, <1>2, <1>7, OneJobMoves
<1> QED BY <1>1, <1>8 DEF IndexInv, CacheInv, IndexedInv

LEMMA FoundInv ==
    ASSUME IndexInv, NEW j \in Lookers, NEW f \in Paths, liFile[f].bytes = WantOf[j],
           Searches(liJob[j]), Found(j, f), UNCHANGED <<liFile, liWrites, liIndex, liHeld>>
    PROVE  JobsInv' /\ FilesInv' /\ IndexedInv'
<1> DEFINE base == NewJob
           new == [base EXCEPT !.pc = "ended", !.reads = f]
<1>1. /\ liJob' = [liJob EXCEPT ![j] = new]
      /\ liVerified' = [liVerified EXCEPT ![WantOf[j]] = f]
  BY DEF Found
<1>2. Job(base) /\ base.verified = FALSE
  BY DEF NewJob, Job, JobFields
<1>3. f \in liHeld[j].once /\ liHeld' = [liHeld EXCEPT ![j] = liHeld[j]]
  BY DEF IndexInv, JobsInv, JobInv, SeenInv
<1> HIDE DEF base
<1>4. Job(new) /\ new.pc = "ended" /\ new.verified = FALSE /\ new.reads = f
  BY <1>2 DEF Job, JobFields
<1> HIDE DEF new
<1>5. f # Gone /\ WantOf[j] \in Digests
  BY IndexAssumption DEF Paths
<1>6. JobInv(j, new, liHeld[j])
  BY <1>3, <1>4, <1>5 DEF JobInv, Searches
<1>7. JobsInv' /\ FilesInv'
  BY <1>1, <1>3, <1>6, OneJobMoves
<1>8. IndexedInv'
  BY <1>1, <1>5 DEF IndexInv, IndexedInv
<1> QED BY <1>7, <1>8

LEMMA NotThisInv ==
    ASSUME IndexInv, NEW j \in Lookers, liJob[j].pc \in {"stat", "hash"}, NotThis(j),
           UNCHANGED <<liFile, liWrites, liIndex, liHeld>>
    PROVE  JobsInv' /\ FilesInv' /\ IndexedInv'
<1> DEFINE me == liJob[j]
           no == FALSE
           names == Candidates(j)
           left == me.queue \ {Tried(j)}
           again == [me EXCEPT !.pc = "stat", !.queue = names, !.verified = no]
           next == [me EXCEPT !.pc = "stat", !.queue = left]
           new == IF me.verified THEN again ELSE next
<1>1. /\ liJob' = [liJob EXCEPT ![j] = new]
      /\ liVerified' = [liVerified EXCEPT ![WantOf[j]] = Gone] \/ liVerified' = liVerified
  BY DEF NotThis
<1>2. /\ Job(me) /\ me.verified \in BOOLEAN /\ SeenInv(j, liHeld[j]) /\ me.queue \subseteq Paths
      /\ liHeld' = [liHeld EXCEPT ![j] = liHeld[j]]
  BY DEF IndexInv, JobsInv, JobInv, Searches
<1>3. no = FALSE /\ names \subseteq Paths /\ left \subseteq Paths
  BY <1>2, CandidatesArePaths
<1> HIDE DEF me, no, names, left
<1>4. Job(again) /\ again.pc = "stat" /\ again.queue = names /\ again.verified = no
  BY <1>2 DEF Job, JobFields
<1>5. Job(next) /\ next.pc = "stat" /\ next.queue = left /\ next.verified = me.verified
  BY <1>2 DEF Job, JobFields
<1> HIDE DEF again, next
<1>6. JobInv(j, again, liHeld[j]) /\ JobInv(j, next, liHeld[j])
  BY <1>2, <1>3, <1>4, <1>5 DEF JobInv
<1>7. JobInv(j, new, liHeld[j])
  BY <1>6
<1> HIDE DEF new
<1>8. JobsInv' /\ FilesInv'
  BY <1>1, <1>2, <1>7, OneJobMoves
<1>9. IndexedInv'
  BY <1>1, IndexAssumption DEF IndexInv, IndexedInv
<1> QED BY <1>8, <1>9

LEMMA StatFileInv ==
    ASSUME IndexInv, NEW j \in Lookers, StatFile(j)
    PROVE  IndexInv'
<1> DEFINE me == liJob[j]
           f == Tried(j)
<1>1. /\ me.pc = "stat" /\ me.queue # {} /\ me.queue \subseteq Paths
      /\ UNCHANGED <<liFile, liWrites, liIndex, liReady, liCache, liHeld>>
  BY DEF StatFile, JobIs, IndexInv, JobsInv, JobInv
<1>2. f \in Paths
  BY <1>1, FirstIsOne DEF Tried
<1>3. CacheInv'
  BY <1>1 DEF IndexInv, CacheInv
<1>4. CASE Exists(f) /\ CacheHolds(f) /\ liCache[f].digest = WantOf[j]
  <2>1. Found(j, f)
    BY <1>4 DEF StatFile
  <2>2. liFile[f].bytes = WantOf[j]
    BY <1>2, <1>4 DEF CacheHolds, IndexInv, CacheInv
  <2> QED BY <1>1, <1>2, <1>3, <2>1, <2>2, FoundInv DEF IndexInv, Searches
<1>5. CASE ~Exists(f) \/ (CacheHolds(f) /\ liCache[f].digest # WantOf[j])
  <2>1. NotThis(j)
    BY <1>5 DEF StatFile
  <2> QED BY <1>1, <1>3, <2>1, NotThisInv DEF IndexInv
<1>6. CASE Exists(f) /\ ~CacheHolds(f)
  <2> DEFINE stat == [size |-> SizeAt(f), changed |-> liFile[f].changed]
             new == [me EXCEPT !.pc = "hash", !.stat = stat]
  <2>1. /\ liJob' = [liJob EXCEPT ![j] = new] /\ liVerified' = liVerified
    BY <1>6 DEF StatFile
  <2>2. /\ Job(me) /\ me.verified \in BOOLEAN /\ SeenInv(j, liHeld[j])
        /\ liHeld' = [liHeld EXCEPT ![j] = liHeld[j]]
    BY <1>1 DEF IndexInv, JobsInv, JobInv, Searches
  <2>3. stat.changed = liFile[FirstOf(me.queue)].changed /\ stat.changed \in Nat
    BY <1>2 DEF Tried, IndexInv, FilesInv
  <2> HIDE DEF me, stat
  <2>4. /\ Job(new) /\ new.pc = "hash" /\ new.stat = stat /\ new.verified = me.verified
        /\ new.queue = me.queue
    BY <2>2 DEF Job, JobFields
  <2> HIDE DEF new
  <2>5. JobInv(j, new, liHeld[j])
    BY <1>1, <2>2, <2>3, <2>4 DEF JobInv
  <2>6. JobsInv' /\ FilesInv'
    BY <1>1, <2>1, <2>2, <2>5, OneJobMoves
  <2> QED BY <1>1, <1>3, <2>1, <2>6 DEF IndexInv, IndexedInv
<1> QED BY <1>4, <1>5, <1>6

LEMMA FailsInv ==
    ASSUME IndexInv, NEW j \in Lookers, NEW why, Fails(j, why),
           UNCHANGED <<liFile, liWrites, liHeld>>,
           why = "unreadable" \/ PathOf[j] \notin liHeld[j].throughout
    PROVE  JobsInv' /\ FilesInv'
<1> DEFINE base == NewJob
           new == [base EXCEPT !.pc = "failed", !.staged = why]
<1>1. liJob' = [liJob EXCEPT ![j] = new]
  BY DEF Fails
<1>2. Job(base) /\ base.verified = FALSE /\ liHeld' = [liHeld EXCEPT ![j] = liHeld[j]]
  BY DEF NewJob, Job, JobFields, IndexInv, JobsInv
<1> HIDE DEF base
<1>3. Job(new) /\ new.pc = "failed" /\ new.verified = FALSE /\ new.staged = why
  BY <1>2 DEF Job, JobFields
<1> HIDE DEF new
<1>4. JobInv(j, new, liHeld[j])
  BY <1>3 DEF JobInv, Searches
<1> QED BY <1>1, <1>2, <1>4, OneJobMoves

LEMMA HashFileInv ==
    ASSUME IndexInv, NEW j \in Lookers, HashFile(j)
    PROVE  IndexInv'
<1> DEFINE me == liJob[j]
           f == Tried(j)
           digest == liFile[f].bytes
           hashed == [size |-> me.stat.size, changed |-> me.stat.changed, digest |-> digest]
<1>1. /\ me.pc = "hash" /\ me.queue # {} /\ me.queue \subseteq Paths
      /\ me.stat.changed \in Nat /\ me.stat.changed <= liFile[f].changed
      /\ UNCHANGED <<liFile, liWrites, liIndex, liReady, liHeld>>
  BY DEF HashFile, JobIs, IndexInv, JobsInv, JobInv, Tried
<1>2. f \in Paths
  BY <1>1, FirstIsOne DEF Tried
<1>3. CASE ~Exists(f)
  <2>1. Fails(j, "unreadable") /\ liVerified' = liVerified /\ liCache' = liCache
    BY <1>3 DEF HashFile
  <2>2. JobsInv' /\ FilesInv'
    BY <1>1, <2>1, FailsInv
  <2> QED BY <1>1, <2>1, <2>2 DEF IndexInv, CacheInv, IndexedInv
<1>4. CASE Exists(f)
  <2>1. /\ liCache' = IF liCache[f] # Gone THEN liCache ELSE [liCache EXCEPT ![f] = hashed]
        /\ IF digest = WantOf[j] THEN Found(j, f) ELSE NotThis(j)
    BY <1>4 DEF HashFile
  <2>2. CacheInv'
    <3>1. CASE liCache' = liCache
      BY <1>1, <3>1 DEF IndexInv, CacheInv
    <3>2. CASE liCache' = [liCache EXCEPT ![f] = hashed]
      <4>1. hashed.changed = me.stat.changed /\ hashed.digest = liFile[f].bytes
        OBVIOUS
      <4> HIDE DEF hashed, me, f
      <4>2. /\ liCache' = [g \in Paths |-> liCache'[g]] /\ liCache'[f] = hashed
            /\ \A g \in Paths \ {f} : liCache'[g] = liCache[g]
        BY <1>2, <3>2 DEF IndexInv, CacheInv
      <4> QED BY <1>1, <1>2, <4>1, <4>2 DEF IndexInv, CacheInv
    <3> QED BY <2>1, <3>1, <3>2
  <2>3. JobsInv' /\ FilesInv' /\ IndexedInv'
    <3>1. CASE digest = WantOf[j]
      BY <1>1, <1>2, <2>1, <3>1, FoundInv DEF Searches
    <3>2. CASE digest # WantOf[j]
      BY <1>1, <2>1, <3>2, NotThisInv
    <3> QED BY <3>1, <3>2
  <2> QED BY <2>2, <2>3 DEF IndexInv
<1> QED BY <1>3, <1>4

LEMMA ReadDiskInv ==
    ASSUME IndexInv, NEW j \in Lookers, NEW downloaded \in BOOLEAN, ReadDisk(j, downloaded)
    PROVE  IndexInv'
<1> DEFINE base == NewJob
           path == OnDisk(j)
           found == [base EXCEPT !.pc = "ended", !.reads = path]
           loaded == [base EXCEPT !.pc = "ended", !.staged = "bytes"]
<1>1. /\ Searches(liJob[j])
      /\ UNCHANGED <<liFile, liWrites, liIndex, liReady, liVerified, liCache, liHeld>>
  BY DEF ReadDisk, JobIs, Searches
<1>2. SeenInv(j, liHeld[j]) /\ liHeld' = [liHeld EXCEPT ![j] = liHeld[j]]
  BY <1>1 DEF IndexInv, JobsInv, JobInv
<1>3. /\ path # Gone => path \in liHeld[j].once
      /\ path = Gone => PathOf[j] \notin liHeld[j].throughout
  <2>1. PathOf[j] \in Paths /\ Gone \notin Paths
    BY IndexAssumption DEF Paths
  <2> QED BY <1>2, <2>1 DEF OnDisk, SeenInv
<1>4. Job(base) /\ base.verified = FALSE
  BY DEF NewJob, Job, JobFields
<1> HIDE DEF base, path
<1>5. /\ Job(found) /\ found.pc = "ended" /\ found.verified = FALSE /\ found.reads = path
      /\ Job(loaded) /\ loaded.pc = "ended" /\ loaded.verified = FALSE
      /\ loaded.reads = base.reads
  BY <1>4 DEF Job, JobFields
<1>6. base.reads = Gone
  BY DEF base, NewJob
<1> HIDE DEF found, loaded
<1>7. /\ path # Gone => JobInv(j, found, liHeld[j])
      /\ path = Gone => JobInv(j, loaded, liHeld[j])
  BY <1>3, <1>5, <1>6 DEF JobInv, Searches
<1>8. JobsInv' /\ FilesInv'
  <2>1. \/ path # Gone /\ liJob' = [liJob EXCEPT ![j] = found]
        \/ path = Gone /\ liJob' = [liJob EXCEPT ![j] = loaded]
        \/ path = Gone /\ \E why : Fails(j, why)
    BY DEF ReadDisk, WithoutAPath, base, path, found, loaded
  <2>2. CASE path # Gone /\ liJob' = [liJob EXCEPT ![j] = found]
    BY <1>1, <1>2, <1>7, <2>2, OneJobMoves
  <2>3. CASE path = Gone /\ liJob' = [liJob EXCEPT ![j] = loaded]
    BY <1>1, <1>2, <1>7, <2>3, OneJobMoves
  <2>4. CASE path = Gone /\ \E why : Fails(j, why)
    BY <1>1, <1>3, <2>4, FailsInv
  <2> QED BY <2>1, <2>2, <2>3, <2>4
<1> QED BY <1>1, <1>8 DEF IndexInv, CacheInv, IndexedInv

LEMMA NextJobInv ==
    ASSUME IndexInv, NEW j \in Lookers, NextJob(j)
    PROVE  IndexInv'
<1> DEFINE new == NewJob
           held == [once |-> {}, throughout |-> {}]
<1>1. /\ liJob' = [liJob EXCEPT ![j] = new] /\ liHeld' = [liHeld EXCEPT ![j] = held]
      /\ UNCHANGED <<liFile, liWrites, liIndex, liReady, liVerified, liCache>>
  BY DEF NextJob
<1>2. Job(new) /\ new.verified = FALSE /\ new.pc = "claimed" /\ held.throughout = {}
  BY DEF NewJob, Job, JobFields
<1> HIDE DEF new, held
<1>3. JobInv(j, new, held)
  BY <1>2 DEF JobInv, Searches
<1>4. JobsInv' /\ FilesInv'
  BY <1>1, <1>3, OneJobMoves
<1> QED BY <1>1, <1>4 DEF IndexInv, CacheInv, IndexedInv

LEMMA IndexStart == IndexInit => IndexInv
<1> SUFFICES ASSUME IndexInit PROVE IndexInv
  OBVIOUS
<1>1. FilesInv /\ CacheInv
  BY DEF IndexInit, FilesInv, CacheInv
<1>2. IndexedInv
  BY DEF IndexInit, IndexedInv
<1>3. ASSUME NEW j \in Lookers PROVE JobInv(j, liJob[j], liHeld[j])
  <2>1. PICK me, held : me = NewJob /\ held = [once |-> {}, throughout |-> {}]
    OBVIOUS
  <2>2. Job(me) /\ me.verified = FALSE /\ me.pc = "claimed" /\ held.throughout = {}
    BY <2>1 DEF NewJob, Job, JobFields
  <2>3. JobInv(j, me, held)
    BY <2>2 DEF JobInv, Searches
  <2> QED BY <2>1, <2>3 DEF IndexInit
<1> QED BY <1>1, <1>2, <1>3 DEF IndexInv, JobsInv, IndexInit

LEMMA IndexStep == IndexInv /\ [IndexNext]_indexVars => IndexInv'
<1> SUFFICES ASSUME IndexInv, [IndexNext]_indexVars PROVE IndexInv'
  OBVIOUS
<1>1. CASE IndexNext
  <2>1. CASE Walk
    <3>1. DOMAIN liIndex' \subseteq Paths
      BY <2>1 DEF Walk
    <3> QED BY <2>1, <3>1, NobodyMoves DEF Walk
  <2>2. CASE Publish
    BY <2>2, NobodyMoves DEF Publish, IndexInv, IndexedInv
  <2>3. ASSUME NEW j \in Lookers, NEW downloaded \in BOOLEAN,
               Stage(j, downloaded) \/ ReadDisk(j, downloaded)
        PROVE  IndexInv'
    BY <2>3, StageInv, ReadDiskInv
  <2>4. ASSUME NEW j \in Lookers, Search(j) \/ StatFile(j) \/ HashFile(j) \/ NextJob(j)
        PROVE  IndexInv'
    BY <2>4, SearchInv, StatFileInv, HashFileInv, NextJobInv
  <2>5. ASSUME NEW f \in Paths, NEW bytes \in Digests \cup {Gone}, Change(f, bytes)
        PROVE  IndexInv'
    BY <2>5, ChangeInv
  <2> QED BY <1>1, <2>1, <2>2, <2>3, <2>4, <2>5 DEF IndexNext
<1>2. CASE UNCHANGED indexVars
  BY <1>2, NobodyMoves DEF indexVars, IndexInv, IndexedInv
<1> QED BY <1>1, <1>2

LEMMA IndexHidesNothing == IndexInv => IndexFindsTheSample
BY DEF IndexInv, JobsInv, JobInv, IndexFindsTheSample, PathHadTheDigest, SampleInPlaceIsRead, JobIs

\* In every reachable state, for any files, any jobs and any changes of the files while the
\* jobs look, a cached hash is of the bytes at the path or of a time before the last change.
THEOREM IndexInvariant == IndexSpec => []IndexInv
BY IndexStart, IndexStep, PTL DEF IndexSpec

\* The index never gives a job other bytes and hides no sample that stays in its place
\* (resolve, file_matches_sha256, locate).
THEOREM IndexIsAnAccelerator == IndexSpec => []IndexFindsTheSample
BY IndexInvariant, IndexHidesNothing, PTL

----------------------------------------------------------------------------
(* The job source                                                         *)

WindowEntries == [job : Rows, age : 0..MaxWait]
JobsOf(w) == {w[i].job : i \in DOMAIN w}
Apart(w)  == \A i, k \in DOMAIN w : w[i].job = w[k].job => i = k

Places  == {"hopper", "claimed", "rx", "window", "running"}
AskingSlots  == {s \in Hands : jsSlot[s] \in {"ask", "first"}}
RunningJobs == JobsAt("running")

\* A job is staged in one place, where the row says.
StagedInv ==
    /\ jsJob \in [Rows -> Places]
    /\ jsRx \in Seq(Rows) /\ jsWindow \in Seq(WindowEntries)
    /\ JobsAt("rx") = ToSet(jsRx) /\ (\A i, k \in DOMAIN jsRx : jsRx[i] = jsRx[k] => i = k)
    /\ JobsAt("window") = JobsOf(jsWindow) /\ Apart(jsWindow)

\* A permit is a running tail's or that of a slot that asks.
PermitsInv ==
    /\ IsFiniteSet(RunningJobs) /\ IsFiniteSet(AskingSlots) /\ jsTails \in Int
    /\ jsTails = Tails - Cardinality(RunningJobs) - Cardinality(AskingSlots)

\* The slot that waits for a first job has the mutex, and the window is empty meanwhile; a
\* slot ends for lack of work only after the channel was closed and emptied.
MutexInv ==
    /\ jsSlot \in [Hands -> {"permit", "ask", "first", "ended"}]
    /\ jsMutex \in Hands \cup {NoSlot}
    /\ \A s \in Hands : jsSlot[s] = "first" <=> jsMutex = s
    /\ jsMutex # NoSlot => jsWindow = <<>>
    /\ ~jsStop /\ (\E s \in Hands : jsSlot[s] = "ended") =>
         ~jsOpen /\ jsRx = <<>> /\ jsWindow = <<>>

SourceInv == StagedInv /\ PermitsInv /\ MutexInv

----------------------------------------------------------------------------
\* As many as its length are in a sequence without repetitions.
LEMMA AsManyAsLong ==
    ASSUME NEW S, NEW f, NEW n \in Nat, f \in [1..n -> S],
           \A i, k \in 1..n : f[i] = f[k] => i = k
    PROVE  Cardinality({f[i] : i \in 1..n}) = n
<1> DEFINE T == {f[i] : i \in 1..n}
<1>1. f \in [1..n -> T] /\ \A t \in T : \E i \in 1..n : f[i] = t
  OBVIOUS
<1>2. f \in Bijection(1..n, T)
  BY <1>1 DEF Bijection, Injection, IsInjective, Surjection, Range
<1>3. ExistsBijection(1..n, T)
  BY <1>2 DEF ExistsBijection
<1> HIDE DEF T
<1>4. Cardinality(T) = n
  BY <1>3, FS_CountingElements
<1> QED
  BY <1>4 DEF T

\* What joins a finite set, and what leaves it, is counted once.
LEMMA OneMoreOf ==
    ASSUME NEW S, NEW x, IsFiniteSet(S), x \notin S
    PROVE  IsFiniteSet(S \cup {x}) /\ Cardinality(S \cup {x}) = Cardinality(S) + 1
           /\ Cardinality(S) \in Nat
BY FS_AddElement, FS_CardinalityType

LEMMA OneLessOf ==
    ASSUME NEW S, NEW x \in S, IsFiniteSet(S)
    PROVE  IsFiniteSet(S \ {x}) /\ Cardinality(S \ {x}) = Cardinality(S) - 1
           /\ Cardinality(S) \in Nat
BY FS_RemoveElement, FS_CardinalityType

\* What is swept goes behind the window.
LEMMA SweptIs ==
    ASSUME NEW w \in Seq(WindowEntries), NEW rx \in Seq(Rows)
    PROVE  LET all == Swept(w, rx) IN
           /\ all \in Seq(WindowEntries) /\ Len(all) = Len(w) + Len(rx)
           /\ \A i \in 1..Len(w) : all[i] = w[i]
           /\ \A i \in 1..Len(rx) : all[Len(w) + i].job = rx[i]
           /\ JobsOf(all) = JobsOf(w) \cup ToSet(rx)
<1> DEFINE new == [i \in DOMAIN rx |-> [job |-> rx[i], age |-> 0]]
<1>1. /\ Len(w) \in Nat /\ DOMAIN w = 1..Len(w)
      /\ Len(rx) \in Nat /\ DOMAIN rx = 1..Len(rx) /\ \A i \in 1..Len(rx) : rx[i] \in Rows
  BY LenProperties, ElementOfSeq
<1>2. 0 \in 0..MaxWait
  BY SourceAssumption
<1>3. new \in [1..Len(rx) -> WindowEntries]
  BY <1>1, <1>2 DEF WindowEntries
<1>4. new \in Seq(WindowEntries) /\ Len(new) = Len(rx)
  BY <1>1, <1>3
<1>5. \A i \in 1..Len(rx) : new[i].job = rx[i]
  BY <1>1
<1>6. PICK all : all = w \o new
  OBVIOUS
<1> HIDE DEF new
<1>7. /\ all \in Seq(WindowEntries) /\ Len(all) = Len(w) + Len(rx)
      /\ \A i \in 1..Len(w) + Len(rx) : all[i] = IF i <= Len(w) THEN w[i] ELSE new[i - Len(w)]
  <2>1. /\ w \o new \in Seq(WindowEntries) /\ Len(w \o new) = Len(w) + Len(new)
        /\ \A i \in 1..Len(w) + Len(new) :
             (w \o new)[i] = IF i <= Len(w) THEN w[i] ELSE new[i - Len(w)]
    BY <1>4, ConcatProperties
  <2> QED
    BY <1>4, <1>6, <2>1
<1>8. \A i \in 1..Len(w) : all[i] = w[i]
  BY <1>1, <1>7
<1>9. ASSUME NEW i \in 1..Len(rx) PROVE all[Len(w) + i].job = rx[i]
  <2>1. Len(w) + i \in 1..Len(w) + Len(rx) /\ ~(Len(w) + i <= Len(w)) /\ (Len(w) + i) - Len(w) = i
    BY <1>1
  <2> QED
    BY <1>5, <1>7, <2>1
<1>10. DOMAIN all = 1..Len(w) + Len(rx)
  BY <1>7, LenProperties
<1>11. ASSUME NEW i \in DOMAIN all PROVE all[i].job \in JobsOf(w) \cup ToSet(rx)
  <2>1. CASE i <= Len(w)
    <3>1. i \in 1..Len(w)
      BY <1>1, <1>10, <2>1
    <3> QED
      BY <1>1, <1>8, <3>1 DEF JobsOf
  <2>2. CASE ~(i <= Len(w))
    <3>1. i - Len(w) \in 1..Len(rx) /\ Len(w) + (i - Len(w)) = i
      BY <1>1, <1>10, <2>2
    <3> QED
      BY <1>1, <1>9, <3>1 DEF ToSet
  <2> QED
    BY <2>1, <2>2
<1>12. ASSUME NEW i \in 1..Len(w) PROVE w[i].job \in JobsOf(all)
  <2>1. i \in DOMAIN all
    BY <1>1, <1>10
  <2> QED
    BY <1>8, <2>1 DEF JobsOf
<1>13. ASSUME NEW i \in 1..Len(rx) PROVE rx[i] \in JobsOf(all)
  <2>1. Len(w) + i \in DOMAIN all
    BY <1>1, <1>10
  <2> QED
    BY <1>9, <2>1 DEF JobsOf
<1>14. JobsOf(all) = JobsOf(w) \cup ToSet(rx)
  <2>1. JobsOf(w) \subseteq JobsOf(all)
    BY <1>1, <1>12 DEF JobsOf
  <2>2. ToSet(rx) \subseteq JobsOf(all)
    BY <1>1, <1>13 DEF ToSet
  <2>3. JobsOf(all) \subseteq JobsOf(w) \cup ToSet(rx)
    BY <1>11 DEF JobsOf
  <2> QED
    BY <2>1, <2>2, <2>3
<1>15. all = Swept(w, rx)
  BY <1>6 DEF Swept, new
<1> QED
  BY <1>7, <1>8, <1>9, <1>14, <1>15

\* Jobs apart stay apart when others are swept behind them.
LEMMA SweptApart ==
    ASSUME NEW w \in Seq(WindowEntries), NEW rx \in Seq(Rows), Apart(w),
           \A i, k \in DOMAIN rx : rx[i] = rx[k] => i = k, JobsOf(w) \cap ToSet(rx) = {}
    PROVE  Apart(Swept(w, rx))
<1>1. PICK all : all = Swept(w, rx)
  OBVIOUS
<1>2. /\ all \in Seq(WindowEntries) /\ Len(all) = Len(w) + Len(rx)
      /\ \A i \in 1..Len(w) : all[i] = w[i]
      /\ \A i \in 1..Len(rx) : all[Len(w) + i].job = rx[i]
  BY <1>1, SweptIs
<1>3. /\ Len(w) \in Nat /\ DOMAIN w = 1..Len(w) /\ Len(rx) \in Nat /\ DOMAIN rx = 1..Len(rx)
      /\ DOMAIN all = 1..Len(w) + Len(rx)
  BY <1>2, LenProperties
<1>4. ASSUME NEW i \in DOMAIN all
      PROVE  \/ i \in 1..Len(w) /\ all[i].job = w[i].job /\ all[i].job \in JobsOf(w)
             \/ i - Len(w) \in 1..Len(rx) /\ all[i].job = rx[i - Len(w)] /\ all[i].job \in ToSet(rx)
  <2>1. CASE i <= Len(w)
    <3>1. i \in 1..Len(w)
      BY <1>3, <2>1
    <3> QED
      BY <1>2, <1>3, <3>1 DEF JobsOf
  <2>2. CASE ~(i <= Len(w))
    <3>1. i - Len(w) \in 1..Len(rx) /\ Len(w) + (i - Len(w)) = i
      BY <1>3, <2>2
    <3> QED
      BY <1>2, <1>3, <3>1 DEF ToSet
  <2> QED
    BY <2>1, <2>2
<1>5. ASSUME NEW i \in DOMAIN all, NEW k \in DOMAIN all, all[i].job = all[k].job PROVE i = k
  <2>1. CASE i \in 1..Len(w) /\ k \in 1..Len(w)
    BY <1>2, <1>3, <1>5, <2>1 DEF Apart
  <2>2. CASE ~(i \in 1..Len(w)) /\ ~(k \in 1..Len(w))
    <3>1. i - Len(w) = k - Len(w)
      BY <1>3, <1>4, <1>5, <2>2
    <3> QED
      BY <1>3, <3>1
  <2>3. CASE (i \in 1..Len(w)) # (k \in 1..Len(w))
    <3>1. all[i].job \in JobsOf(w) \cap ToSet(rx)
      BY <1>3, <1>4, <1>5, <2>3
    <3> QED
      BY <3>1
  <2> QED
    BY <2>1, <2>2, <2>3
<1> QED
  BY <1>1, <1>5 DEF Apart

\* The others stay, once.
LEMMA RemovedIs ==
    ASSUME NEW w \in Seq(WindowEntries), Apart(w), NEW i \in DOMAIN w
    PROVE  LET rest == RemoveAt(w, i) IN
           /\ rest \in Seq(WindowEntries) /\ Apart(rest) /\ JobsOf(rest) = JobsOf(w) \ {w[i].job}
<1>1. Len(w) \in Nat /\ DOMAIN w = 1..Len(w) /\ i \in 1..Len(w) /\ i \in Int
  BY LenProperties
<1>2. PICK n \in Nat : n = Len(w)
  BY <1>1
<1> DEFINE front == SubSeq(w, 1, i - 1)
           back == SubSeq(w, i + 1, n)
<1>3. /\ front \in Seq(WindowEntries) /\ Len(front) = i - 1
      /\ \A k \in 1..i - 1 : front[k] = w[k]
  <2>1. \A k \in 1..i - 1 : w[k] \in WindowEntries
    BY <1>1, ElementOfSeq
  <2>2. i - 1 \in Int /\ (IF 1 <= i - 1 THEN (i - 1) - 1 + 1 ELSE 0) = i - 1
        /\ (i - 1) - 1 + 1 = i - 1
    BY <1>1
  <2>3. \A k \in 1..i - 1 : 1 + k - 1 = k
    BY <1>1
  <2> QED
    BY <2>1, <2>2, <2>3, SubSeqProperties
<1>4. /\ back \in Seq(WindowEntries) /\ Len(back) = n - i
      /\ \A k \in 1..n - i : back[k] = w[i + k]
  <2>1. \A k \in i + 1..n : w[k] \in WindowEntries
    BY <1>1, <1>2, ElementOfSeq
  <2>2. i + 1 \in Int /\ n \in Int /\ (IF i + 1 <= n THEN n - (i + 1) + 1 ELSE 0) = n - i
        /\ n - (i + 1) + 1 = n - i
    BY <1>1, <1>2
  <2>3. \A k \in 1..n - i : (i + 1) + k - 1 = i + k
    BY <1>1, <1>2
  <2> QED
    BY <2>1, <2>2, <2>3, SubSeqProperties
<1> HIDE DEF front, back
<1>5. PICK rest : rest = front \o back
  OBVIOUS
<1>6. /\ rest \in Seq(WindowEntries) /\ Len(rest) = Len(front) + Len(back)
      /\ \A k \in 1..Len(front) + Len(back) :
           rest[k] = IF k <= Len(front) THEN front[k] ELSE back[k - Len(front)]
  BY <1>3, <1>4, <1>5, ConcatProperties
<1>7. Len(front) + Len(back) = n - 1
  BY <1>1, <1>2, <1>3, <1>4
<1>8. DOMAIN rest = 1..n - 1
  BY <1>6, <1>7, LenProperties
<1> DEFINE from(k) == IF k < i THEN k ELSE k + 1
<1>9. ASSUME NEW k \in 1..n - 1 PROVE rest[k] = w[from(k)]
  <2>1. CASE k < i
    <3>1. k <= i - 1 /\ k \in 1..i - 1
      BY <1>1, <1>2, <2>1
    <3> QED
      BY <1>3, <1>6, <1>7, <2>1, <3>1
  <2>2. CASE ~(k < i)
    <3>1. ~(k <= i - 1) /\ k - (i - 1) \in 1..n - i /\ i + (k - (i - 1)) = k + 1
      BY <1>1, <1>2, <2>2
    <3>2. rest[k] = back[k - (i - 1)]
      BY <1>3, <1>6, <1>7, <3>1
    <3>3. back[k - (i - 1)] = w[k + 1]
      BY <1>4, <3>1
    <3> QED
      BY <2>2, <3>2, <3>3
  <2> QED
    BY <2>1, <2>2
<1>10. \A k \in 1..n - 1 : from(k) \in 1..n /\ from(k) # i
  BY <1>1, <1>2
<1>11. \A k \in 1..n - 1, l \in 1..n - 1 : from(k) = from(l) => k = l
  BY <1>1, <1>2
<1>12. \A l \in 1..n : l # i => \E k \in 1..n - 1 : from(k) = l
  <2> SUFFICES ASSUME NEW l \in 1..n, l # i PROVE \E k \in 1..n - 1 : from(k) = l
    OBVIOUS
  <2>1. CASE l < i
    <3>1. l \in 1..n - 1 /\ from(l) = l
      BY <1>1, <1>2, <2>1
    <3> QED
      BY <3>1
  <2>2. CASE ~(l < i)
    <3>1. l - 1 \in 1..n - 1 /\ from(l - 1) = l
      BY <1>1, <1>2, <2>2
    <3> QED
      BY <3>1
  <2> QED
    BY <2>1, <2>2
<1> HIDE DEF from
<1>13. Apart(rest)
  <2> SUFFICES ASSUME NEW k \in 1..n - 1, NEW l \in 1..n - 1, rest[k].job = rest[l].job PROVE k = l
    BY <1>8 DEF Apart
  <2>1. from(k) = from(l)
    BY <1>1, <1>2, <1>9, <1>10 DEF Apart
  <2> QED
    BY <1>11, <2>1
<1>14. JobsOf(rest) = JobsOf(w) \ {w[i].job}
  <2>1. ASSUME NEW k \in 1..n - 1 PROVE rest[k].job \in JobsOf(w) \ {w[i].job}
    BY <1>1, <1>2, <1>9, <1>10 DEF JobsOf, Apart
  <2>2. ASSUME NEW l \in 1..n, w[l].job # w[i].job PROVE w[l].job \in JobsOf(rest)
    BY <1>8, <1>9, <1>12, <2>2 DEF JobsOf
  <2>3. JobsOf(rest) \subseteq JobsOf(w) \ {w[i].job}
    BY <1>8, <2>1 DEF JobsOf
  <2>4. JobsOf(w) \ {w[i].job} \subseteq JobsOf(rest)
    BY <1>1, <1>2, <2>2 DEF JobsOf
  <2> QED
    BY <2>3, <2>4
<1>15. rest = RemoveAt(w, i)
  BY <1>2, <1>5 DEF RemoveAt, front, back
<1> QED
  BY <1>6, <1>13, <1>14, <1>15

\* Apart: what a call takes of the channel, and what it leaves.
Once(rx) == \A i, k \in DOMAIN rx : rx[i] = rx[k] => i = k

LEMMA SplitIs ==
    ASSUME NEW rx \in Seq(Rows), Once(rx), NEW n \in 0..Len(rx)
    PROVE  LET front == SubSeq(rx, 1, n)
               back == SubSeq(rx, n + 1, Len(rx)) IN
           /\ front \in Seq(Rows) /\ Once(front) /\ back \in Seq(Rows) /\ Once(back)
           /\ Len(front) = n /\ Len(back) = Len(rx) - n
           /\ ToSet(rx) = ToSet(front) \cup ToSet(back) /\ ToSet(front) \cap ToSet(back) = {}
<1>1. Len(rx) \in Nat /\ DOMAIN rx = 1..Len(rx) /\ n \in Nat /\ n <= Len(rx)
  BY LenProperties
<1>2. PICK m \in Nat : m = Len(rx)
  BY <1>1
<1>3. PICK front : front = SubSeq(rx, 1, n)
  OBVIOUS
<1>4. PICK back : back = SubSeq(rx, n + 1, m)
  OBVIOUS
<1>5. front \in Seq(Rows) /\ Len(front) = n /\ \A k \in 1..n : front[k] = rx[k]
  <2>1. \A k \in 1..n : rx[k] \in Rows
    BY <1>1, ElementOfSeq
  <2>2. n \in Int /\ (IF 1 <= n THEN n - 1 + 1 ELSE 0) = n /\ n - 1 + 1 = n
    BY <1>1
  <2>3. \A k \in 1..n : 1 + k - 1 = k
    OBVIOUS
  <2> QED
    BY <1>3, <2>1, <2>2, <2>3, SubSeqProperties
<1>6. back \in Seq(Rows) /\ Len(back) = m - n /\ \A k \in 1..m - n : back[k] = rx[n + k]
  <2>1. \A k \in n + 1..m : rx[k] \in Rows
    BY <1>1, <1>2, ElementOfSeq
  <2>2. n \in Nat /\ n <= m
    BY <1>1, <1>2
  <2>3. n + 1 \in Int /\ m \in Int /\ (IF n + 1 <= m THEN m - (n + 1) + 1 ELSE 0) = m - n
        /\ m - (n + 1) + 1 = m - n
    BY <2>2
  <2>4. \A k \in 1..m - n : (n + 1) + k - 1 = n + k
    BY <1>1, <1>2
  <2> QED
    BY <1>4, <2>1, <2>3, <2>4, SubSeqProperties
<1>7. DOMAIN front = 1..n /\ DOMAIN back = 1..m - n /\ DOMAIN rx = 1..m
  BY <1>1, <1>2, <1>5, <1>6, LenProperties
<1>8. Once(front)
  BY <1>1, <1>2, <1>5, <1>7 DEF Once
<1>9. Once(back)
  <2> SUFFICES ASSUME NEW k \in 1..m - n, NEW l \in 1..m - n, back[k] = back[l] PROVE k = l
    BY <1>7 DEF Once
  <2>1. n + k \in 1..m /\ n + l \in 1..m
    BY <1>1, <1>2
  <2>2. n + k = n + l
    BY <1>6, <1>7, <2>1 DEF Once
  <2> QED
    BY <1>1, <2>2
<1>10. ASSUME NEW k \in 1..m PROVE rx[k] \in ToSet(front) \/ rx[k] \in ToSet(back)
  <2>1. CASE k <= n
    <3>1. k \in 1..n
      BY <1>1, <2>1
    <3> QED
      BY <1>5, <1>7, <3>1 DEF ToSet
  <2>2. CASE ~(k <= n)
    <3>1. k - n \in 1..m - n /\ n + (k - n) = k
      BY <1>1, <1>2, <2>2
    <3>2. back[k - n] = rx[k]
      BY <1>6, <3>1
    <3> QED
      BY <1>7, <3>1, <3>2 DEF ToSet
  <2> QED
    BY <2>1, <2>2
<1>11. ASSUME NEW k \in 1..n PROVE front[k] \in ToSet(rx)
  BY <1>1, <1>2, <1>5, <1>7 DEF ToSet
<1>12. ASSUME NEW k \in 1..m - n PROVE back[k] \in ToSet(rx) /\ n + k \in 1..m
  <2>1. n + k \in 1..m
    BY <1>1, <1>2, <1>12
  <2> QED
    BY <1>6, <1>7, <2>1 DEF ToSet
<1>13. ToSet(rx) = ToSet(front) \cup ToSet(back)
  <2>1. ToSet(rx) \subseteq ToSet(front) \cup ToSet(back)
    BY <1>7, <1>10 DEF ToSet
  <2>2. ToSet(front) \subseteq ToSet(rx)
    BY <1>7, <1>11 DEF ToSet
  <2>3. ToSet(back) \subseteq ToSet(rx)
    BY <1>7, <1>12 DEF ToSet
  <2> QED
    BY <2>1, <2>2, <2>3
<1>14. ToSet(front) \cap ToSet(back) = {}
  <2> SUFFICES ASSUME NEW k \in 1..n, NEW l \in 1..m - n, front[k] = back[l] PROVE FALSE
    BY <1>7 DEF ToSet
  <2>1. k \in 1..m /\ n + l \in 1..m
    BY <1>1, <1>2
  <2>2. rx[k] = rx[n + l]
    BY <1>5, <1>6
  <2>3. k = n + l
    BY <1>7, <2>1, <2>2 DEF Once
  <2> QED
    BY <1>1, <2>3
<1> QED
  BY <1>2, <1>3, <1>4, <1>5, <1>6, <1>8, <1>9, <1>13, <1>14

\* What is picked is in the window.
LEMMA PickedIs ==
    ASSUME NEW w \in Seq(WindowEntries)
    PROVE  /\ DOMAIN w \subseteq Nat /\ Picked(w) \subseteq DOMAIN w
           /\ SightedIn(w) # {} => \A i \in Picked(w) : w[i].job \in Sighted
           /\ SightedIn(w) = {} => \A i \in Picked(w), k \in AgedIn(w) : i <= k
<1>1. DOMAIN w = 1..Len(w) /\ Len(w) \in Nat
  BY LenProperties
<1>2. DOMAIN w \subseteq Nat /\ SightedIn(w) \subseteq DOMAIN w /\ AgedIn(w) \subseteq DOMAIN w
      /\ BySize(w) \subseteq DOMAIN w
  BY <1>1 DEF SightedIn, AgedIn, BySize
<1>3. SightedIn(w) # {} => Picked(w) = {Min(SightedIn(w))} /\ Min(SightedIn(w)) \in SightedIn(w)
  BY <1>2, LeastOf DEF Picked
<1>4. SightedIn(w) = {} /\ AgedIn(w) # {} =>
        /\ Picked(w) = {Min(AgedIn(w))} /\ Min(AgedIn(w)) \in AgedIn(w)
        /\ \A k \in AgedIn(w) : Min(AgedIn(w)) <= k
  BY <1>2, LeastOf DEF Picked
<1>5. SightedIn(w) = {} /\ AgedIn(w) = {} => Picked(w) = BySize(w)
  BY DEF Picked
<1>6. \A i \in SightedIn(w) : w[i].job \in Sighted
  BY DEF SightedIn
<1>7. Picked(w) \subseteq DOMAIN w
  BY <1>2, <1>3, <1>4, <1>5
<1> QED
  BY <1>2, <1>3, <1>4, <1>6, <1>7

\* What a call has at hand: the window and what it takes of the channel.
AtHand == Swept(jsWindow, SubSeq(jsRx, 1, Taken(Len(jsRx))))

LEMMA AtHandIs ==
    ASSUME StagedInv
    PROVE  LET n == Taken(Len(jsRx))
               left == SubSeq(jsRx, n + 1, Len(jsRx)) IN
           /\ AtHand \in Seq(WindowEntries) /\ Apart(AtHand)
           /\ left \in Seq(Rows) /\ Once(left)
           /\ JobsOf(AtHand) \cup ToSet(left) = JobsAt("window") \cup JobsAt("rx")
           /\ JobsOf(AtHand) \cap ToSet(left) = {} /\ JobsAt("window") \subseteq JobsOf(AtHand)
           /\ jsOrder # "fifo" => ToSet(left) = {}
           /\ \A k \in DOMAIN jsWindow : k \in DOMAIN AtHand /\ AtHand[k] = jsWindow[k]
<1>1. /\ jsRx \in Seq(Rows) /\ Once(jsRx) /\ jsWindow \in Seq(WindowEntries) /\ Apart(jsWindow)
      /\ JobsAt("rx") = ToSet(jsRx) /\ JobsAt("window") = JobsOf(jsWindow)
      /\ JobsAt("rx") \cap JobsAt("window") = {}
  BY DEF StagedInv, Once, JobsAt
<1>2. PICK m \in Nat : m = Len(jsRx)
  BY <1>1, LenProperties
<1>3. PICK n \in 0..m : n = Taken(Len(jsRx)) /\ (jsOrder # "fifo" => n = m)
  BY <1>2 DEF Taken
<1>4. PICK front : front = SubSeq(jsRx, 1, n)
  OBVIOUS
<1>5. PICK left : left = SubSeq(jsRx, n + 1, Len(jsRx))
  OBVIOUS
<1>6. /\ front \in Seq(Rows) /\ Once(front) /\ left \in Seq(Rows) /\ Once(left)
      /\ Len(left) = m - n
      /\ ToSet(jsRx) = ToSet(front) \cup ToSet(left) /\ ToSet(front) \cap ToSet(left) = {}
  BY <1>1, <1>2, <1>3, <1>4, <1>5, SplitIs
<1>7. PICK all : all = Swept(jsWindow, front)
  OBVIOUS
<1>8. all = AtHand
  BY <1>3, <1>4, <1>7 DEF AtHand
<1>9. /\ all \in Seq(WindowEntries) /\ Len(all) = Len(jsWindow) + Len(front)
      /\ \A i \in 1..Len(jsWindow) : all[i] = jsWindow[i]
      /\ JobsOf(all) = JobsOf(jsWindow) \cup ToSet(front)
  BY <1>1, <1>6, <1>7, SweptIs
<1>10. Apart(all)
  <2>1. JobsOf(jsWindow) \cap ToSet(front) = {}
    BY <1>1, <1>6
  <2> QED
    BY <1>1, <1>6, <1>7, <2>1, SweptApart DEF Once
<1>11. /\ JobsOf(all) \cup ToSet(left) = JobsAt("window") \cup JobsAt("rx")
       /\ JobsOf(all) \cap ToSet(left) = {} /\ JobsAt("window") \subseteq JobsOf(all)
  BY <1>1, <1>6, <1>9
<1>12. jsOrder # "fifo" => ToSet(left) = {}
  <2> SUFFICES ASSUME jsOrder # "fifo" PROVE ToSet(left) = {}
    OBVIOUS
  <2>1. Len(left) = 0
    BY <1>3, <1>6
  <2>2. DOMAIN left = {}
    BY <1>6, <2>1, LenProperties
  <2> QED
    BY <2>2 DEF ToSet
<1>13. \A k \in DOMAIN jsWindow : k \in DOMAIN all /\ all[k] = jsWindow[k]
  <2>1. DOMAIN jsWindow = 1..Len(jsWindow) /\ Len(jsWindow) \in Nat /\ Len(front) \in Nat
        /\ DOMAIN all = 1..Len(all)
    BY <1>1, <1>6, <1>9, LenProperties
  <2> QED
    BY <1>9, <2>1
<1> QED
  BY <1>3, <1>5, <1>6, <1>8, <1>9, <1>10, <1>11, <1>12, <1>13

\* A call hands one of them out: it runs, and the others are in the window.
LEMMA HandOutMoves ==
    ASSUME StagedInv, NEW s \in Hands, HandOut(s)
    PROVE  /\ StagedInv'
           /\ \E i \in Picked(AtHand) :
                /\ i \in DOMAIN AtHand
                /\ AtHand[i].job \in Rows /\ AtHand[i].job \in JobsAt("window") \cup JobsAt("rx")
                /\ RunningJobs' = RunningJobs \cup {AtHand[i].job}
                /\ \A j \in Rows : HandedOut(j) <=> j = AtHand[i].job
<1>1. PICK all : all = AtHand
  OBVIOUS
<1>2. PICK left : left = SubSeq(jsRx, Taken(Len(jsRx)) + 1, Len(jsRx))
  OBVIOUS
<1>3. /\ all \in Seq(WindowEntries) /\ Apart(all) /\ left \in Seq(Rows) /\ Once(left)
      /\ JobsOf(all) \cup ToSet(left) = JobsAt("window") \cup JobsAt("rx")
      /\ JobsOf(all) \cap ToSet(left) = {} /\ JobsAt("window") \subseteq JobsOf(all)
  BY <1>1, <1>2, AtHandIs
<1>4. jsRx' = left /\ \E i \in Picked(all) : Dispatch(s, all, i)
  BY <1>1, <1>2 DEF HandOut, AtHand
<1>5. PICK i \in Picked(all) : Dispatch(s, all, i)
  BY <1>4
<1>6. i \in DOMAIN all /\ i \in 1..Len(all)
  BY <1>3, <1>5, PickedIs, LenProperties
<1>7. PICK me : me = all[i].job
  OBVIOUS
<1>8. me \in Rows /\ me \in JobsOf(all)
  <2>1. all[i] \in WindowEntries
    BY <1>3, <1>6, ElementOfSeq
  <2>2. me \in Rows
    BY <1>7, <2>1 DEF WindowEntries
  <2> QED
    BY <1>6, <1>7, <2>2 DEF JobsOf
<1>9. PICK rest : rest = RemoveAt(all, i)
  OBVIOUS
<1>10. rest \in Seq(WindowEntries) /\ Apart(rest) /\ JobsOf(rest) = JobsOf(all) \ {me}
  BY <1>3, <1>6, <1>7, <1>9, RemovedIs
<1>11. /\ jsWindow' = rest
       /\ jsJob' = [j \in Rows |-> IF j = me THEN "running"
                                   ELSE IF j \in JobsOf(all) THEN "window" ELSE jsJob[j]]
  BY <1>5, <1>7, <1>9 DEF Dispatch, JobsOf
<1>12. /\ jsJob \in [Rows -> Places] /\ JobsOf(all) \subseteq Rows
       /\ \A j \in JobsOf(all) : jsJob[j] \in {"window", "rx"}
       /\ \A j \in Rows : jsJob[j] = "window" => j \in JobsOf(all)
       /\ \A j \in Rows : jsJob[j] = "rx" => j \in JobsOf(all) \/ j \in ToSet(left)
       /\ \A j \in ToSet(left) : j \in Rows /\ j \notin JobsOf(all) /\ jsJob[j] = "rx"
  BY <1>3 DEF StagedInv, JobsAt
<1>13. jsJob' \in [Rows -> Places]
  BY <1>11, <1>12 DEF Places
<1>14. JobsAt("window")' = JobsOf(rest)
  BY <1>8, <1>10, <1>11, <1>12 DEF JobsAt
<1>15. JobsAt("rx")' = ToSet(left)
  BY <1>8, <1>11, <1>12 DEF JobsAt
<1>16. StagedInv'
  BY <1>3, <1>4, <1>10, <1>11, <1>13, <1>14, <1>15 DEF StagedInv, Once
<1>17. RunningJobs' = RunningJobs \cup {me}
  BY <1>8, <1>11, <1>12 DEF RunningJobs, JobsAt
<1>18. \A j \in Rows : HandedOut(j) <=> j = me
  BY <1>8, <1>11, <1>12 DEF HandedOut
<1>19. me \in JobsAt("window") \cup JobsAt("rx")
  BY <1>3, <1>8
<1> QED
  BY <1>1, <1>5, <1>6, <1>7, <1>8, <1>16, <1>17, <1>18, <1>19

\* One slot moves.
LEMMA SlotMoves ==
    ASSUME MutexInv, NEW s \in Hands, NEW pc \in {"permit", "ask", "first", "ended"}, SlotGoes(s,
           pc)
    PROVE  /\ jsSlot' \in [Hands -> {"permit", "ask", "first", "ended"}]
           /\ jsSlot'[s] = pc /\ \A k \in Hands \ {s} : jsSlot'[k] = jsSlot[k]
           /\ pc \in {"ask", "first"} => AskingSlots' = AskingSlots \cup {s}
           /\ pc \notin {"ask", "first"} => AskingSlots' = AskingSlots \ {s}
BY DEF MutexInv, SlotGoes, AskingSlots

LEMMA StagedStays ==
    ASSUME StagedInv, UNCHANGED <<jsRx, jsWindow>>, jsJob' \in [Rows -> Places],
           \A j \in Rows : (jsJob'[j] = "rx" <=> jsJob[j] = "rx")
                           /\ (jsJob'[j] = "window" <=> jsJob[j] = "window")
    PROVE  StagedInv'
<1>1. JobsAt("rx")' = JobsAt("rx") /\ JobsAt("window")' = JobsAt("window")
  BY DEF JobsAt
<1> QED
  BY <1>1 DEF StagedInv, JobsOf, Apart

LEMMA PermitsStay ==
    ASSUME PermitsInv, RunningJobs' = RunningJobs, AskingSlots' = AskingSlots, jsTails' = jsTails
    PROVE  PermitsInv'
BY DEF PermitsInv

LEMMA PollInv ==
    ASSUME SourceInv, NEW batch, Poll(batch)
    PROVE  SourceInv'
<1>1. /\ batch \subseteq Rows /\ \A j \in batch : jsJob[j] = "hopper"
      /\ jsJob' = [j \in Rows |-> IF j \in batch THEN "claimed" ELSE jsJob[j]]
      /\ jsJob \in [Rows -> Places]
  BY DEF Poll, JobsAt, SourceInv, StagedInv
<1>2. StagedInv'
  <2>1. jsJob' \in [Rows -> Places]
    BY <1>1 DEF Places
  <2> QED
    BY <1>1, <2>1, StagedStays DEF SourceInv, Poll
<1>3. RunningJobs' = RunningJobs /\ AskingSlots' = AskingSlots
  BY <1>1 DEF RunningJobs, JobsAt, AskingSlots, Poll
<1>4. PermitsInv'
  BY <1>3, PermitsStay DEF SourceInv, Poll
<1> QED
  BY <1>2, <1>4 DEF SourceInv, MutexInv, Poll

LEMMA LandJobInv ==
    ASSUME SourceInv, NEW j \in Rows, LandJob(j)
    PROVE  SourceInv'
<1>1. /\ jsJob[j] = "claimed" /\ jsOpen /\ jsJob \in [Rows -> Places]
      /\ jsJob' = [jsJob EXCEPT ![j] = "rx"] /\ jsRx' = Append(jsRx, j)
      /\ jsRx \in Seq(Rows) /\ Once(jsRx) /\ JobsAt("rx") = ToSet(jsRx)
  BY DEF LandJob, SourceInv, StagedInv, Once
<1>2. PICK n \in Nat : n = Len(jsRx) /\ DOMAIN jsRx = 1..n
  BY <1>1, LenProperties
<1>3. PICK rx : rx = Append(jsRx, j)
  OBVIOUS
<1>4. /\ rx \in Seq(Rows) /\ Len(rx) = n + 1 /\ rx[n + 1] = j /\ \A i \in 1..n : rx[i] = jsRx[i]
  BY <1>1, <1>2, <1>3, AppendProperties
<1>5. DOMAIN rx = 1..n + 1 /\ \A i \in 1..n + 1 : i \in 1..n \/ i = n + 1
  BY <1>4, LenProperties
<1>6. j \notin ToSet(jsRx) /\ \A i \in 1..n : jsRx[i] # j
  BY <1>1, <1>2 DEF JobsAt, ToSet
<1>7. Once(rx)
  BY <1>1, <1>2, <1>4, <1>5, <1>6 DEF Once
<1>8. ToSet(rx) = ToSet(jsRx) \cup {j}
  <2>1. \A i \in 1..n : i \in 1..n + 1
    OBVIOUS
  <2>2. n + 1 \in 1..n + 1
    OBVIOUS
  <2> QED
    BY <1>2, <1>4, <1>5, <2>1, <2>2 DEF ToSet
<1>9. /\ JobsAt("rx")' = JobsAt("rx") \cup {j} /\ JobsAt("window")' = JobsAt("window")
      /\ RunningJobs' = RunningJobs /\ jsJob' \in [Rows -> Places]
  BY <1>1 DEF JobsAt, RunningJobs, Places
<1>10. StagedInv'
  <2>1. jsWindow' = jsWindow
    BY DEF LandJob
  <2> QED
    BY <1>1, <1>3, <1>4, <1>7, <1>8, <1>9, <2>1 DEF StagedInv, SourceInv, Once, JobsOf, Apart
<1>11. PermitsInv'
  BY <1>9, PermitsStay DEF SourceInv, LandJob, AskingSlots
<1>12. MutexInv'
  BY <1>1 DEF SourceInv, MutexInv, LandJob
<1> QED
  BY <1>10, <1>11, <1>12 DEF SourceInv

LEMMA CloseChannelInv ==
    ASSUME SourceInv, CloseChannel
    PROVE  SourceInv'
<1>1. /\ jsJob' = [j \in Rows |-> IF jsJob[j] = "claimed" THEN "hopper" ELSE jsJob[j]]
      /\ jsJob \in [Rows -> Places]
  BY DEF CloseChannel, SourceInv, StagedInv
<1>2. jsJob' \in [Rows -> Places]
  BY <1>1 DEF Places
<1>3. StagedInv'
  BY <1>1, <1>2, StagedStays DEF SourceInv, CloseChannel
<1>4. RunningJobs' = RunningJobs /\ AskingSlots' = AskingSlots
  BY <1>1 DEF RunningJobs, JobsAt, AskingSlots, CloseChannel
<1>5. PermitsInv'
  BY <1>4, PermitsStay DEF SourceInv, CloseChannel
<1> QED
  BY <1>3, <1>5 DEF SourceInv, MutexInv, CloseChannel

LEMMA TakeTailInv ==
    ASSUME SourceInv, NEW s \in Hands, TakeTail(s)
    PROVE  SourceInv'
<1>1. jsSlot[s] = "permit" /\ jsTails' = jsTails - 1 /\ SlotGoes(s, "ask") /\ MutexInv /\ PermitsInv
  BY DEF TakeTail, SlotIs, SourceInv
<1>2. s \notin AskingSlots /\ AskingSlots' = AskingSlots \cup {s}
  BY <1>1, SlotMoves DEF AskingSlots
<1>3. IsFiniteSet(AskingSlots') /\ Cardinality(AskingSlots') = Cardinality(AskingSlots) + 1
      /\ Cardinality(AskingSlots) \in Nat
  BY <1>1, <1>2, OneMoreOf DEF PermitsInv
<1>4. RunningJobs' = RunningJobs /\ Cardinality(RunningJobs) \in Nat
  BY <1>1, FS_CardinalityType DEF TakeTail, RunningJobs, JobsAt, PermitsInv
<1>5. PermitsInv'
  BY <1>1, <1>3, <1>4, SourceAssumption DEF PermitsInv
<1>6. StagedInv'
  BY StagedStays DEF SourceInv, TakeTail, StagedInv
<1>7. MutexInv'
  BY <1>1, SlotMoves DEF MutexInv, TakeTail
<1> QED
  BY <1>5, <1>6, <1>7 DEF SourceInv

\* A job that is handed out takes the permit with it.
LEMMA HandOutInv ==
    ASSUME SourceInv, NEW s \in Hands, jsSlot[s] \in {"ask", "first"}, HandOut(s), ~jsStop,
           jsMutex \in {s, NoSlot}
    PROVE  SourceInv'
<1>1. StagedInv /\ PermitsInv /\ MutexInv /\ SlotGoes(s, "permit") /\ jsMutex' = NoSlot
      /\ UNCHANGED <<jsOrder, jsTails, jsOpen, jsStop>>
  BY DEF SourceInv, HandOut, Dispatch
<1>2. PICK me \in Rows : me \in JobsAt("window") \cup JobsAt("rx")
                         /\ RunningJobs' = RunningJobs \cup {me}
  BY <1>1, HandOutMoves
<1>3. me \notin RunningJobs
  BY <1>2 DEF RunningJobs, JobsAt
<1>4. s \in AskingSlots /\ AskingSlots' = AskingSlots \ {s}
  BY <1>1, SlotMoves DEF AskingSlots
<1>5. IsFiniteSet(RunningJobs') /\ Cardinality(RunningJobs') = Cardinality(RunningJobs) + 1
      /\ Cardinality(RunningJobs) \in Nat
  BY <1>1, <1>2, <1>3, OneMoreOf DEF PermitsInv
<1>6. IsFiniteSet(AskingSlots') /\ Cardinality(AskingSlots') = Cardinality(AskingSlots) - 1
      /\ Cardinality(AskingSlots) \in Nat
  BY <1>1, <1>4, OneLessOf DEF PermitsInv
<1>7. PermitsInv'
  BY <1>1, <1>5, <1>6, SourceAssumption DEF PermitsInv
<1>8. StagedInv'
  BY <1>1, HandOutMoves
<1>9. \A k \in Hands : jsSlot[k] # "ended"
  <2> SUFFICES ASSUME NEW k \in Hands, jsSlot[k] = "ended" PROVE FALSE
    OBVIOUS
  <2>1. jsRx = <<>> /\ jsWindow = <<>>
    BY <1>1 DEF MutexInv
  <2>2. JobsAt("window") \cup JobsAt("rx") = {}
    BY <1>1, <2>1 DEF StagedInv, JobsOf, ToSet
  <2> QED
    BY <1>2, <2>2
<1>10. /\ jsSlot' \in [Hands -> {"permit", "ask", "first", "ended"}]
       /\ jsSlot'[s] = "permit" /\ \A k \in Hands \ {s} : jsSlot'[k] = jsSlot[k]
  BY <1>1, SlotMoves
<1>11. \A k \in Hands : jsSlot'[k] # "ended" /\ jsSlot'[k] # "first"
  BY <1>1, <1>9, <1>10, SourceAssumption DEF MutexInv
<1>12. MutexInv'
  BY <1>1, <1>10, <1>11, SourceAssumption DEF MutexInv
<1> QED
  BY <1>7, <1>8, <1>12 DEF SourceInv

LEMMA AwaitFirstInv ==
    ASSUME SourceInv, NEW s \in Hands, AwaitFirst(s)
    PROVE  SourceInv'
<1>1. /\ jsSlot[s] = "ask" /\ jsMutex = NoSlot /\ jsWindow = <<>> /\ jsMutex' = s
      /\ SlotGoes(s, "first") /\ MutexInv /\ PermitsInv
  BY DEF AwaitFirst, SlotIs, SourceInv
<1>2. /\ jsSlot' \in [Hands -> {"permit", "ask", "first", "ended"}]
      /\ jsSlot'[s] = "first" /\ \A k \in Hands \ {s} : jsSlot'[k] = jsSlot[k]
  BY <1>1, SlotMoves
<1>3. AskingSlots' = AskingSlots
  BY <1>1, <1>2 DEF AskingSlots
<1>4. StagedInv'
  BY StagedStays DEF SourceInv, AwaitFirst, StagedInv
<1>5. RunningJobs' = RunningJobs /\ jsTails' = jsTails
  BY DEF AwaitFirst, RunningJobs, JobsAt
<1>6. PermitsInv'
  BY <1>1, <1>3, <1>5, PermitsStay
<1>7. MutexInv'
  BY <1>1, <1>2, SourceAssumption DEF MutexInv, AwaitFirst
<1> QED
  BY <1>4, <1>6, <1>7 DEF SourceInv

LEMMA EndSlotInv ==
    ASSUME SourceInv, NEW s \in Hands, EndSlot(s)
    PROVE  SourceInv'
<1>1. /\ jsSlot[s] \in {"permit", "ask", "first"} /\ SlotGoes(s, "ended") /\ MutexInv /\ PermitsInv
      /\ jsTails' = IF jsSlot[s] = "permit" THEN jsTails ELSE jsTails + 1
      /\ jsMutex' = IF jsMutex = s THEN NoSlot ELSE jsMutex
      /\ UNCHANGED <<jsOrder, jsJob, jsRx, jsWindow, jsOpen, jsStop>>
      /\ jsStop \/ (~jsOpen /\ jsMutex = s /\ jsRx = <<>>)
  BY DEF EndSlot, SlotIs, SourceInv, MutexInv, NothingComes
<1>2. /\ jsSlot' \in [Hands -> {"permit", "ask", "first", "ended"}]
      /\ jsSlot'[s] = "ended" /\ \A k \in Hands \ {s} : jsSlot'[k] = jsSlot[k]
      /\ AskingSlots' = AskingSlots \ {s}
  BY <1>1, SlotMoves
<1>3. StagedInv'
  BY <1>1, StagedStays DEF SourceInv, StagedInv
<1>4. RunningJobs' = RunningJobs /\ Cardinality(RunningJobs) \in Nat
  BY <1>1, FS_CardinalityType DEF RunningJobs, JobsAt, PermitsInv
<1>5. PermitsInv'
  <2>1. CASE jsSlot[s] = "permit"
    <3>1. AskingSlots' = AskingSlots
      BY <1>2, <2>1 DEF AskingSlots
    <3> QED
      BY <1>1, <1>4, <2>1, <3>1, PermitsStay
  <2>2. CASE jsSlot[s] # "permit"
    <3>1. s \in AskingSlots
      BY <1>1, <2>2 DEF AskingSlots
    <3>2. IsFiniteSet(AskingSlots') /\ Cardinality(AskingSlots') = Cardinality(AskingSlots) - 1
          /\ Cardinality(AskingSlots) \in Nat
      BY <1>1, <1>2, <3>1, OneLessOf DEF PermitsInv
    <3> QED
      BY <1>1, <1>4, <2>2, <3>2, SourceAssumption DEF PermitsInv
  <2> QED
    BY <2>1, <2>2
<1>6. MutexInv'
  <2>1. /\ jsMutex' \in Hands \cup {NoSlot} /\ (jsMutex' # NoSlot => jsWindow' = <<>>)
        /\ \A k \in Hands : jsSlot'[k] = "first" <=> jsMutex' = k
    BY <1>1, <1>2, SourceAssumption DEF MutexInv
  <2>2. ~jsStop' => ~jsOpen' /\ jsRx' = <<>> /\ jsWindow' = <<>>
    BY <1>1, SourceAssumption DEF MutexInv
  <2> QED
    BY <1>2, <2>1, <2>2 DEF MutexInv
<1> QED
  BY <1>3, <1>5, <1>6 DEF SourceInv

LEMMA EndTailInv ==
    ASSUME SourceInv, NEW j \in Rows, EndTail(j)
    PROVE  SourceInv'
<1>1. /\ jsJob[j] = "running" /\ jsJob \in [Rows -> Places] /\ jsTails' = jsTails + 1
      /\ jsJob' = [jsJob EXCEPT ![j] = "hopper"] /\ PermitsInv
  BY DEF EndTail, SourceInv, StagedInv
<1>2. StagedInv'
  <2>1. jsJob' \in [Rows -> Places]
    BY <1>1 DEF Places
  <2> QED
    BY <1>1, <2>1, StagedStays DEF SourceInv, EndTail
<1>3. j \in RunningJobs /\ RunningJobs' = RunningJobs \ {j} /\ AskingSlots' = AskingSlots
  BY <1>1 DEF RunningJobs, JobsAt, AskingSlots, EndTail
<1>4. IsFiniteSet(RunningJobs') /\ Cardinality(RunningJobs') = Cardinality(RunningJobs) - 1
      /\ Cardinality(RunningJobs) \in Nat
  BY <1>1, <1>3, OneLessOf DEF PermitsInv
<1>5. Cardinality(AskingSlots) \in Nat
  BY <1>1, FS_CardinalityType DEF PermitsInv
<1>6. PermitsInv'
  BY <1>1, <1>3, <1>4, <1>5, SourceAssumption DEF PermitsInv
<1> QED
  BY <1>2, <1>6 DEF SourceInv, MutexInv, EndTail

LEMMA WaitOnInv ==
    ASSUME SourceInv, WaitOn
    PROVE  SourceInv'
<1>1. PICK w : w = jsWindow
  OBVIOUS
<1>2. w \in Seq(WindowEntries) /\ Len(w) \in Nat /\ DOMAIN w = 1..Len(w)
  BY <1>1, LenProperties DEF SourceInv, StagedInv
<1>3. PICK older : older = [i \in DOMAIN w |->
                              [w[i] EXCEPT !.age = IF @ < MaxWait THEN @ + 1 ELSE @]]
  OBVIOUS
<1>4. jsWindow' = older
  BY <1>1, <1>3 DEF WaitOn
<1>5. ASSUME NEW i \in DOMAIN w
      PROVE  older[i] \in WindowEntries /\ older[i].job = w[i].job
  <2>1. PICK e \in WindowEntries : e = w[i]
    BY <1>2, ElementOfSeq
  <2>2. PICK age : age = IF e.age < MaxWait THEN e.age + 1 ELSE e.age
    OBVIOUS
  <2>3. age \in 0..MaxWait
    BY <2>2, SourceAssumption DEF WindowEntries
  <2>4. older[i] = [e EXCEPT !.age = age]
    BY <1>3, <2>1, <2>2
  <2> QED
    BY <2>1, <2>3, <2>4 DEF WindowEntries
<1>6. older \in Seq(WindowEntries) /\ DOMAIN older = DOMAIN w
  <2>1. older \in [1..Len(w) -> WindowEntries] /\ DOMAIN older = DOMAIN w
    BY <1>2, <1>3, <1>5
  <2> QED
    BY <1>2, <2>1
<1>7. JobsOf(older) = JobsOf(w) /\ (Apart(w) => Apart(older))
  BY <1>5, <1>6 DEF JobsOf, Apart
<1>8. StagedInv'
  BY <1>1, <1>4, <1>6, <1>7 DEF SourceInv, StagedInv, WaitOn, JobsAt
<1>9. PermitsInv'
  BY PermitsStay DEF SourceInv, WaitOn, RunningJobs, JobsAt, AskingSlots
<1>10. w # <<>>
  BY <1>1 DEF WaitOn
<1>11. MutexInv'
  BY <1>1, <1>10 DEF SourceInv, MutexInv, WaitOn
<1> QED
  BY <1>8, <1>9, <1>11 DEF SourceInv

LEMMA RaiseStopInv ==
    ASSUME SourceInv, RaiseStop
    PROVE  SourceInv'
<1>1. StagedInv'
  BY StagedStays DEF SourceInv, RaiseStop, StagedInv
<1>2. PermitsInv'
  BY PermitsStay DEF SourceInv, RaiseStop, RunningJobs, JobsAt, AskingSlots
<1> QED
  BY <1>1, <1>2 DEF SourceInv, MutexInv, RaiseStop

LEMMA SourceStart == SourceInit => SourceInv
<1> SUFFICES ASSUME SourceInit PROVE SourceInv
  OBVIOUS
<1>1. RunningJobs = {} /\ AskingSlots = {} /\ JobsAt("rx") = {} /\ JobsAt("window") = {}
  BY DEF SourceInit, RunningJobs, AskingSlots, JobsAt
<1>2. <<>> \in Seq(Rows) /\ <<>> \in Seq(WindowEntries) /\ JobsOf(<<>>) = {} /\ ToSet(<<>>) = {}
  BY EmptySeq DEF JobsOf, ToSet
<1>3. StagedInv
  <2>1. jsRx = <<>> /\ jsWindow = <<>> /\ DOMAIN jsRx = {} /\ DOMAIN jsWindow = {}
    BY DEF SourceInit
  <2>2. jsJob \in [Rows -> Places]
    BY DEF SourceInit, Places
  <2>3. Apart(jsWindow)
    BY <2>1 DEF Apart
  <2> QED
    BY <1>1, <1>2, <2>1, <2>2, <2>3 DEF StagedInv
<1>4. PermitsInv
  BY <1>1, FS_EmptySet, SourceAssumption DEF SourceInit, PermitsInv
<1>5. MutexInv
  BY SourceAssumption DEF SourceInit, MutexInv
<1> QED
  BY <1>3, <1>4, <1>5 DEF SourceInv

LEMMA SourceStep == SourceInv /\ [SourceNext]_sourceVars => SourceInv'
<1> SUFFICES ASSUME SourceInv, [SourceNext]_sourceVars PROVE SourceInv'
  OBVIOUS
<1>1. CASE UNCHANGED sourceVars
  BY <1>1 DEF sourceVars, SourceInv, StagedInv, PermitsInv, MutexInv, RunningJobs, AskingSlots,
     JobsAt,
     JobsOf, Apart
<1>2. CASE SourceNext
  <2>1. ASSUME NEW s \in Hands, SlotStep(s) PROVE SourceInv'
    <3>1. CASE Recv(s)
      BY <3>1, HandOutInv DEF Recv, SlotIs
    <3>2. CASE RecvFirst(s)
      <4>1. jsMutex = s
        BY <3>2 DEF RecvFirst, SlotIs, SourceInv, MutexInv
      <4> QED
        BY <3>2, <4>1, HandOutInv DEF RecvFirst, SlotIs
    <3> QED
      BY <2>1, <3>1, <3>2, TakeTailInv, AwaitFirstInv, EndSlotInv DEF SlotStep
  <2> QED
    BY <1>2, <2>1, PollInv, LandJobInv, EndTailInv, CloseChannelInv, RaiseStopInv, WaitOnInv
       DEF SourceNext
<1> QED
  BY <1>1, <1>2

\* What is staged is counted by the length of what it is in.
LEMMA StagedIsCounted ==
    SourceInv => SourceTypeOK /\ NothingLeftStaged
<1> SUFFICES ASSUME SourceInv PROVE SourceTypeOK /\ NothingLeftStaged
  OBVIOUS
<1>1. StagedInv /\ PermitsInv /\ MutexInv
  BY DEF SourceInv
<1>2. Cardinality(JobsAt("rx")) = Len(jsRx)
  <2>1. PICK rx : rx = jsRx
    OBVIOUS
  <2>2. PICK n \in Nat : n = Len(rx) /\ DOMAIN rx = 1..n /\ rx \in [1..n -> Rows]
    BY <1>1, <2>1, LenProperties DEF StagedInv
  <2>3. \A i, k \in 1..n : rx[i] = rx[k] => i = k
    BY <1>1, <2>1, <2>2 DEF StagedInv
  <2>4. Cardinality({rx[i] : i \in 1..n}) = n
    BY <2>2, <2>3, AsManyAsLong
  <2> QED
    BY <1>1, <2>1, <2>2, <2>4 DEF StagedInv, ToSet
<1>3. Cardinality(JobsAt("window")) = Len(jsWindow)
  <2>1. PICK w : w = jsWindow
    OBVIOUS
  <2>2. PICK n \in Nat : n = Len(w) /\ DOMAIN w = 1..n /\ \A i \in 1..n : w[i] \in WindowEntries
    <3>1. w \in Seq(WindowEntries)
      BY <1>1, <2>1 DEF StagedInv
    <3> QED
      BY <3>1, LenProperties, ElementOfSeq
  <2>3. PICK f : f = [i \in 1..n |-> w[i].job]
    OBVIOUS
  <2>4. f \in [1..n -> Rows] /\ \A i \in 1..n : f[i] = w[i].job
    BY <2>2, <2>3 DEF WindowEntries
  <2>5. \A i, k \in 1..n : f[i] = f[k] => i = k
    <3>1. Apart(w)
      BY <1>1, <2>1 DEF StagedInv
    <3> QED
      BY <2>2, <2>4, <3>1 DEF Apart
  <2>6. Cardinality({f[i] : i \in 1..n}) = n
    BY <2>4, <2>5, AsManyAsLong
  <2>7. JobsOf(w) = {f[i] : i \in 1..n}
    BY <2>2, <2>4 DEF JobsOf
  <2> QED
    BY <1>1, <2>1, <2>2, <2>6, <2>7 DEF StagedInv
<1>4. jsMutex # NoSlot <=> \E s \in Hands : SlotIs(s, "first")
  BY <1>1, SourceAssumption DEF MutexInv, SlotIs
<1>5. SourceTypeOK
  BY <1>1, <1>2, <1>3, <1>4 DEF SourceTypeOK, StagedInv, PermitsInv, JobsOf, RunningJobs,
     AskingSlots
<1>6. NothingLeftStaged
  <2> SUFFICES ASSUME ~jsStop, \A s \in Hands : SlotIs(s, "ended")
               PROVE  JobsAt("rx") \cup JobsAt("window") = {}
    BY DEF NothingLeftStaged
  <2>1. jsRx = <<>> /\ jsWindow = <<>>
    BY <1>1, SourceAssumption DEF MutexInv, SlotIs
  <2> QED
    BY <1>1, <2>1 DEF StagedInv, JobsOf, ToSet
<1> QED
  BY <1>5, <1>6

\* Only a call hands a job out, and it is the one it picked of what is at hand.
LEMMA OnlyCallsHandOut ==
    ASSUME SourceInv, [SourceNext]_sourceVars, NEW j \in Rows, HandedOut(j)
    PROVE  \E i \in Picked(AtHand) : i \in DOMAIN AtHand /\ AtHand[i].job = j
<1>1. jsJob \in [Rows -> Places] /\ jsJob' # jsJob
  BY DEF SourceInv, StagedInv, HandedOut
<1>2. PICK s \in Hands : HandOut(s)
  BY <1>1 DEF SourceNext, SlotStep, sourceVars, HandedOut, Poll, LandJob, EndTail, TakeTail, Recv,
     AwaitFirst, RecvFirst, EndSlot, CloseChannel, RaiseStop, WaitOn
<1> QED
  BY <1>2, HandOutMoves DEF SourceInv

LEMMA TiersFirst ==
    ASSUME SourceInv, [SourceNext]_sourceVars, NEW j \in Rows \ Sighted, HandedOut(j),
           jsOrder # "fifo"
    PROVE  Sighted \cap (JobsAt("rx") \cup JobsAt("window")) = {}
<1>1. PICK i \in Picked(AtHand) : i \in DOMAIN AtHand /\ AtHand[i].job = j
  BY OnlyCallsHandOut
<1>2. AtHand \in Seq(WindowEntries) /\ JobsOf(AtHand) = JobsAt("window") \cup JobsAt("rx")
  BY AtHandIs DEF SourceInv
<1>3. SightedIn(AtHand) = {}
  BY <1>1, <1>2, PickedIs
<1> QED
  BY <1>2, <1>3 DEF JobsOf, SightedIn

LEMMA AgeBeforeSize ==
    ASSUME SourceInv, [SourceNext]_sourceVars, NEW j \in Rows \ Sighted, HandedOut(j),
           NEW k \in DOMAIN jsWindow, k \in AgedIn(jsWindow)
    PROVE  \E i \in 1..k : jsWindow[i].job = j
<1>1. PICK i \in Picked(AtHand) : i \in DOMAIN AtHand /\ AtHand[i].job = j
  BY OnlyCallsHandOut
<1>2. PICK all : all = AtHand
  OBVIOUS
<1>3. all \in Seq(WindowEntries) /\ \A n \in DOMAIN jsWindow : n \in DOMAIN all
      /\ all[n] = jsWindow[n]
  BY <1>2, AtHandIs DEF SourceInv
<1>4. k \in AgedIn(all)
  BY <1>3 DEF AgedIn
<1>5. i <= k
  BY <1>1, <1>2, <1>3, <1>4, PickedIs
<1>6. DOMAIN jsWindow = 1..Len(jsWindow) /\ Len(jsWindow) \in Nat
  BY LenProperties DEF SourceInv, StagedInv
<1>7. i \in Nat /\ i \in 1..Len(all) /\ Len(all) \in Nat
  BY <1>1, <1>2, <1>3, LenProperties
<1>8. i \in 1..k /\ i \in DOMAIN jsWindow
  BY <1>5, <1>6, <1>7
<1> QED
  BY <1>1, <1>2, <1>3, <1>8

\* Where each staged job is, whose permit is whose, and who has the mutex, at every step.
THEOREM SourceInvariant == SourceSpec => []SourceInv
BY SourceStart, SourceStep, PTL DEF SourceSpec

\* Tiers first, age before size, and nothing left behind: for any jobs, sizes, slots and
\* permits, every job that is handed out is one the rule allows to go.
THEOREM DispatchStaysFair == SourceSpec => DispatchIsFair
<1>1. SourceSpec => [](SourceTypeOK /\ NothingLeftStaged)
  BY SourceInvariant, StagedIsCounted, PTL
<1>2. SourceInv /\ [SourceNext]_sourceVars =>
        [\A j \in Rows \ Sighted : HandedOut(j) /\ jsOrder # "fifo" =>
            Sighted \cap (JobsAt("rx") \cup JobsAt("window")) = {}]_sourceVars
  BY TiersFirst
<1>3. SourceSpec => SightedWaitsForNone
  BY <1>2, SourceInvariant, PTL DEF SourceSpec, SightedWaitsForNone
<1>4. SourceInv /\ [SourceNext]_sourceVars =>
        [\A j \in Rows \ Sighted, i \in DOMAIN jsWindow :
            HandedOut(j) /\ i \in AgedIn(jsWindow) =>
                \E k \in 1..i : jsWindow[k].job = j]_sourceVars
  BY AgeBeforeSize
<1>5. SourceSpec => AgedIsPassedByOlder
  BY <1>4, SourceInvariant, PTL DEF SourceSpec, AgedIsPassedByOlder
<1> QED
  BY <1>1, <1>3, <1>5 DEF DispatchIsFair

----------------------------------------------------------------------------
(* What a worker tells of itself                                           *)

\* The clock of the metrics, where an item has come to, and its times.
Stamp == Nat \cup {Never}

TailSteps == {"out", "queued", "dequeued", "timed", "stored", "counting", "ended",
              "erring", "erred", "lost"}

ItemTypes ==
    /\ wtNow \in Nat
    /\ wtItem \in [Items -> [pc : TailSteps, at : Stamp]]
    /\ wtStory \in [Items -> [done : Stamp, failed : Stamp]]

\* What an item holds of the clock is no older than a window, and a minute of the
\* history is given at the step that gives it.
StepsInv ==
    \A i \in Items :
        /\ wtItem[i].at <= wtNow /\ wtStory[i].done <= wtNow /\ wtStory[i].failed <= wtNow
        /\ wtItem[i].at # Never => wtNow - wtItem[i].at < Minutes
        /\ wtItem[i].pc = "counting" => wtItem[i].at # Never
        /\ wtStory[i].done # Never => wtItem[i].pc = "ended"
        /\ wtStory[i].failed # Never => wtItem[i].pc \notin {"out", "queued", "erring"}

DoneAt(m) == {i \in Items : wtStory[i].done = m}

\* A slot that is in use is that of its minute, and counts what was done in it.
SlotsInv ==
    /\ wtRate \in [0..Minutes - 1 -> [minute : Stamp, count : Nat]]
    /\ \A k \in 0..Minutes - 1 : wtRate[k].minute # Never =>
          /\ SlotOf(wtRate[k].minute) = k /\ wtRate[k].minute <= wtNow
          /\ IsFiniteSet(DoneAt(wtRate[k].minute))
          /\ wtRate[k].count = Cardinality(DoneAt(wtRate[k].minute))

\* No minute of the window has lost its slot.
KeptInv ==
    \A i \in Items : Within(wtStory[i].done) =>
        wtRate[SlotOf(wtStory[i].done)].minute = wtStory[i].done

RateInv == ItemTypes /\ StepsInv /\ SlotsInv /\ KeptInv

LEMMA MinuteHasSlot == \A m \in Nat : SlotOf(m) \in 0..Minutes - 1
BY TelemetryAssumption DEF SlotOf

\* Two minutes of one window that share a slot are one.
LEMMA OneOfASlot ==
    ASSUME NEW a \in Nat, NEW b \in Nat, SlotOf(a) = SlotOf(b), a - b < Minutes, b - a < Minutes
    PROVE  a = b
<1>1. Minutes \in Nat /\ Minutes > 0
  BY TelemetryAssumption
<1>2. PICK p \in Nat : p = a \div Minutes
  BY <1>1
<1>3. PICK q \in Nat : q = b \div Minutes
  BY <1>1
<1>4. PICK r \in Nat : r = a % Minutes /\ r = b % Minutes
  BY <1>1 DEF SlotOf
<1>5. a = Minutes * p + r /\ b = Minutes * q + r
  BY <1>1, <1>2, <1>3, <1>4
<1>6. p < q => Minutes * p + Minutes <= Minutes * q
  <2> SUFFICES ASSUME p < q PROVE Minutes * (p + 1) <= Minutes * q
    BY <1>1
  <2>1. p + 1 <= q
    OBVIOUS
  <2> QED
    BY <1>1, <2>1
<1>7. q < p => Minutes * q + Minutes <= Minutes * p
  <2> SUFFICES ASSUME q < p PROVE Minutes * (q + 1) <= Minutes * p
    BY <1>1
  <2>1. q + 1 <= p
    OBVIOUS
  <2> QED
    BY <1>1, <2>1
<1>8. Minutes * p \in Nat /\ Minutes * q \in Nat
  BY <1>1
<1> QED
  BY <1>1, <1>5, <1>6, <1>7, <1>8

\* An item that goes on by a step that gives no minute of the history.
LEMMA ItemMoves ==
    ASSUME RateInv, NEW i \in Items, NEW pc \in TailSteps, NEW at \in {Never, wtNow},
           ItemGoes(i, pc, at), UNCHANGED <<wtNow, wtRate, wtStory>>,
           pc = "counting" => at = wtNow,
           ~ (ItemAt(i, "ended")), ~ (ItemAt(i, "out") /\ pc # "queued"),
           ItemAt(i, "queued") => pc # "out",
           pc \in {"out", "queued", "erring"} => ItemAt(i, "out") \/ ItemAt(i, "queued")
    PROVE  RateInv'
<1> USE DEF RateInv
<1>1. wtItem' = [wtItem EXCEPT ![i] = [pc |-> pc, at |-> at]] /\ at \in Stamp
  BY DEF ItemGoes, Stamp, ItemTypes
<1>2. ItemTypes'
  BY <1>1 DEF ItemTypes, Stamp
<1>3. \A j \in Items : wtItem'[j] = IF j = i THEN [pc |-> pc, at |-> at] ELSE wtItem[j]
  BY <1>1 DEF ItemTypes
<1>4. StepsInv'
  BY <1>3, TelemetryAssumption DEF StepsInv, ItemAt, ItemTypes, Never
<1>5. SlotsInv'
  BY DEF SlotsInv, DoneAt
<1>6. KeptInv'
  BY DEF KeptInv, Within
<1> QED
  BY <1>2, <1>4, <1>5, <1>6

LEMMA MinuteInv == RateInv /\ Minute => RateInv'
<1> SUFFICES ASSUME RateInv, Minute PROVE RateInv'
  OBVIOUS
<1> USE DEF RateInv
<1>1. wtNow \in Nat /\ wtNow' = wtNow + 1 /\ UNCHANGED <<wtItem, wtRate, wtStory>>
      /\ \A i \in Items : wtItem[i].at # Never => wtNow - wtItem[i].at < Minutes - 1
  BY DEF Minute, ItemTypes
<1>2. ItemTypes'
  BY <1>1 DEF ItemTypes
<1>3. StepsInv'
  BY <1>1, TelemetryAssumption DEF StepsInv, ItemTypes, Stamp, Never
<1>4. SlotsInv'
  <2>1. \A k \in 0..Minutes - 1 : wtRate[k].minute \in Stamp
    BY DEF SlotsInv
  <2>2. UNCHANGED <<wtRate, wtStory>> /\ \A m : DoneAt(m)' = DoneAt(m)
    BY <1>1 DEF DoneAt
  <2>3. \A k \in 0..Minutes - 1 : wtRate[k].minute # Never => wtRate[k].minute <= wtNow'
    BY <1>1, <2>1 DEF SlotsInv, Stamp
  <2> QED
    BY <1>1, <2>2, <2>3 DEF SlotsInv, SlotOf, DoneAt
<1>5. KeptInv'
  <2>1. \A i \in Items : wtStory[i].done \in Stamp
    BY DEF ItemTypes
  <2>2. \A i \in Items : Within(wtStory[i].done)' => Within(wtStory[i].done)
    BY <1>1, <2>1, TelemetryAssumption DEF Within, Stamp, Never
  <2> QED
    BY <1>1, <2>2 DEF KeptInv
<1> QED
  BY <1>2, <1>3, <1>4, <1>5

LEMMA RecordInv ==
    ASSUME RateInv, NEW i \in Items, Record(i)
    PROVE  RateInv'
<1> USE DEF RateInv
<1>1. PICK m : m = wtItem[i].at
  OBVIOUS
<1>2. wtItem[i].pc = "counting" /\ m \in Nat /\ m # Never /\ m <= wtNow /\ wtNow - m < Minutes
      /\ wtStory[i].done = Never
  BY <1>1 DEF Record, ItemAt, StepsInv, ItemTypes, Stamp, Never
<1>3. PICK k \in 0..Minutes - 1 : k = SlotOf(m)
  BY <1>2, MinuteHasSlot
<1>4. PICK slot : slot = CountIn(wtRate[k], m)
  OBVIOUS
<1>5. /\ wtItem' = [wtItem EXCEPT ![i] = [pc |-> "ended", at |-> Never]]
      /\ wtRate' = [wtRate EXCEPT ![k] = slot]
      /\ wtStory' = [wtStory EXCEPT ![i].done = m] /\ wtNow' = wtNow
  BY <1>1, <1>3, <1>4 DEF Record, ItemGoes, SlotsInv
<1>6. /\ slot = [minute |-> m, count |-> slot.count] /\ slot.minute = m
      /\ wtRate[k].minute = m => slot.count = wtRate[k].count + 1
      /\ wtRate[k].minute # m => slot.count = 1
  BY <1>4 DEF CountIn
<1>7. slot.count \in Nat
  BY <1>6 DEF SlotsInv
<1>8. ItemTypes'
  <2>1. wtItem' \in [Items -> [pc : TailSteps, at : Stamp]]
    <3>1. PICK never \in Stamp : never = Never
      BY DEF Stamp
    <3>2. PICK ended \in TailSteps : ended = "ended"
      BY DEF TailSteps
    <3>3. wtItem' = [wtItem EXCEPT ![i] = [pc |-> ended, at |-> never]]
      BY <1>5, <3>1, <3>2
    <3> QED
      BY <3>3 DEF ItemTypes
  <2>2. wtStory' \in [Items -> [done : Stamp, failed : Stamp]]
    BY <1>2, <1>5 DEF ItemTypes, Stamp
  <2> QED
    BY <1>5, <2>1, <2>2 DEF ItemTypes
<1>9. /\ \A j \in Items : wtStory'[j] = IF j = i THEN [wtStory[i] EXCEPT !.done = m]
                                        ELSE wtStory[j]
      /\ wtStory'[i].done = m /\ wtStory'[i].failed = wtStory[i].failed
      /\ \A j \in Items : wtItem'[j] = IF j = i THEN [pc |-> "ended", at |-> Never] ELSE wtItem[j]
  BY <1>5 DEF ItemTypes
<1>10. StepsInv'
  BY <1>2, <1>5, <1>9, TelemetryAssumption DEF StepsInv, ItemTypes, Never
<1>11. \A n \in Stamp : n # m /\ n # Never => DoneAt(n)' = DoneAt(n)
  BY <1>2, <1>9 DEF DoneAt
<1>12. DoneAt(m)' = DoneAt(m) \cup {i} /\ i \notin DoneAt(m)
  BY <1>2, <1>9 DEF DoneAt
<1>13. wtRate[k].minute # m => DoneAt(m) = {}
  BY <1>2, <1>3 DEF DoneAt, KeptInv, Within
<1>14. IsFiniteSet(DoneAt(m)') /\ slot.count = Cardinality(DoneAt(m)')
  <2>1. CASE wtRate[k].minute = m
    <3>1. IsFiniteSet(DoneAt(m)) /\ wtRate[k].count = Cardinality(DoneAt(m))
      BY <1>2, <2>1 DEF SlotsInv
    <3> QED
      BY <1>6, <1>12, <2>1, <3>1, OneMoreOf
  <2>2. CASE wtRate[k].minute # m
    <3>1. DoneAt(m)' = {i}
      BY <1>12, <1>13, <2>2
    <3> QED
      BY <1>6, <2>2, <3>1, FS_Singleton
  <2> QED
    BY <2>1, <2>2
<1>15. wtRate' \in [0..Minutes - 1 -> [minute : Stamp, count : Nat]]
       /\ \A l \in 0..Minutes - 1 : wtRate'[l] = IF l = k THEN slot ELSE wtRate[l]
  <2>1. slot \in [minute : Stamp, count : Nat]
    BY <1>2, <1>6, <1>7 DEF Stamp
  <2> QED
    BY <1>5, <2>1 DEF SlotsInv
<1>16. SlotsInv'
  <2> SUFFICES ASSUME NEW l \in 0..Minutes - 1, wtRate'[l].minute # Never
               PROVE  /\ SlotOf(wtRate'[l].minute) = l /\ wtRate'[l].minute <= wtNow'
                      /\ IsFiniteSet(DoneAt(wtRate[l].minute)')
                      /\ wtRate'[l].count = Cardinality(DoneAt(wtRate[l].minute)')
    BY <1>15 DEF SlotsInv, SlotOf
  <2>1. CASE l = k
    BY <1>2, <1>3, <1>5, <1>6, <1>14, <1>15, <2>1 DEF DoneAt
  <2>2. CASE l # k
    <3>1. wtRate'[l] = wtRate[l] /\ SlotOf(wtRate[l].minute) = l /\ wtRate[l].minute \in Stamp
      BY <1>15, <2>2 DEF SlotsInv
    <3>2. wtRate[l].minute # m
      BY <1>3, <2>2, <3>1
    <3>3. DoneAt(wtRate[l].minute)' = DoneAt(wtRate[l].minute)
      BY <1>11, <3>1, <3>2 DEF DoneAt
    <3> QED
      BY <1>5, <3>1, <3>3 DEF SlotsInv
  <2> QED
    BY <2>1, <2>2
<1>17. KeptInv'
  <2> SUFFICES ASSUME NEW j \in Items, Within(wtStory[j].done)'
               PROVE  wtRate'[SlotOf(wtStory'[j].done)].minute = wtStory'[j].done
    BY DEF KeptInv, SlotOf
  <2>1. CASE j = i
    BY <1>3, <1>6, <1>9, <1>15, <2>1
  <2>2. CASE j # i
    <3>1. wtStory'[j] = wtStory[j] /\ Within(wtStory[j].done)
      BY <1>5, <1>9, <2>2 DEF Within
    <3>2. PICK n : n = wtStory[j].done
      OBVIOUS
    <3>3. n \in Nat /\ n <= wtNow /\ wtNow - n < Minutes /\ wtRate[SlotOf(n)].minute = n
      BY <3>1, <3>2 DEF StepsInv, ItemTypes, Stamp, Within, KeptInv
    <3>4. SlotOf(n) = k => n = m
      BY <1>2, <1>3, <3>3, OneOfASlot, TelemetryAssumption DEF ItemTypes
    <3>5. wtRate'[SlotOf(n)].minute = n
      BY <1>6, <1>15, <3>3, <3>4, MinuteHasSlot
    <3> QED
      BY <3>1, <3>2, <3>5
  <2> QED
    BY <2>1, <2>2
<1> QED
  BY <1>8, <1>10, <1>16, <1>17

\* The rate: one to one, what the slots of the window count is what was done in it.
LEMMA RateIsOfTheWindow == RateInv => RateCountsTheWindow
<1> SUFFICES ASSUME RateInv PROVE RateCountsTheWindow
  OBVIOUS
<1> USE DEF RateInv
<1> DEFINE Units == UNION {{k} \X (1..wtRate[k].count) : k \in Live}
           Window == {i \in Items : Within(wtStory[i].done)}
           Of(k) == DoneAt(wtRate[k].minute)
           nth == [k \in Live |-> CHOOSE f : f \in Bijection(1..wtRate[k].count, Of(k))]
           unit == [u \in Units |-> nth[u[1]][u[2]]]
<1>1. \A k \in Live : /\ k \in 0..Minutes - 1 /\ wtRate[k].minute # Never
                      /\ SlotOf(wtRate[k].minute) = k /\ wtRate[k].count \in Nat
                      /\ Within(wtRate[k].minute)
  BY DEF SlotsInv, Live, Within
<1>2. \A k \in Live : nth[k] \in Bijection(1..wtRate[k].count, Of(k))
  <2> SUFFICES ASSUME NEW k \in Live
               PROVE  \E f : f \in Bijection(1..wtRate[k].count, Of(k))
    OBVIOUS
  <2>1. IsFiniteSet(Of(k)) /\ wtRate[k].count = Cardinality(Of(k))
    BY <1>1 DEF SlotsInv
  <2>2. ExistsBijection(1..Cardinality(Of(k)), Of(k))
    BY <2>1, FS_CardinalityType, FS_CountingElements
  <2> QED
    BY <2>1, <2>2 DEF ExistsBijection
<1>3. IsFiniteSet(Units)
  <2>1. IsFiniteSet(Live)
    <3>1. IsFiniteSet(0..Minutes - 1)
      BY FS_Interval, TelemetryAssumption
    <3> QED
      BY <1>1, <3>1, FS_Subset
  <2> DEFINE Pieces == {{k} \X (1..wtRate[k].count) : k \in Live}
             piece == [k \in Live |-> {k} \X (1..wtRate[k].count)]
  <2>2. piece \in Surjection(Live, Pieces)
    BY DEF Surjection
  <2>3. IsFiniteSet(Pieces)
    BY <2>1, <2>2, FS_Surjection
  <2>4. ASSUME NEW k \in Live PROVE IsFiniteSet({k} \X (1..wtRate[k].count))
    <3>1. IsFiniteSet({k}) /\ IsFiniteSet(1..wtRate[k].count)
      <4>1. PICK n \in Nat : n = wtRate[k].count
        BY <1>1
      <4> QED
        BY <4>1, FS_Singleton, FS_Interval, 1 \in Int /\ n \in Int
    <3> QED
      BY <3>1, FS_Product
  <2> QED
    BY <2>3, <2>4, FS_UNION
<1>4. \A k \in Live : \A n \in 1..wtRate[k].count : <<k, n>> \in Units
  OBVIOUS
<1>5. \A u \in Units : u = <<u[1], u[2]>> /\ u[1] \in Live /\ u[2] \in 1..wtRate[u[1]].count
  OBVIOUS
<1> HIDE DEF Units, nth
<1>6. \A k \in Live : \A n \in 1..wtRate[k].count :
         nth[k][n] \in Items /\ wtStory[nth[k][n]].done = wtRate[k].minute
  BY <1>2 DEF Bijection, Injection, DoneAt
<1>7. unit \in [Units -> Window]
  BY <1>1, <1>5, <1>6
<1>8. ASSUME NEW u \in Units, NEW v \in Units, unit[u] = unit[v] PROVE u = v
  <2>1. nth[u[1]][u[2]] = nth[v[1]][v[2]]
    BY <1>8
  <2>2. u[1] = v[1]
    BY <1>1, <1>5, <1>6, <2>1
  <2>3. u[2] = v[2]
    <3>1. PICK k \in Live : k = u[1] /\ k = v[1]
      BY <1>5, <2>2
    <3>2. PICK a \in 1..wtRate[k].count : a = u[2]
      BY <1>5, <3>1
    <3>3. PICK b \in 1..wtRate[k].count : b = v[2]
      BY <1>5, <3>1
    <3>4. \A x, y \in 1..wtRate[k].count : nth[k][x] = nth[k][y] => x = y
      BY <1>2 DEF Bijection, Injection, IsInjective
    <3> QED
      BY <2>1, <3>1, <3>2, <3>3, <3>4
  <2> QED
    BY <1>5, <2>2, <2>3
<1>9. ASSUME NEW i \in Window PROVE \E u \in Units : unit[u] = i
  <2>1. PICK k : k = SlotOf(wtStory[i].done)
    OBVIOUS
  <2>2. wtStory[i].done \in Nat
    BY DEF ItemTypes, Stamp, Within
  <2>3. k \in Live /\ i \in Of(k)
    BY <2>1, <2>2, MinuteHasSlot DEF KeptInv, SlotsInv, Live, DoneAt
  <2>4. PICK n \in 1..wtRate[k].count : nth[k][n] = i
    BY <1>2, <2>3 DEF Bijection, Surjection
  <2>5. <<k, n>> \in Units
    BY <1>4, <2>3, <2>4
  <2>6. unit[<<k, n>>] = nth[k][n]
    BY <2>5
  <2> QED
    BY <2>4, <2>5, <2>6
<1>10. unit \in Bijection(Units, Window)
  BY <1>7, <1>8, <1>9 DEF Bijection, Injection, IsInjective, Surjection
<1> HIDE DEF unit, Window
<1>11. Cardinality(Units) = Cardinality(Window)
  BY <1>3, <1>10, FS_Bijection DEF ExistsBijection
<1> QED
  BY <1>11 DEF RateCountsTheWindow, Completions, Units, Window

----------------------------------------------------------------------------
\* The errors stand from the oldest, none of them after the clock.
SortedInv ==
    /\ wtErrors \in Seq(Nat)
    /\ \A k \in 1..Len(wtErrors) : wtErrors[k] <= wtNow
    /\ \A j, k \in 1..Len(wtErrors) : j <= k => wtErrors[j] <= wtErrors[k]

\* Each is that of an item, no two that of one, and none of the window is missing.
AreOf(who, times) ==
    /\ who \in [1..Len(times) -> Items]
    /\ \A j, k \in 1..Len(times) : who[j] = who[k] => j = k
    /\ \A k \in 1..Len(times) : wtStory[who[k]].failed = times[k]
    /\ \A i \in Items : wtStory[i].failed # Never /\ wtNow - wtStory[i].failed <= Minutes =>
          \E k \in 1..Len(times) : who[k] = i

ErrorsInv == SortedInv /\ \E who : AreOf(who, wtErrors)

\* A prune of times that stand from the oldest drops those that have left the window.
LEMMA PrunedIs ==
    ASSUME ItemTypes, SortedInv
    PROVE  \E d, n \in Nat :
             /\ Len(wtErrors) = d + n /\ Pruned(wtErrors) \in Seq(Nat)
             /\ Len(Pruned(wtErrors)) = n
             /\ \A k \in 1..n : Pruned(wtErrors)[k] = wtErrors[k + d]
             /\ \A k \in 1..d + n : k <= d <=> wtNow - wtErrors[k] > Minutes
<1> DEFINE old == {k \in 1..Len(wtErrors) : \A j \in 1..k : wtNow - wtErrors[j] > Minutes}
           fresh == {k \in 1..Len(wtErrors) : ~ (wtNow - wtErrors[k] > Minutes)}
<1>1. wtNow \in Nat /\ Minutes \in Nat /\ wtErrors \in Seq(Nat)
  BY TelemetryAssumption DEF ItemTypes, SortedInv
<1>2. PICK l \in Nat : l = Len(wtErrors)
  BY <1>1
<1>3. \A k \in 1..l : wtErrors[k] \in Nat
  BY <1>1, <1>2
<1>4. PICK d \in 0..l : old = 1..d /\ \A k \in 1..l : k <= d <=> wtNow - wtErrors[k] > Minutes
  <2>1. CASE fresh = {}
    <3>1. old = 1..l
      BY <1>2, <2>1
    <3> QED
      BY <1>2, <2>1, <3>1
  <2>2. CASE fresh # {}
    <3>1. fresh \in SUBSET Nat
      OBVIOUS
    <3>2. PICK e : e = Min(fresh)
      OBVIOUS
    <3>3. e \in fresh /\ \A k \in fresh : e <= k
      BY <2>2, <3>1, <3>2, LeastOf
    <3>4. e \in 1..l /\ ~ (wtNow - wtErrors[e] > Minutes)
      BY <1>2, <3>3
    <3>5. \A k \in 1..l : e <= k => ~ (wtNow - wtErrors[k] > Minutes)
      BY <1>1, <1>2, <1>3, <3>4 DEF SortedInv
    <3>6. \A k \in 1..l : k < e => wtNow - wtErrors[k] > Minutes
      BY <1>2, <3>3, <3>4
    <3>7. PICK f \in 0..l : f = e - 1
      BY <3>4
    <3>8. \A k \in 1..l : k <= f <=> wtNow - wtErrors[k] > Minutes
      BY <3>4, <3>5, <3>6, <3>7
    <3>9. old = 1..f
      BY <1>2, <3>8
    <3> QED
      BY <3>8, <3>9
  <2> QED
    BY <2>1, <2>2
<1> HIDE DEF old
<1>5. Cardinality(old) = d
  BY <1>4, FS_Interval
<1>6. PICK first : first = d + 1
  OBVIOUS
<1>7. PICK n \in Nat : n = l - d
  <2>1. l \in Nat /\ d \in 0..l
    BY <1>2, <1>4
  <2> QED
    BY <2>1
<1>8. Pruned(wtErrors) = SubSeq(wtErrors, first, l)
  BY <1>2, <1>5, <1>6 DEF Pruned, old
<1>9. l = d + n
  BY <1>2, <1>4, <1>7
<1>10. /\ Pruned(wtErrors) \in Seq(Nat) /\ Len(Pruned(wtErrors)) = n
       /\ \A k \in 1..n : Pruned(wtErrors)[k] = wtErrors[k + d]
  <2>1. \A k \in first..l : k \in 1..Len(wtErrors)
    BY <1>2, <1>4, <1>6
  <2>2. Pruned(wtErrors) = [k \in 1..n |-> wtErrors[first + k - 1]]
    BY <1>1, <1>2, <1>4, <1>6, <1>7, <1>8
  <2>3. \A k \in 1..n : first + k - 1 = k + d /\ k + d \in 1..l
    BY <1>4, <1>6, <1>7
  <2>4. Pruned(wtErrors) = [k \in 1..n |-> wtErrors[k + d]]
    BY <2>2, <2>3
  <2>5. \A k \in 1..n : wtErrors[k + d] \in Nat
    BY <1>3, <2>3
  <2> QED
    BY <2>4, <2>5
<1> QED
  BY <1>2, <1>4, <1>9, <1>10

\* What a prune leaves is in order, and is of the same items.
LEMMA PrunedInv ==
    ASSUME ItemTypes, ErrorsInv
    PROVE  \E who, n : /\ n \in Nat /\ n = Len(Pruned(wtErrors)) /\ AreOf(who, Pruned(wtErrors))
                       /\ Pruned(wtErrors) \in Seq(Nat)
                       /\ \A k \in 1..n : /\ Pruned(wtErrors)[k] <= wtNow
                                           /\ wtNow - Pruned(wtErrors)[k] <= Minutes
                       /\ \A j, k \in 1..n : j <= k => Pruned(wtErrors)[j] <= Pruned(wtErrors)[k]
<1> PICK times : times = Pruned(wtErrors)
  OBVIOUS
<1>1. PICK d, n \in Nat :
         /\ Len(wtErrors) = d + n /\ times \in Seq(Nat) /\ Len(times) = n
         /\ \A k \in 1..n : times[k] = wtErrors[k + d]
         /\ \A k \in 1..d + n : k <= d <=> wtNow - wtErrors[k] > Minutes
  BY PrunedIs DEF ErrorsInv
<1>2. PICK who : AreOf(who, wtErrors)
  BY DEF ErrorsInv
<1> DEFINE rest == [k \in 1..n |-> who[k + d]]
<1>3. \A k \in 1..n : k + d \in 1..d + n /\ ~ (k + d <= d)
  OBVIOUS
<1>4. \A k \in 1..d + n : wtErrors[k] \in Nat /\ wtErrors[k] <= wtNow
  BY <1>1 DEF ErrorsInv, SortedInv
<1>5. rest \in [1..n -> Items]
  BY <1>1, <1>2, <1>3 DEF AreOf
<1>6. \A j, k \in 1..n : rest[j] = rest[k] => j = k
  BY <1>1, <1>2, <1>3 DEF AreOf
<1>7. \A k \in 1..n : wtStory[rest[k]].failed = times[k]
  BY <1>1, <1>2, <1>3 DEF AreOf
<1>8. ASSUME NEW i \in Items, wtStory[i].failed # Never, wtNow - wtStory[i].failed <= Minutes
      PROVE  \E k \in 1..n : rest[k] = i
  <2>1. PICK k \in 1..d + n : who[k] = i
    BY <1>1, <1>2, <1>8 DEF AreOf
  <2>2. wtNow - wtErrors[k] <= Minutes /\ wtErrors[k] \in Nat
    BY <1>1, <1>2, <1>4, <1>8, <2>1 DEF AreOf
  <2>3. ~ (k <= d)
    BY <1>1, <2>1, <2>2, TelemetryAssumption DEF ItemTypes
  <2>4. PICK j \in 1..n : j = k - d
    BY <1>1, <2>1, <2>3
  <2>5. j + d = k
    BY <1>1, <2>1, <2>4
  <2> QED
    BY <2>1, <2>5
<1> HIDE DEF rest
<1>9. AreOf(rest, times)
  BY <1>1, <1>5, <1>6, <1>7, <1>8 DEF AreOf
<1>10. \A k \in 1..n : times[k] <= wtNow /\ wtNow - times[k] <= Minutes
  <2> SUFFICES ASSUME NEW k \in 1..n PROVE times[k] <= wtNow /\ wtNow - times[k] <= Minutes
    OBVIOUS
  <2>1. PICK j \in 1..d + n : j = k + d /\ ~ (j <= d)
    BY <1>1, <1>3
  <2>2. PICK t \in Nat : t = wtErrors[j] /\ t = times[k] /\ t <= wtNow
    BY <1>1, <1>4, <2>1
  <2>3. ~ (wtNow - t > Minutes)
    BY <1>1, <2>1, <2>2
  <2> QED
    BY <2>2, <2>3, TelemetryAssumption DEF ItemTypes
<1>11. \A j, k \in 1..n : j <= k => times[j] <= times[k]
  BY <1>1, <1>3 DEF ErrorsInv, SortedInv
<1> QED
  BY <1>1, <1>9, <1>10, <1>11

LEMMA SnapshotInv == ItemTypes /\ ErrorsInv /\ Snapshot => ErrorsInv'
<1> SUFFICES ASSUME ItemTypes, ErrorsInv, Snapshot PROVE ErrorsInv'
  OBVIOUS
<1>1. wtErrors' = Pruned(wtErrors) /\ UNCHANGED <<wtNow, wtStory>>
  BY DEF Snapshot
<1>2. PICK who : AreOf(who, Pruned(wtErrors))
  BY PrunedInv
<1>3. AreOf(who, wtErrors)'
  BY <1>1, <1>2 DEF AreOf
<1>4. SortedInv'
  BY <1>1, PrunedInv DEF SortedInv
<1> QED
  BY <1>3, <1>4 DEF ErrorsInv

LEMMA RecordErrorInv ==
    ASSUME RateInv, ErrorsInv, NEW i \in Items, RecordError(i)
    PROVE  ErrorsInv'
<1> PICK times : times = Pruned(wtErrors)
  OBVIOUS
<1> PICK now : now = wtNow
  OBVIOUS
<1>1. PICK who, n : /\ n \in Nat /\ n = Len(times) /\ AreOf(who, times) /\ times \in Seq(Nat)
                    /\ \A k \in 1..n : times[k] <= now
                    /\ \A j, k \in 1..n : j <= k => times[j] <= times[k]
  BY PrunedInv DEF RateInv
<1>2. now \in Nat /\ wtErrors' = Append(times, now) /\ wtNow' = now
      /\ wtStory' = [wtStory EXCEPT ![i].failed = now]
  BY DEF RecordError, ErrorTime, RateInv, ItemTypes
<1>3. /\ \A j \in Items : j # i => wtStory'[j] = wtStory[j]
      /\ wtStory'[i].failed = now /\ wtStory[i].failed = Never
  BY <1>2 DEF RecordError, ItemAt, RateInv, ItemTypes, StepsInv
<1>4. PICK m \in Nat : m = n + 1
  BY <1>1
<1>5. /\ wtErrors' \in Seq(Nat) /\ Len(wtErrors') = m
      /\ \A k \in 1..m : wtErrors'[k] = IF k = m THEN now ELSE times[k]
  BY <1>1, <1>2, <1>4
<1>6. SortedInv'
  BY <1>1, <1>2, <1>4, <1>5 DEF SortedInv
<1> DEFINE and == [k \in 1..m |-> IF k = m THEN i ELSE who[k]]
<1>7. \A k \in 1..m : k # m => k \in 1..n
  BY <1>1, <1>4
<1>8. \A k \in 1..n : who[k] \in Items /\ wtStory[who[k]].failed = times[k] /\ times[k] \in Nat
  BY <1>1 DEF AreOf
<1>9. \A k \in 1..n : who[k] # i
  BY <1>3, <1>8 DEF Never
<1>10. and \in [1..m -> Items]
  BY <1>7, <1>8
<1>11. \A j, k \in 1..m : and[j] = and[k] => j = k
  BY <1>1, <1>7, <1>9 DEF AreOf
<1>12. \A k \in 1..m : wtStory'[and[k]].failed = wtErrors'[k]
  BY <1>3, <1>5, <1>7, <1>8, <1>9
<1>13. ASSUME NEW j \in Items, wtStory'[j].failed # Never, now - wtStory'[j].failed <= Minutes
       PROVE  \E k \in 1..m : and[k] = j
  <2>1. CASE j = i
    <3>1. m \in 1..m /\ and[m] = i
      BY <1>1, <1>4
    <3> QED
      BY <2>1, <3>1
  <2>2. CASE j # i
    <3>1. PICK k \in 1..n : who[k] = j
      BY <1>1, <1>3, <1>13, <2>2 DEF AreOf
    <3> QED
      BY <1>1, <1>4, <3>1
  <2> QED
    BY <2>1, <2>2
<1> HIDE DEF and
<1>14. AreOf(and, wtErrors)'
  BY <1>2, <1>5, <1>10, <1>11, <1>12, <1>13 DEF AreOf
<1> QED
  BY <1>6, <1>14 DEF ErrorsInv

LEMMA RecordErrorRate ==
    ASSUME RateInv, NEW i \in Items, RecordError(i)
    PROVE  RateInv'
<1> USE DEF RateInv
<1> PICK now : now = wtNow
  OBVIOUS
<1>1. PICK never \in Stamp : never = Never
  BY DEF Stamp
<1>2. PICK erred \in TailSteps : erred = "erred"
  BY DEF TailSteps
<1>3. /\ now \in Nat /\ wtNow' = now /\ UNCHANGED wtRate /\ wtItem[i].pc = "erring"
      /\ wtItem' = [wtItem EXCEPT ![i] = [pc |-> erred, at |-> never]]
      /\ wtStory' = [wtStory EXCEPT ![i].failed = now]
  BY <1>1, <1>2 DEF RecordError, ErrorTime, ItemGoes, ItemAt, ItemTypes
<1>4. now \in Stamp
  BY <1>3 DEF Stamp
<1>5. ItemTypes'
  <2>1. wtItem' \in [Items -> [pc : TailSteps, at : Stamp]]
    BY <1>3 DEF ItemTypes
  <2>2. wtStory' \in [Items -> [done : Stamp, failed : Stamp]]
    BY <1>3, <1>4 DEF ItemTypes
  <2> QED
    BY <1>3, <2>1, <2>2 DEF ItemTypes
<1>6. /\ \A j \in Items : wtItem'[j] = IF j = i THEN [pc |-> erred, at |-> never] ELSE wtItem[j]
      /\ \A j \in Items : /\ wtStory'[j].done = wtStory[j].done
                          /\ wtStory'[j].failed = IF j = i THEN now ELSE wtStory[j].failed
  BY <1>3 DEF ItemTypes
<1>7. StepsInv'
  BY <1>1, <1>2, <1>3, <1>6, TelemetryAssumption DEF StepsInv, ItemTypes, Never
<1>8. \A m : DoneAt(m)' = DoneAt(m)
  BY <1>6 DEF DoneAt
<1>9. SlotsInv'
  BY <1>3, <1>8 DEF SlotsInv, SlotOf, DoneAt
<1>10. KeptInv'
  BY <1>3, <1>6 DEF KeptInv, Within, SlotOf
<1> QED
  BY <1>5, <1>7, <1>9, <1>10

\* A step that records no error.
LEMMA ErrorsStay ==
    ASSUME ItemTypes, ErrorsInv, UNCHANGED wtErrors, wtNow' \in Nat, wtNow <= wtNow',
           \A i \in Items : wtStory'[i].failed = wtStory[i].failed
    PROVE  ErrorsInv'
<1>1. PICK who : AreOf(who, wtErrors)
  BY DEF ErrorsInv
<1>2. \A i \in Items : wtStory[i].failed \in Stamp /\ wtNow \in Nat
  BY DEF ItemTypes
<1>3. \A i \in Items : wtStory[i].failed # Never /\ wtNow' - wtStory[i].failed <= Minutes =>
         wtNow - wtStory[i].failed <= Minutes
  BY <1>2, TelemetryAssumption DEF Stamp, Never
<1>4. AreOf(who, wtErrors)'
  BY <1>1, <1>3 DEF AreOf
<1>5. SortedInv'
  BY <1>2 DEF ErrorsInv, SortedInv, ItemTypes
<1> QED
  BY <1>4, <1>5 DEF ErrorsInv

LEMMA ErrorsAreOfTheWindow == ItemTypes /\ ErrorsInv => ErrorsCountTheWindow
<1> SUFFICES ASSUME ItemTypes, ErrorsInv PROVE ErrorsCountTheWindow
  OBVIOUS
<1> PICK times : times = Pruned(wtErrors)
  OBVIOUS
<1> DEFINE Window == {i \in Items : wtStory[i].failed # Never
                                     /\ wtNow - wtStory[i].failed <= Minutes}
<1>1. PICK who, n : /\ n \in Nat /\ n = Len(times) /\ AreOf(who, times) /\ times \in Seq(Nat)
                    /\ \A k \in 1..n : wtNow - times[k] <= Minutes
  BY PrunedInv
<1>2. Window = {who[k] : k \in 1..n}
  <2>1. \A k \in 1..n : who[k] \in Items /\ wtStory[who[k]].failed = times[k] /\ times[k] # Never
    BY <1>1 DEF AreOf, Never
  <2> QED
    BY <1>1, <2>1 DEF AreOf
<1>3. who \in [1..n -> Items] /\ \A j, k \in 1..n : who[j] = who[k] => j = k
  BY <1>1 DEF AreOf
<1> HIDE DEF Window
<1>4. Cardinality(Window) = n
  BY <1>1, <1>2, <1>3, AsManyAsLong
<1> QED
  BY <1>1, <1>4 DEF ErrorsCountTheWindow, Window
----------------------------------------------------------------------------
MetricInv == RateInv /\ ErrorsInv

LEMMA RateStays == RateInv /\ UNCHANGED <<wtNow, wtItem, wtRate, wtStory>> => RateInv'
<1> SUFFICES ASSUME RateInv, UNCHANGED <<wtNow, wtItem, wtRate, wtStory>> PROVE RateInv'
  OBVIOUS
<1>1. ItemTypes' /\ StepsInv'
  BY DEF RateInv, ItemTypes, StepsInv
<1>2. \A m : DoneAt(m)' = DoneAt(m)
  BY DEF DoneAt
<1>3. SlotsInv'
  BY <1>2 DEF RateInv, SlotsInv, SlotOf, DoneAt
<1>4. KeptInv'
  BY DEF RateInv, KeptInv, Within, SlotOf
<1> QED
  BY <1>1, <1>3, <1>4 DEF RateInv

LEMMA MetricStart == MetricsInit => MetricInv
<1> SUFFICES ASSUME MetricsInit PROVE MetricInv
  OBVIOUS
<1>1. PICK never \in Stamp : never = Never
  BY DEF Stamp
<1>2. PICK zero \in Nat : zero = 0
  OBVIOUS
<1>3. PICK out \in TailSteps : out = "out"
  BY DEF TailSteps
<1>4. /\ wtNow = zero /\ wtItem = [i \in Items |-> [pc |-> out, at |-> never]]
      /\ wtRate = [k \in 0..Minutes - 1 |-> [minute |-> never, count |-> zero]]
      /\ wtErrors = <<>> /\ wtStory = [i \in Items |-> [done |-> never, failed |-> never]]
  BY <1>1, <1>2, <1>3 DEF MetricsInit
<1>5. ItemTypes
  BY <1>1, <1>2, <1>4 DEF ItemTypes
<1>6. StepsInv
  BY <1>1, <1>2, <1>3, <1>4 DEF StepsInv, Never
<1>7. SlotsInv
  BY <1>1, <1>4 DEF SlotsInv
<1>8. KeptInv
  BY <1>1, <1>4 DEF KeptInv, Within
<1>9. SortedInv
  BY <1>4 DEF SortedInv
<1>10. AreOf([k \in 1..0 |-> 0], <<>>)
  BY <1>1, <1>4 DEF AreOf
<1> QED
  BY <1>4, <1>5, <1>6, <1>7, <1>8, <1>9, <1>10 DEF MetricInv, RateInv, ErrorsInv

LEMMA MetricStep == MetricInv /\ MetricsNext => MetricInv'
<1> SUFFICES ASSUME MetricInv, MetricsNext PROVE MetricInv'
  OBVIOUS
<1>1. RateInv /\ ErrorsInv /\ ItemTypes /\ wtNow \in Nat
  BY DEF MetricInv, RateInv, ItemTypes
<1>2. ASSUME NEW i \in Items, RateInv', UNCHANGED <<wtNow, wtErrors, wtStory>> PROVE MetricInv'
  BY <1>1, <1>2, ErrorsStay DEF MetricInv
<1>3. ASSUME NEW i \in Items, Enqueue(i) PROVE MetricInv'
  <2>1. RateInv'
    BY <1>1, <1>3, ItemMoves DEF Enqueue, ItemAt, TailSteps
  <2> QED
    BY <1>2, <1>3, <2>1 DEF Enqueue
<1>4. ASSUME NEW i \in Items, Dequeue(i) PROVE MetricInv'
  <2>1. RateInv'
    BY <1>1, <1>4, ItemMoves DEF Dequeue, ItemAt, TailSteps
  <2> QED
    BY <1>2, <1>4, <2>1 DEF Dequeue
<1>5. ASSUME NEW i \in Items, ReadClock(i) PROVE MetricInv'
  <2>1. RateInv'
    BY <1>1, <1>5, ItemMoves DEF ReadClock, ItemAt, TailSteps
  <2> QED
    BY <1>2, <1>5, <2>1 DEF ReadClock
<1>6. ASSUME NEW i \in Items, StoreLast(i) PROVE MetricInv'
  <2>1. RateInv'
    BY <1>1, <1>6, ItemMoves DEF StoreLast, ItemAt, TailSteps
  <2> QED
    BY <1>2, <1>6, <2>1 DEF StoreLast
<1>7. ASSUME NEW i \in Items, ReadMinute(i) PROVE MetricInv'
  <2>1. RateInv'
    BY <1>1, <1>7, ItemMoves DEF ReadMinute, ItemAt, TailSteps
  <2> QED
    BY <1>2, <1>7, <2>1 DEF ReadMinute
<1>8. ASSUME NEW i \in Items, Fail(i) PROVE MetricInv'
  <2>1. RateInv'
    BY <1>1, <1>8, ItemMoves DEF Fail, ItemAt, TailSteps
  <2> QED
    BY <1>2, <1>8, <2>1 DEF Fail
<1>9. ASSUME NEW i \in Items, TailPanics(i) PROVE MetricInv'
  <2>1. RateInv'
    BY <1>1, <1>9, ItemMoves DEF TailPanics, ItemAt, TailSteps
  <2> QED
    BY <1>2, <1>9, <2>1 DEF TailPanics
<1>10. ASSUME NEW i \in Items, Record(i) PROVE MetricInv'
  <2>1. RateInv'
    BY <1>1, <1>10, RecordInv
  <2>2. \A j \in Items : wtStory'[j].failed = wtStory[j].failed
    <3>1. PICK m : m = wtItem[i].at
      OBVIOUS
    <3>2. wtStory' = [wtStory EXCEPT ![i].done = m]
      BY <1>10, <3>1 DEF Record
    <3> QED
      BY <1>1, <3>2 DEF ItemTypes
  <2>3. UNCHANGED <<wtNow, wtErrors>>
    BY <1>10 DEF Record
  <2> QED
    BY <1>1, <2>1, <2>2, <2>3, ErrorsStay DEF MetricInv
<1>11. ASSUME NEW i \in Items, RecordError(i) PROVE MetricInv'
  BY <1>1, <1>11, RecordErrorInv, RecordErrorRate DEF MetricInv
<1>12. CASE Snapshot
  <2>1. RateInv'
    BY <1>1, <1>12, RateStays DEF Snapshot
  <2> QED
    BY <1>1, <1>12, <2>1, SnapshotInv DEF MetricInv
<1>13. CASE Minute
  <2>1. UNCHANGED <<wtErrors, wtStory>> /\ wtNow' = wtNow + 1
    BY <1>13 DEF Minute
  <2>2. wtNow' \in Nat /\ wtNow <= wtNow'
    BY <1>1, <2>1
  <2> QED
    BY <1>1, <1>13, <2>1, <2>2, MinuteInv, ErrorsStay DEF MetricInv
<1> QED
  BY <1>3, <1>4, <1>5, <1>6, <1>7, <1>8, <1>9, <1>10, <1>11, <1>12, <1>13 DEF MetricsNext

LEMMA MetricStay == MetricInv /\ UNCHANGED metricVars => MetricInv'
<1> SUFFICES ASSUME MetricInv, UNCHANGED metricVars PROVE MetricInv'
  OBVIOUS
<1>1. UNCHANGED <<wtNow, wtItem, wtRate, wtErrors, wtStory>>
  BY DEF metricVars
<1>2. RateInv'
  BY <1>1, RateStays DEF MetricInv
<1>3. ErrorsInv'
  <2>1. wtNow \in Nat /\ wtNow' = wtNow /\ ItemTypes
    BY <1>1 DEF MetricInv, RateInv, ItemTypes
  <2> QED
    BY <1>1, <2>1, ErrorsStay DEF MetricInv
<1> QED
  BY <1>2, <1>3 DEF MetricInv

----------------------------------------------------------------------------
\* The running time of one analysis, and of its phase.
LoopTypes ==
    /\ atLoop \in [gap : Nat, ran : Nat, timedOut : BOOLEAN]
    /\ atSlow \in [phase : Nat, since : Nat, logged : 0..2]
    /\ atTrue \in [phase : Nat, inPhase : Nat, run : Nat, stops : 0..1]

\* What is counted, the gap included, is what has run and two ticks for a stop; that of
\* the phase likewise, from the first look at it.
RanInv == atLoop.ran + CountedRun(atLoop.gap) <= atTrue.run + 2 * atTrue.stops

PhaseInv ==
    /\ atSlow.phase <= atTrue.phase
    /\ atSlow.phase = atTrue.phase =>
         /\ atSlow.since <= atLoop.ran
         /\ atLoop.ran - atSlow.since + CountedRun(atLoop.gap)
              <= atTrue.inPhase + 2 * atTrue.stops
         /\ atSlow.logged = 1 => Slow <= atTrue.inPhase + 2 * atTrue.stops
         /\ atSlow.logged = 2 => 3 * Slow <= atTrue.inPhase + 2 * atTrue.stops

LoopInv ==
    /\ LoopTypes /\ RanInv /\ PhaseInv
    /\ atLoop.timedOut => Deadline <= atTrue.run + 2 * atTrue.stops

LEMMA CountedIs ==
    \A gap \in Nat : /\ CountedRun(gap) \in 0..2 /\ CountedRun(0) = 0
                     /\ CountedRun(gap + 1) <= CountedRun(gap) + 1
BY DEF CountedRun

LEMMA RunsInv == LoopInv /\ Runs => LoopInv'
<1> SUFFICES ASSUME LoopInv, Runs PROVE LoopInv'
  OBVIOUS
<1>1. PICK loop : loop = atLoop
  OBVIOUS
<1>2. PICK true : true = atTrue
  OBVIOUS
<1>3. /\ loop \in [gap : Nat, ran : Nat, timedOut : BOOLEAN]
      /\ true \in [phase : Nat, inPhase : Nat, run : Nat, stops : 0..1]
  BY <1>1, <1>2 DEF LoopInv, LoopTypes
<1>4. PICK gap : gap = loop.gap + 1
  OBVIOUS
<1>5. PICK run : run = true.run + 1
  OBVIOUS
<1>6. PICK inPhase : inPhase = true.inPhase + 1
  OBVIOUS
<1>7. gap \in Nat /\ run \in Nat /\ inPhase \in Nat /\ CountedRun(gap) <= CountedRun(loop.gap) + 1
      /\ CountedRun(gap) \in 0..2 /\ CountedRun(loop.gap) \in 0..2
  BY <1>3, <1>4, <1>5, <1>6, CountedIs
<1>8. atLoop' = [loop EXCEPT !.gap = gap]
      /\ atTrue' = [true EXCEPT !.run = run, !.inPhase = inPhase]
      /\ atSlow' = atSlow
  BY <1>1, <1>2, <1>4, <1>5, <1>6 DEF Runs
<1>9. /\ atLoop'.gap = gap /\ atLoop'.ran = loop.ran /\ atLoop'.timedOut = loop.timedOut
      /\ atTrue'.phase = true.phase /\ atTrue'.inPhase = inPhase /\ atTrue'.run = run
      /\ atTrue'.stops = true.stops
  BY <1>3, <1>8
<1>10. LoopTypes'
  BY <1>3, <1>7, <1>8 DEF LoopInv, LoopTypes
<1>11. RanInv' /\ (atLoop'.timedOut => Deadline <= atTrue'.run + 2 * atTrue'.stops)
  BY <1>1, <1>2, <1>3, <1>5, <1>7, <1>9, TelemetryAssumption DEF LoopInv, RanInv
<1>12. PhaseInv'
  BY <1>1, <1>2, <1>3, <1>6, <1>7, <1>8, <1>9, TelemetryAssumption DEF LoopInv, LoopTypes, PhaseInv
<1> QED
  BY <1>10, <1>11, <1>12 DEF LoopInv

LEMMA IsStoppedInv == LoopInv /\ IsStopped => LoopInv'
<1> SUFFICES ASSUME LoopInv, IsStopped PROVE LoopInv'
  OBVIOUS
<1>1. PICK loop : loop = atLoop
  OBVIOUS
<1>2. PICK true : true = atTrue
  OBVIOUS
<1>3. /\ loop \in [gap : Nat, ran : Nat, timedOut : BOOLEAN]
      /\ true \in [phase : Nat, inPhase : Nat, run : Nat, stops : 0..1]
  BY <1>1, <1>2 DEF LoopInv, LoopTypes
<1>4. PICK gap : gap = loop.gap + MaxGap
  OBVIOUS
<1>5. PICK stops : stops = true.stops + 1
  OBVIOUS
<1>6. true.stops = 0 /\ stops = 1 /\ stops \in 0..1
  BY <1>2, <1>3, <1>5 DEF IsStopped
<1>7. gap \in Nat /\ CountedRun(gap) \in 0..2 /\ CountedRun(loop.gap) \in 0..2
  BY <1>3, <1>4, CountedIs, TelemetryAssumption
<1>8. atLoop' = [loop EXCEPT !.gap = gap] /\ atTrue' = [true EXCEPT !.stops = stops]
      /\ atSlow' = atSlow
  BY <1>1, <1>2, <1>4, <1>5 DEF IsStopped
<1>9. /\ atLoop'.gap = gap /\ atLoop'.ran = loop.ran /\ atLoop'.timedOut = loop.timedOut
      /\ atTrue'.phase = true.phase /\ atTrue'.inPhase = true.inPhase /\ atTrue'.run = true.run
      /\ atTrue'.stops = stops
  BY <1>3, <1>8
<1>10. LoopTypes'
  BY <1>3, <1>6, <1>7, <1>8 DEF LoopInv, LoopTypes
<1>11. RanInv' /\ (atLoop'.timedOut => Deadline <= atTrue'.run + 2 * atTrue'.stops)
  BY <1>1, <1>2, <1>3, <1>6, <1>7, <1>9, TelemetryAssumption DEF LoopInv, RanInv
<1>12. PhaseInv'
  BY <1>1, <1>2, <1>3, <1>6, <1>7, <1>8, <1>9, TelemetryAssumption DEF LoopInv, LoopTypes, PhaseInv
<1> QED
  BY <1>10, <1>11, <1>12 DEF LoopInv

LEMMA NextPhaseInv == LoopInv /\ NextPhase => LoopInv'
<1> SUFFICES ASSUME LoopInv, NextPhase PROVE LoopInv'
  OBVIOUS
<1>1. PICK true : true = atTrue
  OBVIOUS
<1>2. true \in [phase : Nat, inPhase : Nat, run : Nat, stops : 0..1]
  BY <1>1 DEF LoopInv, LoopTypes
<1>3. PICK phase : phase = true.phase + 1
  OBVIOUS
<1>4. PICK zero : zero = 0
  OBVIOUS
<1>5. phase \in Nat /\ zero \in Nat
  BY <1>2, <1>3, <1>4
<1>6. atTrue' = [true EXCEPT !.phase = phase, !.inPhase = zero] /\ UNCHANGED <<atLoop, atSlow>>
  BY <1>1, <1>3, <1>4 DEF NextPhase
<1>7. atTrue'.phase = phase /\ atTrue'.run = true.run /\ atTrue'.stops = true.stops
  BY <1>2, <1>6
<1>8. LoopTypes'
  BY <1>2, <1>5, <1>6 DEF LoopInv, LoopTypes
<1>9. PhaseInv'
  BY <1>1, <1>2, <1>3, <1>6, <1>7 DEF LoopInv, LoopTypes, PhaseInv
<1> QED
  BY <1>1, <1>6, <1>7, <1>8, <1>9 DEF LoopInv, RanInv

LEMMA LookAtInv == LoopInv /\ LookAt => LoopInv'
<1> SUFFICES ASSUME LoopInv, LookAt PROVE LoopInv'
  OBVIOUS
<1>1. PICK loop : loop = atLoop
  OBVIOUS
<1>2. PICK slow : slow = atSlow
  OBVIOUS
<1>3. PICK true : true = atTrue
  OBVIOUS
<1>4. /\ loop \in [gap : Nat, ran : Nat, timedOut : BOOLEAN]
      /\ slow \in [phase : Nat, since : Nat, logged : 0..2]
      /\ true \in [phase : Nat, inPhase : Nat, run : Nat, stops : 0..1]
  BY <1>1, <1>2, <1>3 DEF LoopInv, LoopTypes
<1>5. PICK ran : ran = loop.ran + CountedRun(loop.gap)
  OBVIOUS
<1>6. ran \in Nat /\ loop.ran <= ran /\ ran <= true.run + 2 * true.stops
  BY <1>1, <1>3, <1>4, <1>5, CountedIs DEF LoopInv, RanInv
<1>7. PICK late : late = (loop.timedOut \/ ran >= Deadline)
  OBVIOUS
<1>8. /\ atLoop' = [gap |-> 0, ran |-> ran, timedOut |-> late] /\ atTrue' = true
      /\ atSlow' = Observe(slow, true.phase, ran)
  BY <1>1, <1>2, <1>3, <1>5, <1>7, Zenon DEF LookAt
<1>9. late \in BOOLEAN /\ (late => Deadline <= true.run + 2 * true.stops)
  BY <1>1, <1>3, <1>4, <1>6, <1>7, TelemetryAssumption DEF LoopInv
<1>10. /\ atLoop' \in [gap : Nat, ran : Nat, timedOut : BOOLEAN]
       /\ atLoop'.gap = 0 /\ atLoop'.ran = ran /\ atLoop'.timedOut = late
  BY <1>6, <1>8, <1>9
<1>11. RanInv' /\ (atLoop'.timedOut => Deadline <= atTrue'.run + 2 * atTrue'.stops)
  BY <1>4, <1>6, <1>8, <1>9, <1>10, CountedIs DEF RanInv
<1>12. PICK seen : seen = Observe(slow, true.phase, ran)
  OBVIOUS
<1>13. CASE true.phase # slow.phase
  <2>1. seen = [phase |-> true.phase, since |-> ran, logged |-> 0]
    BY <1>12, <1>13 DEF Observe
  <2>2. seen \in [phase : Nat, since : Nat, logged : 0..2] /\ seen.phase = true.phase
        /\ seen.since = ran /\ seen.logged = 0
    BY <1>4, <1>6, <2>1
  <2>3. PhaseInv'
    BY <1>4, <1>6, <1>8, <1>10, <1>12, <2>2, CountedIs DEF PhaseInv
  <2> QED
    BY <1>4, <1>8, <1>10, <1>11, <1>12, <2>2, <2>3 DEF LoopInv, LoopTypes
<1>14. CASE true.phase = slow.phase
  <2>1. slow.since <= loop.ran /\ ran - slow.since <= true.inPhase + 2 * true.stops
        /\ (slow.logged = 1 => Slow <= true.inPhase + 2 * true.stops)
        /\ (slow.logged = 2 => 3 * Slow <= true.inPhase + 2 * true.stops)
    BY <1>1, <1>2, <1>3, <1>4, <1>5, <1>14, CountedIs DEF LoopInv, PhaseInv
  <2>2. PICK logged : logged = IF ran - slow.since >= 3 * Slow THEN 2
                               ELSE IF ran - slow.since >= Slow /\ slow.logged < 1 THEN 1
                               ELSE slow.logged
    OBVIOUS
  <2>3. logged \in 0..2 /\ (logged = 1 => Slow <= true.inPhase + 2 * true.stops)
        /\ (logged = 2 => 3 * Slow <= true.inPhase + 2 * true.stops)
    BY <1>4, <1>6, <2>1, <2>2, TelemetryAssumption
  <2>4. seen = [slow EXCEPT !.logged = logged]
    BY <1>4, <1>12, <1>14, <2>2 DEF Observe
  <2>5. seen \in [phase : Nat, since : Nat, logged : 0..2] /\ seen.phase = slow.phase
        /\ seen.since = slow.since /\ seen.logged = logged
    BY <1>4, <2>3, <2>4
  <2>6. PhaseInv'
    BY <1>4, <1>6, <1>8, <1>10, <1>12, <1>14, <2>1, <2>3, <2>5, CountedIs DEF PhaseInv
  <2> QED
    BY <1>4, <1>8, <1>10, <1>11, <1>12, <2>5, <2>6 DEF LoopInv, LoopTypes
<1> QED
  BY <1>13, <1>14

LEMMA LoopStart == AnalysisTimeInit => LoopInv
<1> SUFFICES ASSUME AnalysisTimeInit PROVE LoopInv
  OBVIOUS
<1>1. /\ atLoop.gap = 0 /\ atLoop.ran = 0 /\ atLoop.timedOut = FALSE
      /\ atSlow.phase = 0 /\ atTrue.phase = 1 /\ atTrue.run = 0 /\ atTrue.stops = 0
  BY DEF AnalysisTimeInit
<1>2. LoopTypes
  BY DEF AnalysisTimeInit, LoopTypes
<1>3. RanInv /\ PhaseInv
  BY <1>1, CountedIs DEF RanInv, PhaseInv
<1> QED
  BY <1>1, <1>2, <1>3 DEF LoopInv

LEMMA TimeIsRunningTime == LoopInv => DeadlineCountsRunning /\ SlowHasLasted
<1> SUFFICES ASSUME LoopInv PROVE DeadlineCountsRunning /\ SlowHasLasted
  OBVIOUS
<1>1. /\ atTrue.run \in Nat /\ atTrue.inPhase \in Nat /\ atTrue.stops \in 0..1
      /\ atSlow.logged \in 0..2 /\ Slow \in Nat /\ Deadline \in Nat
  BY TelemetryAssumption DEF LoopInv, LoopTypes
<1>2. atSlow.logged = 1 => Slow * (2 * atSlow.logged - 1) = Slow
  BY <1>1
<1>3. atSlow.logged = 2 => Slow * (2 * atSlow.logged - 1) = 3 * Slow
  BY <1>1
<1>4. atSlow.logged > 0 => atSlow.logged = 1 \/ atSlow.logged = 2
  BY <1>1
<1>5. DeadlineCountsRunning
  BY <1>1 DEF LoopInv, DeadlineCountsRunning
<1>6. SlowHasLasted
  BY <1>1, <1>2, <1>3, <1>4 DEF LoopInv, PhaseInv, SlowHasLasted
<1> QED
  BY <1>5, <1>6

----------------------------------------------------------------------------
LEMMA LoopStay == LoopInv /\ UNCHANGED analysisTimeVars => LoopInv'
BY DEF LoopInv, LoopTypes, RanInv, PhaseInv, analysisTimeVars

\* The inductive invariant: the slots and the errors are those of the history, and the
\* time that is counted has run.
TelemetryInv == MetricInv /\ LoopInv

THEOREM TelemetryInvariant == TelemetrySpec => []TelemetryInv
<1>1. TelemetryInit => TelemetryInv
  BY MetricStart, LoopStart DEF TelemetryInit, TelemetryInv
<1>2. TelemetryInv /\ [TelemetryNext]_telemetryVars => TelemetryInv'
  <2> SUFFICES ASSUME TelemetryInv, [TelemetryNext]_telemetryVars PROVE TelemetryInv'
    OBVIOUS
  <2>1. CASE MetricsNext /\ UNCHANGED analysisTimeVars
    BY <2>1, MetricStep, LoopStay DEF TelemetryInv
  <2>2. CASE AnalysisTimeNext /\ UNCHANGED metricVars
    BY <2>2, MetricStay, RunsInv, IsStoppedInv, NextPhaseInv, LookAtInv
       DEF TelemetryInv, AnalysisTimeNext
  <2>3. CASE UNCHANGED telemetryVars
    BY <2>3, MetricStay, LoopStay DEF TelemetryInv, telemetryVars
  <2> QED
    BY <2>1, <2>2, <2>3 DEF TelemetryNext
<1> QED
  BY <1>1, <1>2, PTL DEF TelemetrySpec

\* What a worker reports and decides by the clock counts the completions, the errors and
\* the time that belong to it: in whatever order tails come to the locks, across any
\* number of minutes, and over a stop of the process.
THEOREM TimeStaysCountedOnce == TelemetrySpec => []TimeIsCountedOnce
<1>1. TelemetryInv => TimeIsCountedOnce
  BY RateIsOfTheWindow, ErrorsAreOfTheWindow, TimeIsRunningTime
     DEF TelemetryInv, MetricInv, RateInv, TimeIsCountedOnce
<1> QED
  BY <1>1, TelemetryInvariant, PTL

=============================================================================
