---------------------------- MODULE WorkerProofs ----------------------------
(***************************************************************************)
(* That the hopper worker counts what it holds, for any jobs, slots, lanes *)
(* and limits, through aborts, panics, deadlines and a hopper that answers *)
(* with too much.  The inductive invariant says which blocking thread a    *)
(* job has where it is, and that each counter is the size of a set: the    *)
(* tails and the slots at a job's door, each lane's holders, the consulted *)
(* jobs, the staged ones.  That nobody waits for what cannot come follows  *)
(* from the counts.                                                        *)
(***************************************************************************)
EXTENDS WorkerPipeline, FiniteSetTheorems, TLAPS

\* What the counters count.
Tails      == {j \in Jobs : InTail(j)}
Waiting    == {s \in Slots : slot[s] = "recv"}
Gated(l)   == {j \in Jobs : LaneOf(j) = l /\ (place[j] = "admit" \/ thread[j] = "cpu")}
Consulting == {j \in Jobs : thread[j] = "llm"}
Staging    == {j \in Jobs : place[j] \in {"claimed", "staged"}}

\* Where a job is says what its blocking thread may be doing, whether it has a result yet and
\* that an abort told it to stop.
JobInv ==
    \A j \in Jobs :
        /\ thread[j] \in {"cpu", "net", "returned"} => place[j] \in {"run", "aborted"}
        /\ thread[j] = "llm" => place[j] \in {"opinion", "aborted"}
        /\ InTail(j) => owner[j] \in Slots
        /\ place[j] \in {"hopper", "claimed", "staged", "payload", "gate", "admit", "run"} =>
              result[j] = "none"
        /\ expired[j] => result[j] \in {"none", "failed"}
        /\ place[j] = "aborted" /\ thread[j] \in {"cpu", "net"} => cancel[j]

TailsExact == tailsFree + Cardinality(Tails) + Cardinality(Waiting) = TailCap

LanesExact == \A l \in Lanes : laneFree[l] + Cardinality(Gated(l)) = LanePermits[l]

OpinionsExact == llmFree + Cardinality(Consulting) = LlmBacklog

\* What is staged is counted, and exactly so while the prefetcher lives; what it asks for has
\* room.
DepthInv ==
    /\ Cardinality(Staging) <= outstanding
    /\ prefetch \notin {"done", "died"} => outstanding = Cardinality(Staging)
    /\ prefetch = "poll" => outstanding + want <= TargetDepth

\* A tail that analyzes or consults has its thread, or what it brought back.
ThreadInv ==
    \A j \in Jobs : /\ place[j] = "run" => thread[j] \in {"cpu", "net", "returned"}
                    /\ place[j] = "opinion" => thread[j] \in {"llm", "none"}

WorkerInv ==
    /\ TypeOK /\ JobInv /\ ThreadInv /\ TailsExact /\ LanesExact /\ OpinionsExact
    /\ DepthInv /\ RoomIsHeard

----------------------------------------------------------------------------
(* Counting                                                                *)

\* Jobs and slots are finitely many, and so is every part of them.
LEMMA PartsAreFinite ==
    /\ \A S \in SUBSET Jobs : IsFiniteSet(S) /\ Cardinality(S) \in Nat
    /\ \A S \in SUBSET Slots : IsFiniteSet(S) /\ Cardinality(S) \in Nat
BY JobsAssumption, FS_Subset, FS_CardinalityType

\* One that joins or leaves a part is counted once.
LEMMA CountAdd ==
    ASSUME NEW S, NEW x, IsFiniteSet(S), x \notin S
    PROVE  Cardinality(S \cup {x}) = Cardinality(S) + 1 /\ Cardinality(S) \in Nat
BY FS_AddElement, FS_CardinalityType

LEMMA CountRemove ==
    ASSUME NEW S, NEW x \in S, IsFiniteSet(S)
    PROVE  Cardinality(S) = Cardinality(S \ {x}) + 1 /\ Cardinality(S \ {x}) \in Nat
<1>1. IsFiniteSet(S \ {x}) /\ Cardinality(S \ {x}) = Cardinality(S) - 1
  BY FS_RemoveElement
<1>2. Cardinality(S) \in Nat /\ Cardinality(S \ {x}) \in Nat
  BY <1>1, FS_CardinalityType
<1> QED
  BY <1>1, <1>2

LEMMA PartsOf ==
    /\ Tails \in SUBSET Jobs /\ Waiting \in SUBSET Slots /\ Consulting \in SUBSET Jobs
    /\ Staging \in SUBSET Jobs /\ \A l \in Lanes : Gated(l) \in SUBSET Jobs
BY DEF Tails, Waiting, Consulting, Staging, Gated

\* A tail that ends gives its permit back.
LEMMA TailEnds ==
    ASSUME TypeOK, TailsExact, NEW j \in Jobs, InTail(j), NEW to, to \notin TailPlaces,
           place' = [place EXCEPT ![j] = to], tailsFree' = tailsFree + 1, slot' = slot
    PROVE  TailsExact'
<1>1. Tails' = Tails \ {j} /\ j \in Tails /\ Waiting' = Waiting
  BY DEF Tails, Waiting, InTail, TypeOK
<1>2. Cardinality(Tails) = Cardinality(Tails') + 1 /\ Cardinality(Tails') \in Nat
  BY <1>1, PartsOf, PartsAreFinite, CountRemove
<1>3. Cardinality(Waiting) \in Nat /\ tailsFree \in Nat /\ TailCap \in Nat
  BY PartsOf, PartsAreFinite, TailsAssumption DEF TypeOK
<1> QED
  BY <1>1, <1>2, <1>3 DEF TailsExact

\* A holder of a lane's permit that lets go of it.
LEMMA GateGivenBack ==
    ASSUME TypeOK, LanesExact, NEW j \in Jobs, place[j] = "admit" \/ thread[j] = "cpu",
           place'[j] # "admit", thread'[j] # "cpu",
           \A k \in Jobs \ {j} : place'[k] = place[k] /\ thread'[k] = thread[k],
           laneFree' = [laneFree EXCEPT ![LaneOf(j)] = @ + 1]
    PROVE  LanesExact' /\ laneFree' \in [Lanes -> Nat]
<1> DEFINE l == LaneOf(j)
<1>1. l \in Lanes /\ laneFree \in [Lanes -> Nat]
  BY DEF LaneOf, Lanes, TypeOK
<1>2. Gated(l)' = Gated(l) \ {j} /\ j \in Gated(l)
  BY DEF Gated, LaneOf
<1>3. \A m \in Lanes : m # l => Gated(m)' = Gated(m) /\ laneFree'[m] = laneFree[m]
  BY <1>1 DEF Gated, LaneOf
<1>4. Cardinality(Gated(l)) = Cardinality(Gated(l) \ {j}) + 1 /\ Cardinality(Gated(l) \ {j}) \in Nat
  BY <1>1, <1>2, PartsOf, PartsAreFinite, CountRemove
<1>5. laneFree[l] + Cardinality(Gated(l)) = LanePermits[l] /\ laneFree[l] \in Nat
      /\ laneFree'[l] = laneFree[l] + 1
  BY <1>1 DEF LanesExact
<1> HIDE DEF l
<1>6. laneFree'[l] + Cardinality(Gated(l)') = LanePermits[l]
  BY <1>2, <1>4, <1>5
<1> QED
  BY <1>1, <1>3, <1>6 DEF LanesExact, l

\* Whoever neither takes nor gives back leaves the lanes as they are.
LEMMA GateUntouched ==
    ASSUME LanesExact, laneFree' = laneFree,
           \A k \in Jobs : (place'[k] = "admit" \/ thread'[k] = "cpu")
                             <=> (place[k] = "admit" \/ thread[k] = "cpu")
    PROVE  LanesExact'
<1>1. \A l \in Lanes : Gated(l)' = Gated(l)
  BY DEF Gated, LaneOf
<1> QED
  BY <1>1 DEF LanesExact

\* Nobody starts or ends a tail.
LEMMA TailsUntouched ==
    ASSUME TailsExact, UNCHANGED <<slot, tailsFree>>,
           \A k \in Jobs : place'[k] \in TailPlaces <=> place[k] \in TailPlaces
    PROVE  TailsExact'
<1>1. Tails' = Tails /\ Waiting' = Waiting
  BY DEF Tails, Waiting, InTail
<1> QED
  BY <1>1 DEF TailsExact

LEMMA OpinionsUntouched ==
    ASSUME OpinionsExact, llmFree' = llmFree,
           \A k \in Jobs : thread'[k] = "llm" <=> thread[k] = "llm"
    PROVE  OpinionsExact'
<1>1. Consulting' = Consulting
  BY DEF Consulting
<1> QED
  BY <1>1 DEF OpinionsExact

----------------------------------------------------------------------------
(* The steps                                                               *)

\* The ways a job's place moves outside a tail: claimed, downloaded, dropped with the
\* prefetcher's tasks.
Shuffles ==
    Prefetcher \/ (\E j \in Jobs : Download(j) \/ DownloadPanics(j)) \/ Drained \/ DrainCut

LEMMA ShuffleMoves ==
    ASSUME TypeOK, Shuffles
    PROVE  /\ UNCHANGED <<owner, thread, cancel, expired, result, laneFree, llmFree>>
           /\ \A k \in Jobs : \/ place'[k] = place[k]
                              \/ /\ place[k] \in {"hopper", "claimed"}
                                 /\ place'[k] \in {"claimed", "staged", "lost"}
<1>1. CASE Prefetcher
  <2>1. ASSUME AbortStaging
        PROVE  \A k \in Jobs : \/ place'[k] = place[k]
                               \/ place[k] = "claimed" /\ place'[k] = "lost"
    BY <2>1 DEF AbortStaging
  <2>2. CASE PrefetchStops \/ ClaimNone \/ PrefetcherDies
    BY <2>1, <2>2 DEF PrefetchStops, ClaimNone, PrefetcherDies, permVars
  <2>3. CASE PrefetchCheck \/ PrefetchSleeps \/ RoomWakes \/ ClaimFails
    BY <2>3 DEF PrefetchCheck, PrefetchSleeps, RoomWakes, ClaimFails, jobVars, permVars
  <2>4. CASE Claim
    <3>1. PICK R \in SUBSET {j \in Jobs : place[j] = "hopper"} : \E S \in SUBSET R :
             place' = [j \in Jobs |-> IF j \in S THEN "claimed"
                                      ELSE IF j \in R THEN "lost" ELSE place[j]]
      BY <2>4 DEF Claim
    <3>2. UNCHANGED <<owner, thread, cancel, expired, result, laneFree, llmFree>>
      BY <2>4 DEF Claim, permVars
    <3> QED
      BY <3>1, <3>2
  <2> QED
    BY <1>1, <2>2, <2>3, <2>4 DEF Prefetcher
<1>2. ASSUME NEW j \in Jobs, Download(j) \/ DownloadPanics(j)
      PROVE  /\ UNCHANGED <<owner, thread, cancel, expired, result, laneFree, llmFree>>
             /\ \A k \in Jobs : \/ place'[k] = place[k]
                                \/ /\ place[k] \in {"hopper", "claimed"}
                                   /\ place'[k] \in {"claimed", "staged", "lost"}
  BY <1>2 DEF Download, DownloadPanics, TypeOK, permVars
<1>3. CASE Drained \/ DrainCut
  BY <1>3 DEF Drained, DrainCut, Return, AbortStaging
<1> QED
  BY <1>1, <1>2, <1>3 DEF Shuffles

\* The tail permits, through every end of a tail and of a slot.
LEMMA TailsStep == WorkerInv /\ [Next]_vars => TailsExact'
<1> SUFFICES ASSUME WorkerInv, [Next]_vars PROVE TailsExact'
  OBVIOUS
<1>0. TypeOK /\ JobInv /\ TailsExact
  BY DEF WorkerInv
<1>1. /\ tailsFree \in Nat /\ TailCap \in Nat
      /\ Cardinality(Tails) \in Nat /\ Cardinality(Waiting) \in Nat
      /\ IsFiniteSet(Tails) /\ IsFiniteSet(Waiting)
      /\ tailsFree + Cardinality(Tails) + Cardinality(Waiting) = TailCap
  BY <1>0, PartsOf, PartsAreFinite, TailsAssumption DEF TypeOK, TailsExact
<1>2. ASSUME Shuffles, UNCHANGED <<slot, tailsFree>> PROVE TailsExact'
  <2>1. \A k \in Jobs : place'[k] \in TailPlaces <=> place[k] \in TailPlaces
    BY <1>0, <1>2, ShuffleMoves DEF TailPlaces
  <2> QED
    BY <1>0, <1>2, <2>1, TailsUntouched
<1>3. CASE DrainCut
  <2>1. Waiting' = {}
    BY <1>3 DEF DrainCut, Waiting
  <2>2. tailsFree' = tailsFree + Cardinality(Waiting)
    BY <1>3 DEF DrainCut, Waiting
  <2>3. \A k \in Jobs : place'[k] \in TailPlaces <=> place[k] \in TailPlaces
    BY <1>0, <1>3, ShuffleMoves DEF TailPlaces, Shuffles
  <2>4. Tails' = Tails
    BY <2>3 DEF Tails, InTail
  <2> QED
    BY <1>1, <2>1, <2>2, <2>4, FS_EmptySet DEF TailsExact
<1>4. ASSUME Prefetcher \/ (\E j \in Jobs : Download(j) \/ DownloadPanics(j)) \/ Drained
      PROVE  TailsExact'
  <2>1. UNCHANGED <<slot, tailsFree>>
    BY <1>4 DEF Prefetcher, PrefetchStops, PrefetchCheck, PrefetchSleeps, RoomWakes, Claim,
       ClaimNone, ClaimFails, PrefetcherDies, Download, DownloadPanics, Drained, permVars
  <2> QED
    BY <1>2, <1>4, <2>1 DEF Shuffles
<1>5. ASSUME NEW s \in Slots, SlotTop(s) \/ SlotDone(s) PROVE TailsExact'
  <2>1. UNCHANGED <<place, tailsFree>> /\ slot[s] # "recv"
        /\ \E at \in {"drain", "permit", "done"} : slot' = [slot EXCEPT ![s] = at]
    BY <1>5 DEF SlotTop, SlotDone, jobVars, permVars
  <2>2. Waiting' = Waiting /\ Tails' = Tails
    BY <1>0, <2>1 DEF Waiting, Tails, InTail, TypeOK
  <2> QED
    BY <1>0, <2>1, <2>2 DEF TailsExact
<1>6. ASSUME NEW s \in Slots, SlotPermit(s) PROVE TailsExact'
  <2>1. CASE stop # "none"
    <3>1. UNCHANGED <<place, tailsFree>> /\ slot[s] # "recv" /\ slot' = [slot EXCEPT ![s] = "drain"]
      BY <1>6, <2>1 DEF SlotPermit, jobVars
    <3>2. Waiting' = Waiting /\ Tails' = Tails
      BY <1>0, <3>1 DEF Waiting, Tails, InTail, TypeOK
    <3> QED
      BY <1>0, <3>1, <3>2 DEF TailsExact
  <2>2. CASE stop = "none"
    <3>1. /\ place' = place /\ tailsFree' = tailsFree - 1 /\ slot[s] = "permit"
          /\ slot' = [slot EXCEPT ![s] = "recv"]
      BY <1>6, <2>2 DEF SlotPermit, jobVars
    <3>2. Waiting' = Waiting \cup {s} /\ s \notin Waiting /\ Tails' = Tails
      BY <1>0, <3>1 DEF Waiting, Tails, InTail, TypeOK
    <3>3. Cardinality(Waiting') = Cardinality(Waiting) + 1
      BY <1>1, <3>2, CountAdd
    <3> QED
      BY <1>1, <3>1, <3>2, <3>3 DEF TailsExact
  <2> QED
    BY <2>1, <2>2
<1>7. ASSUME NEW s \in Slots, NEW j \in Jobs, SlotDispatch(s, j) PROVE TailsExact'
  <2>1. /\ place[j] = "staged" /\ place' = [place EXCEPT ![j] = "payload"] /\ slot[s] = "recv"
        /\ slot' = [slot EXCEPT ![s] = "top"] /\ tailsFree' = tailsFree
    BY <1>7 DEF SlotDispatch, permVars
  <2>2. /\ Waiting' = Waiting \ {s} /\ s \in Waiting
        /\ Tails' = Tails \cup {j} /\ j \notin Tails
    BY <1>0, <2>1 DEF Waiting, Tails, InTail, TailPlaces, TypeOK
  <2>3. /\ Cardinality(Waiting) = Cardinality(Waiting') + 1 /\ Cardinality(Waiting') \in Nat
        /\ Cardinality(Tails') = Cardinality(Tails) + 1
    BY <1>1, <2>2, CountAdd, CountRemove
  <2> QED
    BY <1>1, <2>1, <2>3 DEF TailsExact
<1>8. ASSUME NEW s \in Slots, SlotLeaves(s) PROVE TailsExact'
  <2>1. /\ place' = place /\ tailsFree' = tailsFree + 1 /\ slot[s] = "recv"
        /\ slot' = [slot EXCEPT ![s] = "drain"]
    BY <1>8 DEF SlotLeaves, jobVars
  <2>2. Waiting' = Waiting \ {s} /\ s \in Waiting /\ Tails' = Tails
    BY <1>0, <2>1 DEF Waiting, Tails, InTail, TypeOK
  <2>3. Cardinality(Waiting) = Cardinality(Waiting') + 1 /\ Cardinality(Waiting') \in Nat
    BY <1>1, <2>2, CountRemove
  <2> QED
    BY <1>1, <2>1, <2>2, <2>3 DEF TailsExact
<1>9. ASSUME NEW j \in Jobs, UNCHANGED <<slot, tailsFree>>, place[j] \in TailPlaces,
             \E to \in TailPlaces : place' = [place EXCEPT ![j] = to]
      PROVE  TailsExact'
  <2>1. \A k \in Jobs : place'[k] \in TailPlaces <=> place[k] \in TailPlaces
    BY <1>0, <1>9 DEF TypeOK
  <2> QED
    BY <1>0, <1>9, <2>1, TailsUntouched
<1>10. ASSUME NEW j \in Jobs,
              \/ JobRefused(j) \/ JobQueues(j) \/ JobPassesGate(j) \/ JobStarts(j) \/ JobJoins(j)
              \/ OpinionStarts(j)
       PROVE  TailsExact'
  BY <1>9, <1>10 DEF JobRefused, JobQueues, JobPassesGate, JobStarts, JobJoins, OpinionStarts, Goto,
     TailPlaces, permVars
<1>11. ASSUME NEW j \in Jobs, JobPosted(j) PROVE TailsExact'
  <2>1. CASE result[j] = "pending"
    BY <1>9, <1>11, <2>1 DEF JobPosted, Goto, TailPlaces
  <2>2. CASE result[j] # "pending"
    <3>1. /\ InTail(j) /\ place' = [place EXCEPT ![j] = "done"] /\ tailsFree' = tailsFree + 1
          /\ slot' = slot
      BY <1>11, <2>2 DEF JobPosted, Goto, InTail, TailPlaces
    <3>2. "done" \notin TailPlaces
      BY DEF TailPlaces
    <3> QED
      BY <1>0, <3>1, <3>2, TailEnds
  <2> QED
    BY <2>1, <2>2
<1>12. ASSUME NEW j \in Jobs, OpinionSkipped(j) \/ OpinionPosted(j) \/ TailAborted(j)
       PROVE  TailsExact'
  <2>1. /\ InTail(j) /\ tailsFree' = tailsFree + 1 /\ slot' = slot
        /\ place' = [place EXCEPT ![j] = "done"] \/ place' = [place EXCEPT ![j] = "aborted"]
    BY <1>12 DEF OpinionSkipped, OpinionPosted, TailAborted, Goto, InTail, TailPlaces
  <2>2. "done" \notin TailPlaces /\ "aborted" \notin TailPlaces
    BY DEF TailPlaces
  <2> QED
    BY <1>0, <2>1, <2>2, TailEnds
<1>13. CASE UNCHANGED <<place, slot, tailsFree>>
  BY <1>0, <1>13, TailsUntouched
<1>14. ASSUME NEW j \in Jobs, JobExpires(j) \/ Thread(j) PROVE UNCHANGED <<place, slot, tailsFree>>
  BY <1>14 DEF JobExpires, Thread, StageMoves, LeaseReturned, ThreadReturns, OpinionReturns, jobVars,
     permVars
<1>15. ASSUME Signal \/ TickStarts \/ TickEnds \/ TickAborts \/ RunStops \/ ProcessExits
       PROVE  UNCHANGED <<place, slot, tailsFree>>
  BY <1>15 DEF Signal, TickStarts, TickEnds, TickAborts, RunStops, ProcessExits, jobVars, permVars
<1> QED
  BY <1>3, <1>4, <1>5, <1>6, <1>7, <1>8, <1>10, <1>11, <1>12, <1>13, <1>14, <1>15
     DEF Next, Slot, JobTail, vars

\* The lanes of the cleave gate: a permit goes with the blocking thread.
LEMMA LanesStep == WorkerInv /\ [Next]_vars => LanesExact' /\ laneFree' \in [Lanes -> Nat]
<1> SUFFICES ASSUME WorkerInv, [Next]_vars PROVE LanesExact' /\ laneFree' \in [Lanes -> Nat]
  OBVIOUS
<1>0. TypeOK /\ JobInv /\ LanesExact /\ laneFree \in [Lanes -> Nat]
  BY DEF WorkerInv, TypeOK
<1>1. ASSUME laneFree' = laneFree,
             \A k \in Jobs : (place'[k] = "admit" \/ thread'[k] = "cpu")
                               <=> (place[k] = "admit" \/ thread[k] = "cpu")
      PROVE  LanesExact' /\ laneFree' \in [Lanes -> Nat]
  BY <1>0, <1>1, GateUntouched
<1>2. CASE Shuffles
  BY <1>0, <1>1, <1>2, ShuffleMoves
<1>3. ASSUME NEW s \in Slots, Slot(s) PROVE LanesExact' /\ laneFree' \in [Lanes -> Nat]
  <2>1. /\ UNCHANGED <<thread, laneFree>>
        /\ place' = place \/ \E j \in Jobs : place[j] = "staged"
                                             /\ place' = [place EXCEPT ![j] = "payload"]
    BY <1>3 DEF Slot, SlotTop, SlotPermit, SlotLeaves, SlotDone, SlotDispatch, jobVars, permVars
  <2> QED
    BY <1>0, <1>1, <2>1 DEF TypeOK
<1>4. ASSUME NEW j \in Jobs, JobPassesGate(j) PROVE LanesExact' /\ laneFree' \in [Lanes -> Nat]
  <2> DEFINE l == LaneOf(j)
  <2>1. /\ l \in Lanes /\ place[j] = "gate" /\ thread[j] # "cpu" /\ thread' = thread
        /\ place' = [place EXCEPT ![j] = "admit"] /\ laneFree[l] > 0
        /\ laneFree' = [laneFree EXCEPT ![l] = @ - 1]
    BY <1>0, <1>4 DEF JobPassesGate, Goto, LaneOf, Lanes, JobInv
  <2>2. Gated(l)' = Gated(l) \cup {j} /\ j \notin Gated(l)
    BY <1>0, <2>1 DEF Gated, TypeOK, LaneOf
  <2>3. \A m \in Lanes : m # l => Gated(m)' = Gated(m) /\ laneFree'[m] = laneFree[m]
    BY <1>0, <2>1 DEF Gated, TypeOK, LaneOf
  <2>4. Cardinality(Gated(l)') = Cardinality(Gated(l)) + 1 /\ Cardinality(Gated(l)) \in Nat
    BY <2>1, <2>2, PartsOf, PartsAreFinite, CountAdd
  <2>5. /\ laneFree[l] + Cardinality(Gated(l)) = LanePermits[l] /\ laneFree[l] \in Nat
        /\ laneFree'[l] = laneFree[l] - 1 /\ laneFree' \in [Lanes -> Nat]
    BY <1>0, <2>1 DEF LanesExact
  <2> HIDE DEF l
  <2>6. laneFree'[l] + Cardinality(Gated(l)') = LanePermits[l]
    BY <2>4, <2>5
  <2> QED
    BY <1>0, <2>3, <2>5, <2>6 DEF LanesExact, l
<1>5. ASSUME NEW j \in Jobs, LeaseReturned(j) PROVE LanesExact' /\ laneFree' \in [Lanes -> Nat]
  <2>1. /\ thread[j] = "cpu" /\ place[j] # "admit" /\ place' = place
        /\ thread' = [thread EXCEPT ![j] = "net"]
        /\ laneFree' = [laneFree EXCEPT ![LaneOf(j)] = @ + 1]
    BY <1>0, <1>5 DEF LeaseReturned, JobInv
  <2>2. /\ place'[j] # "admit" /\ thread'[j] # "cpu"
        /\ \A k \in Jobs \ {j} : place'[k] = place[k] /\ thread'[k] = thread[k]
    BY <1>0, <2>1 DEF TypeOK
  <2> QED
    BY <1>0, <2>1, <2>2, GateGivenBack
<1>6. ASSUME NEW j \in Jobs, ThreadReturns(j) PROVE LanesExact' /\ laneFree' \in [Lanes -> Nat]
  <2>1. /\ thread[j] \in {"cpu", "net"} /\ place[j] # "admit" /\ place' = place
        /\ thread' = [thread EXCEPT ![j] = "returned"]
    BY <1>0, <1>6 DEF ThreadReturns, JobInv
  <2>2. /\ place'[j] # "admit" /\ thread'[j] # "cpu"
        /\ \A k \in Jobs \ {j} : place'[k] = place[k] /\ thread'[k] = thread[k]
    BY <1>0, <2>1 DEF TypeOK
  <2>3. CASE thread[j] = "cpu"
    <3>1. laneFree' = [laneFree EXCEPT ![LaneOf(j)] = @ + 1]
      BY <1>6, <2>3 DEF ThreadReturns
    <3> QED
      BY <1>0, <2>2, <2>3, <3>1, GateGivenBack
  <2>4. CASE thread[j] # "cpu"
    <3>1. laneFree' = laneFree
      BY <1>6, <2>4 DEF ThreadReturns
    <3> QED
      BY <1>1, <2>1, <2>2, <2>4, <3>1
  <2> QED
    BY <2>3, <2>4
<1>7. ASSUME NEW j \in Jobs, TailAborted(j) PROVE LanesExact' /\ laneFree' \in [Lanes -> Nat]
  <2>1. thread' = thread /\ place' = [place EXCEPT ![j] = "aborted"]
    BY <1>7 DEF TailAborted
  <2>2. /\ place'[j] # "admit" /\ \A k \in Jobs \ {j} : place'[k] = place[k]
    BY <1>0, <2>1 DEF TypeOK
  <2>3. CASE place[j] = "admit"
    <3>1. laneFree' = [laneFree EXCEPT ![LaneOf(j)] = @ + 1] /\ thread[j] # "cpu"
      BY <1>0, <1>7, <2>3 DEF TailAborted, JobInv
    <3> QED
      BY <1>0, <2>1, <2>2, <2>3, <3>1, GateGivenBack
  <2>4. CASE place[j] # "admit"
    <3>1. laneFree' = laneFree
      BY <1>7, <2>4 DEF TailAborted
    <3> QED
      BY <1>1, <2>1, <2>2, <2>4, <3>1
  <2> QED
    BY <2>3, <2>4
<1>8. ASSUME NEW j \in Jobs, JobStarts(j) PROVE LanesExact' /\ laneFree' \in [Lanes -> Nat]
  <2>1. /\ place[j] = "admit" /\ place' = [place EXCEPT ![j] = "run"]
        /\ thread' = [thread EXCEPT ![j] = "cpu"] /\ laneFree' = laneFree
    BY <1>8 DEF JobStarts, Goto, permVars
  <2> QED
    BY <1>0, <1>1, <2>1 DEF TypeOK
<1>9. ASSUME NEW j \in Jobs,
             \/ JobRefused(j) \/ JobQueues(j) \/ JobExpires(j) \/ JobJoins(j) \/ JobPosted(j)
             \/ OpinionSkipped(j) \/ OpinionStarts(j) \/ OpinionPosted(j)
             \/ StageMoves(j) \/ OpinionReturns(j)
      PROVE  LanesExact' /\ laneFree' \in [Lanes -> Nat]
  <2>1. /\ laneFree' = laneFree
        /\ place' = place \/ \E to \in {"post", "gate", "second", "done", "opinion"} :
                                place[j] # "admit" /\ place' = [place EXCEPT ![j] = to]
    BY <1>9 DEF JobRefused, JobQueues, JobExpires, JobJoins, JobPosted, OpinionSkipped,
       OpinionStarts, OpinionPosted, StageMoves, OpinionReturns, Goto, jobVars, permVars
  <2>2. \/ thread' = thread
        \/ thread[j] # "cpu" /\ \E at \in {"none", "llm"} : thread' = [thread EXCEPT ![j] = at]
    BY <1>0, <1>9 DEF JobRefused, JobQueues, JobExpires, JobJoins, JobPosted, OpinionSkipped,
       OpinionStarts, OpinionPosted, StageMoves, OpinionReturns, Goto, jobVars, JobInv
  <2> QED
    BY <1>0, <1>1, <2>1, <2>2 DEF TypeOK
<1>10. CASE UNCHANGED <<place, thread, laneFree>>
  BY <1>1, <1>10
<1>11. ASSUME Signal \/ TickStarts \/ TickEnds \/ TickAborts \/ RunStops \/ ProcessExits
       PROVE  UNCHANGED <<place, thread, laneFree>>
  BY <1>11 DEF Signal, TickStarts, TickEnds, TickAborts, RunStops, ProcessExits, jobVars, permVars
<1> QED
  BY <1>2, <1>3, <1>4, <1>5, <1>6, <1>7, <1>8, <1>9, <1>10, <1>11
     DEF Next, Shuffles, JobTail, Thread, vars

\* The backlog of second opinions: a permit goes with the blocking call.
LEMMA OpinionsStep == WorkerInv /\ [Next]_vars => OpinionsExact' /\ llmFree' \in Nat
<1> SUFFICES ASSUME WorkerInv, [Next]_vars PROVE OpinionsExact' /\ llmFree' \in Nat
  OBVIOUS
<1>0. TypeOK /\ JobInv /\ OpinionsExact /\ llmFree \in Nat
  BY PermitsAssumption DEF WorkerInv, TypeOK
<1>1. ASSUME llmFree' = llmFree, \A k \in Jobs : thread'[k] = "llm" <=> thread[k] = "llm"
      PROVE  OpinionsExact' /\ llmFree' \in Nat
  BY <1>0, <1>1, OpinionsUntouched
<1>2. CASE Shuffles
  BY <1>0, <1>1, <1>2, ShuffleMoves
<1>3. /\ llmFree + Cardinality(Consulting) = LlmBacklog /\ IsFiniteSet(Consulting)
      /\ Cardinality(Consulting) \in Nat /\ LlmBacklog \in Nat
  BY <1>0, PartsOf, PartsAreFinite, PermitsAssumption DEF OpinionsExact
<1>4. ASSUME NEW j \in Jobs, OpinionStarts(j) PROVE OpinionsExact' /\ llmFree' \in Nat
  <2>1. /\ thread[j] # "llm" /\ thread' = [thread EXCEPT ![j] = "llm"]
        /\ llmFree > 0 /\ llmFree' = llmFree - 1
    BY <1>0, <1>4 DEF OpinionStarts, Goto, JobInv
  <2>2. Consulting' = Consulting \cup {j} /\ j \notin Consulting
    BY <1>0, <2>1 DEF Consulting, TypeOK
  <2>3. Cardinality(Consulting') = Cardinality(Consulting) + 1
    BY <1>3, <2>2, CountAdd
  <2> QED
    BY <1>0, <1>3, <2>1, <2>3 DEF OpinionsExact
<1>5. ASSUME NEW j \in Jobs, OpinionReturns(j) PROVE OpinionsExact' /\ llmFree' \in Nat
  <2>1. thread[j] = "llm" /\ thread' = [thread EXCEPT ![j] = "none"] /\ llmFree' = llmFree + 1
    BY <1>5 DEF OpinionReturns
  <2>2. Consulting' = Consulting \ {j} /\ j \in Consulting
    BY <1>0, <2>1 DEF Consulting, TypeOK
  <2>3. Cardinality(Consulting) = Cardinality(Consulting') + 1 /\ Cardinality(Consulting') \in Nat
    BY <1>3, <2>2, CountRemove
  <2> QED
    BY <1>0, <1>3, <2>1, <2>3 DEF OpinionsExact
<1>6. ASSUME NEW j \in Jobs,
             \/ JobRefused(j) \/ JobQueues(j) \/ JobPassesGate(j) \/ JobStarts(j) \/ JobExpires(j)
             \/ JobJoins(j) \/ JobPosted(j) \/ OpinionSkipped(j) \/ OpinionPosted(j)
             \/ TailAborted(j) \/ StageMoves(j) \/ LeaseReturned(j) \/ ThreadReturns(j)
      PROVE  OpinionsExact' /\ llmFree' \in Nat
  <2>1. /\ llmFree' = llmFree
        /\ \/ thread' = thread
           \/ thread[j] # "llm" /\ \E at \in {"none", "cpu", "net", "returned"} :
                                      thread' = [thread EXCEPT ![j] = at]
    BY <1>0, <1>6 DEF JobRefused, JobQueues, JobPassesGate, JobStarts, JobExpires, JobJoins,
       JobPosted, OpinionSkipped, OpinionPosted, TailAborted, StageMoves, LeaseReturned,
       ThreadReturns, Goto, jobVars, permVars, JobInv
  <2> QED
    BY <1>0, <1>1, <2>1 DEF TypeOK
<1>7. CASE UNCHANGED <<thread, llmFree>>
  BY <1>1, <1>7
<1>8. ASSUME \/ Signal \/ TickStarts \/ TickEnds \/ TickAborts \/ RunStops \/ ProcessExits
             \/ \E s \in Slots : Slot(s)
      PROVE  UNCHANGED <<thread, llmFree>>
  BY <1>8 DEF Signal, TickStarts, TickEnds, TickAborts, RunStops, ProcessExits, Slot, SlotTop,
     SlotPermit, SlotLeaves, SlotDone, SlotDispatch, jobVars, permVars
<1> QED
  BY <1>2, <1>4, <1>5, <1>6, <1>7, <1>8 DEF Next, Shuffles, JobTail, Thread, vars

\* The depth: what a claim adds has room, and what is dropped or taken was counted.
LEMMA DepthStep ==
    WorkerInv /\ [Next]_vars => /\ DepthInv' /\ outstanding' \in 0 .. TargetDepth
                                /\ want' \in 0 .. Cardinality(Slots)
<1> SUFFICES ASSUME WorkerInv, [Next]_vars
             PROVE  /\ DepthInv' /\ outstanding' \in 0 .. TargetDepth
                    /\ want' \in 0 .. Cardinality(Slots)
  OBVIOUS
<1> DEFINE Goal == /\ DepthInv' /\ outstanding' \in 0 .. TargetDepth
                   /\ want' \in 0 .. Cardinality(Slots)
<1>0. TypeOK /\ DepthInv
  BY DEF WorkerInv
<1>1. /\ outstanding \in 0 .. TargetDepth /\ want \in 0 .. Cardinality(Slots)
      /\ TargetDepth \in Nat /\ Cardinality(Slots) \in Nat
      /\ IsFiniteSet(Staging) /\ Cardinality(Staging) \in Nat /\ Cardinality(Staging) <= outstanding
      /\ prefetch \notin {"done", "died"} => outstanding = Cardinality(Staging)
      /\ prefetch = "poll" => outstanding + want <= TargetDepth
  BY <1>0, PartsOf, PartsAreFinite, PermitsAssumption DEF TypeOK, DepthInv
<1>2. ASSUME Staging' = Staging, outstanding' = outstanding, want' \in {0, want},
             prefetch' = "poll" => prefetch = "poll",
             prefetch' \notin {"done", "died"} => prefetch \notin {"done", "died"}
      PROVE  Goal
  <2>1. want' \in 0 .. Cardinality(Slots) /\ want' <= want
    BY <1>1, <1>2
  <2>2. outstanding' \in 0 .. TargetDepth /\ Cardinality(Staging') <= outstanding'
    BY <1>1, <1>2
  <2>3. prefetch' \notin {"done", "died"} => outstanding' = Cardinality(Staging')
    BY <1>1, <1>2
  <2>4. prefetch' = "poll" => outstanding' + want' <= TargetDepth
    BY <1>1, <1>2, <2>1
  <2> QED
    BY <2>1, <2>2, <2>3, <2>4 DEF DepthInv
<1>3. ASSUME AbortStaging, outstanding' = outstanding, want' \in {0, want},
             prefetch' \in {"done", "died"}
      PROVE  Goal
  <2>1. Staging' \subseteq Staging
    BY <1>0, <1>3 DEF AbortStaging, Staging, TypeOK
  <2>2. Cardinality(Staging') <= Cardinality(Staging) /\ Cardinality(Staging') \in Nat
    BY <1>1, <2>1, FS_Subset, FS_CardinalityType
  <2>3. want' \in 0 .. Cardinality(Slots)
    BY <1>1, <1>3
  <2>4. outstanding' \in 0 .. TargetDepth /\ Cardinality(Staging') <= outstanding'
    BY <1>1, <1>3, <2>2
  <2> QED
    BY <1>3, <2>3, <2>4 DEF DepthInv
<1>4. CASE PrefetchStops \/ PrefetcherDies \/ Drained \/ DrainCut
  BY <1>3, <1>4 DEF PrefetchStops, PrefetcherDies, Drained, DrainCut, Return
<1>5. CASE ClaimNone
  <2>1. CASE prefetch' = "done"
    <3>1. AbortStaging \/ place' = place
      BY <1>5 DEF ClaimNone
    <3>2. CASE AbortStaging
      BY <1>3, <1>5, <2>1, <3>2 DEF ClaimNone
    <3>3. CASE place' = place
      <4>1. Staging' = Staging
        BY <3>3 DEF Staging
      <4> QED
        BY <1>2, <1>5, <2>1, <4>1 DEF ClaimNone
    <3> QED
      BY <3>1, <3>2, <3>3
  <2>2. CASE prefetch' # "done"
    <3>1. place' = place /\ prefetch' = "check" /\ prefetch = "poll" /\ want' = 0
          /\ outstanding' = outstanding
      BY <1>5, <2>2 DEF ClaimNone
    <3>2. Staging' = Staging
      BY <3>1 DEF Staging
    <3> QED
      BY <1>2, <3>1, <3>2
  <2> QED
    BY <2>1, <2>2
<1>6. CASE PrefetchSleeps \/ RoomWakes \/ ClaimFails
  <2>1. /\ place' = place /\ outstanding' = outstanding /\ want' \in {0, want}
        /\ prefetch' \in {"asleep", "check"} /\ prefetch \notin {"done", "died"}
    BY <1>6 DEF PrefetchSleeps, RoomWakes, ClaimFails, jobVars
  <2>2. Staging' = Staging
    BY <2>1 DEF Staging
  <2> QED
    BY <1>2, <2>1, <2>2
<1>7. CASE PrefetchCheck
  <2>1. place' = place /\ outstanding' = outstanding /\ prefetch = "check"
    BY <1>7 DEF PrefetchCheck, jobVars
  <2>2. Staging' = Staging
    BY <2>1 DEF Staging
  <2>3. CASE outstanding < TargetDepth
    <3>1. prefetch' = "poll" /\ want' = AtMost(TargetDepth - outstanding, Cardinality(Slots))
      BY <1>7, <2>3 DEF PrefetchCheck
    <3>2. want' \in 0 .. Cardinality(Slots) /\ outstanding + want' <= TargetDepth
      BY <1>1, <2>3, <3>1 DEF AtMost
    <3> QED
      BY <1>1, <2>1, <2>2, <3>1, <3>2 DEF DepthInv
  <2>4. CASE ~(outstanding < TargetDepth)
    <3>1. prefetch' = "full" /\ want' = want
      BY <1>7, <2>4 DEF PrefetchCheck
    <3> QED
      BY <1>2, <2>1, <2>2, <3>1
  <2> QED
    BY <2>3, <2>4
<1>8. CASE Claim
  <2>1. /\ prefetch = "poll" /\ prefetch' = "check" /\ want' = 0
        /\ outstanding = Cardinality(Staging) /\ outstanding + want <= TargetDepth
    BY <1>1, <1>8 DEF Claim
  <2>2. PICK R \in SUBSET {j \in Jobs : place[j] = "hopper"} : \E S \in SUBSET R :
           /\ Cardinality(S) = AtMost(Cardinality(R), want)
           /\ place' = [j \in Jobs |-> IF j \in S THEN "claimed"
                                       ELSE IF j \in R THEN "lost" ELSE place[j]]
           /\ outstanding' = outstanding + Cardinality(S)
    BY <1>8 DEF Claim
  <2>3. PICK S \in SUBSET R :
           /\ Cardinality(S) = AtMost(Cardinality(R), want)
           /\ place' = [j \in Jobs |-> IF j \in S THEN "claimed"
                                       ELSE IF j \in R THEN "lost" ELSE place[j]]
           /\ outstanding' = outstanding + Cardinality(S)
    BY <2>2
  <2>4. IsFiniteSet(S) /\ Cardinality(S) \in Nat /\ Cardinality(R) \in Nat
    BY PartsAreFinite
  <2>5. Staging' = Staging \cup S /\ Staging \cap S = {}
    BY <1>0, <2>3 DEF Staging, TypeOK
  <2>6. Cardinality(Staging') = Cardinality(Staging) + Cardinality(S)
    <3>1. Cardinality(Staging \cup S)
            = Cardinality(Staging) + Cardinality(S) - Cardinality(Staging \cap S)
      BY <1>1, <2>4, FS_Union
    <3>2. Cardinality(Staging \cap S) = 0
      BY <2>5, FS_EmptySet
    <3> QED
      BY <1>1, <2>4, <2>5, <3>1, <3>2
  <2>7. Cardinality(S) <= want
    BY <1>1, <2>3, <2>4 DEF AtMost
  <2>8. outstanding' = outstanding + Cardinality(S)
    BY <2>3
  <2> QED
    BY <1>1, <2>1, <2>4, <2>6, <2>7, <2>8 DEF DepthInv
<1>9. ASSUME NEW j \in Jobs, place[j] \in {"claimed", "staged"}, outstanding' = outstanding - 1,
             UNCHANGED <<prefetch, want>>,
             \E to \in {"lost", "payload"} : place' = [place EXCEPT ![j] = to]
      PROVE  Goal
  <2>1. Staging' = Staging \ {j} /\ j \in Staging
    BY <1>0, <1>9 DEF Staging, TypeOK
  <2>2. Cardinality(Staging) = Cardinality(Staging') + 1 /\ Cardinality(Staging') \in Nat
    BY <1>1, <2>1, CountRemove
  <2> QED
    BY <1>1, <1>9, <2>2 DEF DepthInv
<1>10. ASSUME NEW j \in Jobs, DownloadPanics(j) PROVE Goal
  BY <1>9, <1>10 DEF DownloadPanics
<1>11. ASSUME NEW s \in Slots, NEW j \in Jobs, SlotDispatch(s, j) PROVE Goal
  BY <1>9, <1>11 DEF SlotDispatch, Unstage
<1>12. ASSUME UNCHANGED <<outstanding, want, prefetch>>,
              \A k \in Jobs : place'[k] \in {"claimed", "staged"}
                                <=> place[k] \in {"claimed", "staged"}
       PROVE  Goal
  <2>1. Staging' = Staging
    BY <1>12 DEF Staging
  <2> QED
    BY <1>2, <1>12, <2>1
<1>13. ASSUME NEW j \in Jobs, Download(j) PROVE Goal
  BY <1>0, <1>12, <1>13 DEF Download, TypeOK
<1>14. ASSUME NEW j \in Jobs, JobTail(j) PROVE Goal
  <2>1. /\ UNCHANGED <<outstanding, want, prefetch>>
        /\ \/ place' = place
           \/ place[j] \in TailPlaces /\ \E to \in TailPlaces \cup {"done", "aborted"} :
                                            place' = [place EXCEPT ![j] = to]
    BY <1>14 DEF JobTail, JobRefused, JobQueues, JobPassesGate, JobStarts, JobExpires, JobJoins,
       JobPosted, OpinionSkipped, OpinionStarts, OpinionPosted, TailAborted, Goto, prefVars,
       TailPlaces, InTail
  <2> QED
    BY <1>0, <1>12, <2>1 DEF TypeOK, TailPlaces
<1>15. CASE UNCHANGED <<place, outstanding, want, prefetch>>
  BY <1>12, <1>15
<1>16. ASSUME NEW s \in Slots, SlotTop(s) \/ SlotPermit(s) \/ SlotLeaves(s) \/ SlotDone(s)
       PROVE  UNCHANGED <<place, outstanding, want, prefetch>>
  BY <1>16 DEF SlotTop, SlotPermit, SlotLeaves, SlotDone, jobVars, prefVars
<1>17. ASSUME \/ Signal \/ TickStarts \/ TickEnds \/ TickAborts \/ RunStops \/ ProcessExits
              \/ \E j \in Jobs : Thread(j)
       PROVE  UNCHANGED <<place, outstanding, want, prefetch>>
  BY <1>17 DEF Signal, TickStarts, TickEnds, TickAborts, RunStops, ProcessExits, Thread, StageMoves,
     LeaseReturned, ThreadReturns, OpinionReturns, jobVars, prefVars
<1> QED
  BY <1>4, <1>5, <1>6, <1>7, <1>8, <1>10, <1>11, <1>13, <1>14, <1>15, <1>16, <1>17
     DEF Next, Prefetcher, Slot, vars

\* What a job has where it is.
LEMMA JobStep == WorkerInv /\ [Next]_vars => JobInv'
<1> SUFFICES ASSUME WorkerInv, [Next]_vars PROVE JobInv'
  OBVIOUS
<1>0. TypeOK /\ JobInv
  BY DEF WorkerInv
<1> USE DEF InTail, TailPlaces
<1>1. CASE Shuffles
  <2>1. /\ UNCHANGED <<owner, thread, cancel, expired, result>>
        /\ \A k \in Jobs : \/ place'[k] = place[k]
                           \/ /\ place[k] \in {"hopper", "claimed"}
                              /\ place'[k] \in {"claimed", "staged", "lost"}
    BY <1>0, <1>1, ShuffleMoves
  <2> QED
    BY <1>0, <2>1 DEF JobInv
<1>2. ASSUME NEW s \in Slots, NEW j \in Jobs, SlotDispatch(s, j) PROVE JobInv'
  BY <1>0, <1>2 DEF SlotDispatch, JobInv, TypeOK
<1>3. ASSUME NEW j \in Jobs, JobRefused(j) PROVE JobInv'
  BY <1>0, <1>3 DEF JobRefused, Goto, JobInv, TypeOK
<1>4. ASSUME NEW j \in Jobs, JobQueues(j) \/ JobPassesGate(j) PROVE JobInv'
  BY <1>0, <1>4 DEF JobQueues, JobPassesGate, Goto, JobInv, TypeOK
<1>5. ASSUME NEW j \in Jobs, JobStarts(j) PROVE JobInv'
  BY <1>0, <1>5 DEF JobStarts, Goto, JobInv, TypeOK
<1>6. ASSUME NEW j \in Jobs, JobExpires(j) PROVE JobInv'
  BY <1>0, <1>6 DEF JobExpires, JobInv, TypeOK
<1>7. ASSUME NEW j \in Jobs, JobJoins(j) PROVE JobInv'
  BY <1>0, <1>7 DEF JobJoins, Goto, JobInv, TypeOK
<1>8. ASSUME NEW j \in Jobs, JobPosted(j) PROVE JobInv'
  <2>1. /\ place[j] = "post" /\ UNCHANGED <<owner, thread, cancel, expired, result>>
        /\ \E to \in {"second", "done"} : place' = [place EXCEPT ![j] = to]
    BY <1>8 DEF JobPosted, Goto
  <2> QED
    BY <1>0, <2>1 DEF JobInv, TypeOK
<1>9. ASSUME NEW j \in Jobs, OpinionSkipped(j) \/ OpinionPosted(j) PROVE JobInv'
  BY <1>0, <1>9 DEF OpinionSkipped, OpinionPosted, Goto, JobInv, TypeOK
<1>10. ASSUME NEW j \in Jobs, OpinionStarts(j) PROVE JobInv'
  BY <1>0, <1>10 DEF OpinionStarts, Goto, JobInv, TypeOK
<1>11. ASSUME NEW j \in Jobs, TailAborted(j) PROVE JobInv'
  <2>1. /\ place' = [place EXCEPT ![j] = "aborted"] /\ UNCHANGED <<owner, thread, expired, result>>
        /\ \A k \in Jobs \ {j} : cancel'[k] <=> cancel[k]
        /\ place[j] = "run" => cancel'[j]
    BY <1>0, <1>11 DEF TailAborted, TypeOK
  <2>2. thread[j] \in {"cpu", "net"} => place[j] = "run"
    BY <1>0, <1>11 DEF TailAborted, JobInv
  <2> QED
    BY <1>0, <2>1, <2>2 DEF JobInv, TypeOK
<1>12. ASSUME NEW j \in Jobs, Thread(j) PROVE JobInv'
  <2>1. /\ UNCHANGED <<place, owner, cancel, expired, result>>
        /\ \/ thread' = thread
           \/ /\ thread[j] \in {"cpu", "net"}
              /\ thread' = [thread EXCEPT ![j] = "net"] \/ thread' = [thread EXCEPT ![j] = "returned"]
           \/ thread' = [thread EXCEPT ![j] = "none"]
    BY <1>12 DEF Thread, StageMoves, LeaseReturned, ThreadReturns, OpinionReturns, jobVars
  <2> QED
    BY <1>0, <2>1 DEF JobInv, TypeOK
<1>13. CASE UNCHANGED jobVars
  BY <1>0, <1>13 DEF JobInv, jobVars
<1>14. ASSUME \/ Signal \/ TickStarts \/ TickEnds \/ TickAborts \/ RunStops \/ ProcessExits
              \/ \E s \in Slots : SlotTop(s) \/ SlotPermit(s) \/ SlotLeaves(s) \/ SlotDone(s)
       PROVE  UNCHANGED jobVars
  BY <1>14 DEF Signal, TickStarts, TickEnds, TickAborts, RunStops, ProcessExits, SlotTop,
     SlotPermit, SlotLeaves, SlotDone
<1> QED
  BY <1>1, <1>2, <1>3, <1>4, <1>5, <1>6, <1>7, <1>8, <1>9, <1>10, <1>11, <1>12, <1>13, <1>14
     DEF Next, Shuffles, JobTail, Slot, vars, jobVars

\* Types: of the jobs, and of the rest beside the counters.
JobTypes ==
    /\ place \in [Jobs -> {"hopper", "claimed", "staged", "lost", "done", "aborted"}
                            \cup TailPlaces]
    /\ owner \in [Jobs -> Slots \cup {None}]
    /\ thread \in [Jobs -> {"none", "cpu", "net", "llm", "returned"}]
    /\ cancel \in [Jobs -> BOOLEAN] /\ expired \in [Jobs -> BOOLEAN]
    /\ result \in [Jobs -> {"none", "failed", "verdict", "pending"}]

OtherTypes ==
    /\ prefetch \in {"check", "poll", "full", "asleep", "done", "died"}
    /\ roomPermit \in BOOLEAN
    /\ slot \in [Slots -> {"top", "permit", "recv", "drain", "done", "cut"}]
    /\ tailsFree \in Nat
    /\ completed \in Nat
    /\ stop \in {"none", "Finished", "Stalled"}
    /\ main \in {"run", "drain", "returned", "exited"}
    /\ exit \in {"none", "Finished", "Stalled"}
    /\ watchdog \in {"sleep", "tick", "off"}
    /\ moved \in BOOLEAN

LEMMA JobTypesStep == WorkerInv /\ [Next]_vars => JobTypes'
<1> SUFFICES ASSUME WorkerInv, [Next]_vars PROVE JobTypes'
  OBVIOUS
<1>0. TypeOK /\ JobTypes
  BY DEF WorkerInv, TypeOK, JobTypes
<1> USE DEF TailPlaces
<1>1. CASE Shuffles
  <2>1. UNCHANGED <<owner, thread, cancel, expired, result>>
    BY <1>0, <1>1, ShuffleMoves
  <2>2. ASSUME AbortStaging \/ place' = place PROVE JobTypes'
    BY <1>0, <2>1, <2>2 DEF AbortStaging, JobTypes
  <2>3. CASE Claim
    <3>1. PICK R \in SUBSET {j \in Jobs : place[j] = "hopper"} : \E S \in SUBSET R :
             place' = [j \in Jobs |-> IF j \in S THEN "claimed"
                                      ELSE IF j \in R THEN "lost" ELSE place[j]]
      BY <2>3 DEF Claim
    <3>2. PICK S \in SUBSET R :
             place' = [j \in Jobs |-> IF j \in S THEN "claimed"
                                      ELSE IF j \in R THEN "lost" ELSE place[j]]
      BY <3>1
    <3> QED
      BY <1>0, <2>1, <3>2 DEF JobTypes
  <2>4. ASSUME NEW j \in Jobs, Download(j) \/ DownloadPanics(j) PROVE JobTypes'
    <3>1. \E to \in {"staged", "lost"} : place' = [place EXCEPT ![j] = to]
      BY <2>4 DEF Download, DownloadPanics
    <3> QED
      BY <1>0, <2>1, <3>1 DEF JobTypes
  <2> QED
    BY <1>1, <2>2, <2>3, <2>4 DEF Shuffles, Prefetcher, PrefetchStops, PrefetchCheck,
       PrefetchSleeps, RoomWakes, ClaimNone, ClaimFails, PrefetcherDies, Drained, DrainCut, Return,
       jobVars
<1>2. ASSUME NEW s \in Slots, NEW j \in Jobs, SlotDispatch(s, j) PROVE JobTypes'
  BY <1>0, <1>2 DEF SlotDispatch, JobTypes
<1>3. ASSUME NEW j \in Jobs, JobRefused(j) \/ JobQueues(j) \/ JobPassesGate(j) \/ JobStarts(j)
      PROVE  JobTypes'
  BY <1>0, <1>3 DEF JobRefused, JobQueues, JobPassesGate, JobStarts, Goto, JobTypes
<1>4. ASSUME NEW j \in Jobs, JobExpires(j) PROVE JobTypes'
  BY <1>0, <1>4 DEF JobExpires, JobTypes
<1>5. ASSUME NEW j \in Jobs, JobJoins(j) PROVE JobTypes'
  <2>1. /\ UNCHANGED <<owner, expired>> /\ place' = [place EXCEPT ![j] = "post"]
        /\ thread' = [thread EXCEPT ![j] = "none"] /\ cancel' = [cancel EXCEPT ![j] = TRUE]
    BY <1>5 DEF JobJoins, Goto
  <2>2. \E r \in {"failed", "verdict", "pending"} : result' = [result EXCEPT ![j] = r]
    BY <1>5 DEF JobJoins
  <2>3. result' \in [Jobs -> {"none", "failed", "verdict", "pending"}]
    BY <1>0, <2>2 DEF JobTypes
  <2> QED
    BY <1>0, <2>1, <2>3 DEF JobTypes
<1>6. ASSUME NEW j \in Jobs, JobPosted(j) PROVE JobTypes'
  <2>1. UNCHANGED <<owner, thread, cancel, expired, result>>
    BY <1>6 DEF JobPosted
  <2>2. \E to \in {"second", "done"} : place' = [place EXCEPT ![j] = to]
    BY <1>6 DEF JobPosted, Goto
  <2> QED
    BY <1>0, <2>1, <2>2 DEF JobTypes
<1>7. ASSUME NEW j \in Jobs, OpinionSkipped(j) \/ OpinionPosted(j) PROVE JobTypes'
  BY <1>0, <1>7 DEF OpinionSkipped, OpinionPosted, Goto, JobTypes
<1>8. ASSUME NEW j \in Jobs, OpinionStarts(j) PROVE JobTypes'
  BY <1>0, <1>8 DEF OpinionStarts, Goto, JobTypes
<1>9. ASSUME NEW j \in Jobs, TailAborted(j) PROVE JobTypes'
  <2>1. cancel' \in [Jobs -> BOOLEAN]
    BY <1>0, <1>9 DEF TailAborted, JobTypes
  <2> QED
    BY <1>0, <1>9, <2>1 DEF TailAborted, JobTypes
<1>10. ASSUME NEW j \in Jobs, Thread(j) PROVE JobTypes'
  <2>1. UNCHANGED <<place, owner, cancel, expired, result>>
    BY <1>10 DEF Thread, StageMoves, LeaseReturned, ThreadReturns, OpinionReturns, jobVars
  <2>2. \/ thread' = thread
        \/ \E at \in {"net", "returned", "none"} : thread' = [thread EXCEPT ![j] = at]
    BY <1>10 DEF Thread, StageMoves, LeaseReturned, ThreadReturns, OpinionReturns, jobVars
  <2>3. thread' \in [Jobs -> {"none", "cpu", "net", "llm", "returned"}]
    BY <1>0, <2>2 DEF JobTypes
  <2> QED
    BY <1>0, <2>1, <2>3 DEF JobTypes
<1>11. CASE UNCHANGED jobVars
  BY <1>0, <1>11 DEF JobTypes, jobVars
<1>12. ASSUME \/ Signal \/ TickStarts \/ TickEnds \/ TickAborts \/ RunStops \/ ProcessExits
             \/ \E s \in Slots : SlotTop(s) \/ SlotPermit(s) \/ SlotLeaves(s) \/ SlotDone(s)
      PROVE  UNCHANGED jobVars
  BY <1>12 DEF Signal, TickStarts, TickEnds, TickAborts, RunStops, ProcessExits, SlotTop,
     SlotPermit, SlotLeaves, SlotDone
<1> QED
  BY <1>1, <1>2, <1>3, <1>4, <1>6, <1>9, <1>10, <1>11, <1>12, <1>7, <1>8,
     <1>5
     DEF Next, Shuffles, JobTail, Slot, vars, jobVars

LEMMA OtherTypesStep == WorkerInv /\ [Next]_vars => OtherTypes'
<1> SUFFICES ASSUME WorkerInv, [Next]_vars PROVE OtherTypes'
  OBVIOUS
<1>0. TypeOK /\ OtherTypes
  BY TailsAssumption DEF WorkerInv, TypeOK, OtherTypes
<1> USE DEF OtherTypes, endVars, dogVars, prefVars, permVars
<1>1. ASSUME NEW e \in {"Finished", "Stalled"}
      PROVE  Raised(stop, e) \in {"none", "Finished", "Stalled"}
  BY <1>0 DEF Raised
<1>2. CASE Signal \/ TickStarts \/ TickEnds \/ TickAborts \/ RunStops \/ ProcessExits
  <2>1. stop' \in {"none", "Finished", "Stalled"}
    BY <1>0, <1>1, <1>2 DEF Signal, TickStarts, TickEnds, TickAborts, RunStops, ProcessExits
  <2> QED
    BY <1>0, <1>2, <2>1 DEF Signal, TickStarts, TickEnds, TickAborts, RunStops, ProcessExits
<1>3. CASE Prefetcher
  BY <1>0, <1>3 DEF Prefetcher, PrefetchStops, PrefetchCheck, PrefetchSleeps, RoomWakes, Claim,
     ClaimNone, ClaimFails, PrefetcherDies
<1>4. ASSUME NEW j \in Jobs, Download(j) \/ DownloadPanics(j) PROVE OtherTypes'
  BY <1>0, <1>4 DEF Download, DownloadPanics
<1>5. ASSUME NEW s \in Slots, SlotTop(s) PROVE OtherTypes'
  <2>1. stop' \in {"none", "Finished", "Stalled"}
    BY <1>0, <1>1, <1>5 DEF SlotTop
  <2> QED
    BY <1>0, <1>5, <2>1 DEF SlotTop
<1>6. ASSUME NEW s \in Slots, SlotPermit(s) \/ SlotLeaves(s) \/ SlotDone(s) PROVE OtherTypes'
  BY <1>0, <1>6 DEF SlotPermit, SlotLeaves, SlotDone
<1>7. ASSUME NEW s \in Slots, NEW j \in Jobs, SlotDispatch(s, j) PROVE OtherTypes'
  BY <1>0, <1>7 DEF SlotDispatch, Unstage
<1>8. ASSUME NEW j \in Jobs, JobPosted(j) PROVE OtherTypes'
  <2>1. stop' \in {"none", "Finished", "Stalled"}
    BY <1>0, <1>1, <1>8 DEF JobPosted
  <2> QED
    BY <1>0, <1>8, <2>1 DEF JobPosted
<1>9. ASSUME NEW j \in Jobs,
             \/ JobRefused(j) \/ JobQueues(j) \/ JobPassesGate(j) \/ JobStarts(j) \/ JobExpires(j)
             \/ JobJoins(j) \/ OpinionStarts(j) \/ Thread(j)
      PROVE  OtherTypes'
  <2>1. /\ UNCHANGED <<prefetch, roomPermit, slot, tailsFree, completed, stop, main, exit, watchdog>>
        /\ moved' \in {moved, TRUE}
    BY <1>9 DEF JobRefused, JobQueues, JobPassesGate, JobStarts, JobExpires, JobJoins,
       OpinionStarts, Thread, StageMoves, LeaseReturned, ThreadReturns, OpinionReturns
  <2>2. moved' \in BOOLEAN
    BY <1>0, <2>1
  <2> QED
    BY <1>0, <2>1, <2>2
<1>10. ASSUME NEW j \in Jobs, OpinionSkipped(j) \/ OpinionPosted(j) \/ TailAborted(j)
       PROVE  OtherTypes'
  <2>1. /\ UNCHANGED <<prefetch, roomPermit, slot, completed, stop, main, exit, watchdog, moved>>
        /\ tailsFree' = tailsFree + 1
    BY <1>10 DEF OpinionSkipped, OpinionPosted, TailAborted
  <2> QED
    BY <1>0, <2>1
<1>11. CASE Drained
  BY <1>0, <1>11 DEF Drained, Return
<1>12. CASE DrainCut
  <2>1. tailsFree' \in Nat
    <3>1. Cardinality(Waiting) \in Nat /\ tailsFree' = tailsFree + Cardinality(Waiting)
      BY <1>12, PartsOf, PartsAreFinite DEF DrainCut, Waiting
    <3> QED
      BY <1>0, <3>1
  <2> QED
    BY <1>0, <1>12, <2>1 DEF DrainCut, Return
<1>13. CASE UNCHANGED vars
  BY <1>0, <1>13 DEF vars
<1> QED
  BY <1>2, <1>3, <1>4, <1>5, <1>6, <1>7, <1>8, <1>9, <1>11, <1>12, <1>13,
     <1>10
     DEF Next, Slot, JobTail

LEMMA TypeStep == WorkerInv /\ [Next]_vars => TypeOK'
<1> SUFFICES ASSUME WorkerInv, [Next]_vars PROVE TypeOK'
  OBVIOUS
<1>1. JobTypes' /\ OtherTypes'
  BY JobTypesStep, OtherTypesStep
<1>2. tailsFree' \in 0 .. TailCap
  <2>1. TailsExact' /\ tailsFree' \in Nat
    BY <1>1, TailsStep DEF OtherTypes
  <2>2. Cardinality(Tails') \in Nat /\ Cardinality(Waiting') \in Nat /\ TailCap \in Nat
    BY PartsOf, PartsAreFinite, TailsAssumption DEF Tails, Waiting
  <2> QED
    BY <2>1, <2>2 DEF TailsExact
<1>3. llmFree' \in 0 .. LlmBacklog
  <2>1. OpinionsExact' /\ llmFree' \in Nat
    BY OpinionsStep
  <2>2. Cardinality(Consulting') \in Nat /\ LlmBacklog \in Nat
    BY PartsAreFinite, PermitsAssumption DEF Consulting
  <2> QED
    BY <2>1, <2>2 DEF OpinionsExact
<1>4. laneFree' \in [Lanes -> Nat]
  BY LanesStep
<1>5. outstanding' \in 0 .. TargetDepth /\ want' \in 0 .. Cardinality(Slots)
  BY DepthStep
<1> QED
  BY <1>1, <1>2, <1>3, <1>4, <1>5 DEF TypeOK, JobTypes, OtherTypes

\* Whoever lowers the depth leaves a permit, and only a prefetcher that looks takes it.
LEMMA RoomStep == WorkerInv /\ [Next]_vars => RoomIsHeard'
<1> SUFFICES ASSUME WorkerInv, [Next]_vars PROVE RoomIsHeard'
  OBVIOUS
<1>0. RoomIsHeard
  BY DEF WorkerInv
<1>1. CASE PrefetchStops \/ RoomWakes \/ Claim \/ ClaimNone \/ ClaimFails \/ PrefetcherDies
  <2>1. prefetch' \in {"check", "done", "died"}
    BY <1>1 DEF PrefetchStops, RoomWakes, Claim, ClaimNone, ClaimFails, PrefetcherDies
  <2> QED
    BY <2>1 DEF RoomIsHeard
<1>2. CASE PrefetchCheck
  BY <1>2 DEF PrefetchCheck, RoomIsHeard
<1>3. CASE PrefetchSleeps
  BY <1>0, <1>3 DEF PrefetchSleeps, RoomIsHeard
<1>4. ASSUME NEW j \in Jobs, Download(j) PROVE RoomIsHeard'
  BY <1>0, <1>4 DEF Download, RoomIsHeard
<1>5. ASSUME NEW j \in Jobs, DownloadPanics(j) PROVE RoomIsHeard'
  BY <1>5 DEF DownloadPanics, RoomIsHeard
<1>6. ASSUME NEW s \in Slots, Slot(s) PROVE RoomIsHeard'
  <2>1. CASE \E j \in Jobs : SlotDispatch(s, j)
    BY <2>1 DEF SlotDispatch, Unstage, RoomIsHeard
  <2>2. CASE SlotTop(s) \/ SlotPermit(s) \/ SlotLeaves(s) \/ SlotDone(s)
    BY <1>0, <2>2 DEF SlotTop, SlotPermit, SlotLeaves, SlotDone, prefVars, RoomIsHeard
  <2> QED
    BY <1>6, <2>1, <2>2 DEF Slot
<1>7. CASE Drained \/ DrainCut
  <2>1. prefetch' \in {"done", "died"}
    BY <1>7 DEF Drained, DrainCut, Return
  <2> QED
    BY <2>1 DEF RoomIsHeard
<1>8. ASSUME UNCHANGED prefVars PROVE RoomIsHeard'
  BY <1>0, <1>8 DEF prefVars, RoomIsHeard
<1>9. ASSUME NEW j \in Jobs, JobTail(j) \/ Thread(j) PROVE UNCHANGED prefVars
  BY <1>9 DEF JobTail, JobRefused, JobQueues, JobPassesGate, JobStarts, JobExpires, JobJoins,
     JobPosted, OpinionSkipped, OpinionStarts, OpinionPosted, TailAborted, Thread, StageMoves,
     LeaseReturned, ThreadReturns, OpinionReturns
<1>10. CASE Signal \/ TickStarts \/ TickEnds \/ TickAborts \/ RunStops \/ ProcessExits
  BY <1>8, <1>10 DEF Signal, TickStarts, TickEnds, TickAborts, RunStops, ProcessExits
<1>11. CASE UNCHANGED vars
  BY <1>8, <1>11 DEF vars, prefVars
<1> QED
  BY <1>1, <1>2, <1>3, <1>4, <1>5, <1>6, <1>7, <1>8, <1>9, <1>10, <1>11 DEF Next, Prefetcher

\* The thread of a tail is there until the tail joins it.
LEMMA ThreadStep == WorkerInv /\ [Next]_vars => ThreadInv'
<1> SUFFICES ASSUME WorkerInv, [Next]_vars PROVE ThreadInv'
  OBVIOUS
<1>0. ThreadInv /\ JobInv /\ TypeOK
  BY DEF WorkerInv
<1>1. ASSUME UNCHANGED thread,
             \A k \in Jobs : place'[k] = place[k] \/ place'[k] \notin {"run", "opinion"}
      PROVE  ThreadInv'
  BY <1>0, <1>1 DEF ThreadInv
<1>2. CASE PrefetchStops \/ ClaimNone \/ PrefetcherDies \/ Claim \/ Drained \/ DrainCut
  <2>1. UNCHANGED thread
    BY <1>2 DEF PrefetchStops, ClaimNone, PrefetcherDies, Claim, Drained, DrainCut, Return, jobVars
  <2>2. \A k \in Jobs : place'[k] = place[k] \/ place'[k] \in {"lost", "claimed"}
    BY <1>2 DEF PrefetchStops, ClaimNone, PrefetcherDies, Claim, Drained, DrainCut, Return,
       AbortStaging
  <2> QED
    BY <1>1, <2>1, <2>2
<1>3. CASE PrefetchCheck \/ PrefetchSleeps \/ RoomWakes \/ ClaimFails
  BY <1>1, <1>3 DEF PrefetchCheck, PrefetchSleeps, RoomWakes, ClaimFails, jobVars
<1>4. ASSUME NEW j \in Jobs, Download(j) \/ DownloadPanics(j) PROVE ThreadInv'
  <2>1. UNCHANGED thread /\ \E p \in {"staged", "lost"} : place' = [place EXCEPT ![j] = p]
    BY <1>4 DEF Download, DownloadPanics
  <2> QED
    BY <1>0, <1>1, <2>1 DEF TypeOK
<1>5. ASSUME NEW s \in Slots, Slot(s) PROVE ThreadInv'
  <2>1. /\ UNCHANGED thread
        /\ place' = place \/ \E j \in Jobs : place' = [place EXCEPT ![j] = "payload"]
    BY <1>5 DEF Slot, SlotTop, SlotPermit, SlotLeaves, SlotDone, SlotDispatch, jobVars
  <2> QED
    BY <1>0, <1>1, <2>1 DEF TypeOK
<1>6. ASSUME NEW j \in Jobs,
             \/ JobRefused(j) \/ JobQueues(j) \/ JobPassesGate(j) \/ JobExpires(j) \/ JobPosted(j)
             \/ OpinionSkipped(j) \/ OpinionPosted(j) \/ TailAborted(j)
      PROVE  ThreadInv'
  <2>1. /\ UNCHANGED thread
        /\ \/ place' = place
           \/ \E p \in {"post", "gate", "admit", "second", "done", "aborted"} :
                 place' = [place EXCEPT ![j] = p]
    BY <1>6 DEF JobRefused, JobQueues, JobPassesGate, JobExpires, JobPosted, OpinionSkipped,
       OpinionPosted, TailAborted, Goto
  <2> QED
    BY <1>0, <1>1, <2>1 DEF TypeOK
<1>7. ASSUME NEW j \in Jobs, JobStarts(j) \/ JobJoins(j) \/ OpinionStarts(j) PROVE ThreadInv'
  <2>1. \/ place' = [place EXCEPT ![j] = "run"] /\ thread' = [thread EXCEPT ![j] = "cpu"]
        \/ place' = [place EXCEPT ![j] = "post"] /\ thread' = [thread EXCEPT ![j] = "none"]
        \/ place' = [place EXCEPT ![j] = "opinion"] /\ thread' = [thread EXCEPT ![j] = "llm"]
    BY <1>7 DEF JobStarts, JobJoins, OpinionStarts, Goto
  <2> QED
    BY <1>0, <2>1 DEF ThreadInv, TypeOK
<1>8. ASSUME NEW j \in Jobs, Thread(j) PROVE ThreadInv'
  <2>1. place' = place
    BY <1>8 DEF Thread, StageMoves, LeaseReturned, ThreadReturns, OpinionReturns, jobVars
  <2>2. \/ thread' = thread
        \/ /\ thread[j] \in {"cpu", "net"}
           /\ \E t \in {"net", "returned"} : thread' = [thread EXCEPT ![j] = t]
        \/ thread[j] = "llm" /\ thread' = [thread EXCEPT ![j] = "none"]
    BY <1>8 DEF Thread, StageMoves, LeaseReturned, ThreadReturns, OpinionReturns, jobVars
  <2>3. /\ thread[j] \in {"cpu", "net"} => place[j] # "opinion"
        /\ thread[j] = "llm" => place[j] # "run"
    BY <1>0 DEF JobInv
  <2> QED
    BY <1>0, <2>1, <2>2, <2>3 DEF ThreadInv, TypeOK
<1>9. CASE Signal \/ TickStarts \/ TickEnds \/ TickAborts \/ RunStops \/ ProcessExits
  BY <1>1, <1>9 DEF Signal, TickStarts, TickEnds, TickAborts, RunStops, ProcessExits, jobVars
<1>10. CASE UNCHANGED vars
  BY <1>1, <1>10 DEF vars
<1> QED
  BY <1>2, <1>3, <1>4, <1>5, <1>6, <1>7, <1>8, <1>9, <1>10 DEF Next, Prefetcher, JobTail

LEMMA WorkerInitInv == Init => WorkerInv
<1> SUFFICES ASSUME Init PROVE WorkerInv
  OBVIOUS
<1>1. Cardinality(Slots) \in Nat
  BY PartsAreFinite
<1>2. JobTypes
  BY DEF Init, JobTypes, TailPlaces
<1>3. OtherTypes
  BY TailsAssumption DEF Init, OtherTypes
<1>4. /\ want \in 0 .. Cardinality(Slots) /\ outstanding \in 0 .. TargetDepth
      /\ tailsFree \in 0 .. TailCap /\ llmFree \in 0 .. LlmBacklog
  BY <1>1, PermitsAssumption, TailsAssumption DEF Init
<1>5. laneFree \in [Lanes -> Nat]
  BY PermitsAssumption DEF Init
<1>6. JobInv /\ ThreadInv /\ RoomIsHeard
  BY DEF Init, JobInv, ThreadInv, RoomIsHeard, InTail, TailPlaces
<1>7. /\ Tails = {} /\ Waiting = {} /\ Consulting = {} /\ Staging = {}
      /\ \A l \in Lanes : Gated(l) = {}
  BY DEF Init, Tails, Waiting, Consulting, Staging, Gated, InTail, TailPlaces
<1>8. Cardinality({}) = 0
  BY FS_EmptySet
<1>9. TailsExact /\ OpinionsExact
  BY <1>7, <1>8, PermitsAssumption, TailsAssumption DEF Init, TailsExact, OpinionsExact
<1>10. LanesExact
  <2>1. \A l \in Lanes : laneFree[l] = LanePermits[l] /\ LanePermits[l] \in Nat
    BY PermitsAssumption DEF Init
  <2> QED
    BY <2>1, <1>7, <1>8 DEF LanesExact
<1>11. DepthInv
  BY <1>7, <1>8, PermitsAssumption DEF Init, DepthInv
<1> QED
  BY <1>2, <1>6, <1>9, <1>3, <1>4, <1>5, <1>10, <1>11 DEF WorkerInv, TypeOK, JobTypes, OtherTypes

\* The invariant of the worker holds in every run.
THEOREM WorkerInvariant == Spec => []WorkerInv
<1>1. WorkerInv /\ [Next]_vars => WorkerInv'
  BY TypeStep, JobStep, ThreadStep, TailsStep, LanesStep, OpinionsStep, DepthStep, RoomStep
     DEF WorkerInv
<1> QED
  BY <1>1, WorkerInitInv, PTL DEF Spec

\* A permit that is gone has a holder: a slot finds the permits of the tails taken because a
\* tail has one, and among the tails one can go on unless some thread is at work.
LEMMA SomebodyGoesOn == WorkerInv => TailsGoOn
<1> SUFFICES ASSUME WorkerInv PROVE TailsGoOn
  OBVIOUS
<1>0. TypeOK /\ JobInv /\ ThreadInv /\ TailsExact /\ LanesExact
  BY DEF WorkerInv
<1>1. ASSUME NEW s \in Slots, slot[s] = "permit", tailsFree = 0, \A j \in Jobs : ~InTail(j)
      PROVE  FALSE
  <2>1. Tails = {} /\ Waiting \subseteq Slots \ {s}
    BY <1>1 DEF Tails, Waiting
  <2>2. Cardinality(Tails) = 0
    BY <2>1, FS_EmptySet
  <2>3. IsFiniteSet(Slots) /\ Cardinality(Slots) \in Nat /\ IsFiniteSet(Slots \ {s})
    BY PartsAreFinite
  <2>4. Cardinality(Slots) = Cardinality(Slots \ {s}) + 1 /\ Cardinality(Slots \ {s}) \in Nat
    BY <2>3, CountRemove
  <2>5. Cardinality(Waiting) <= Cardinality(Slots \ {s}) /\ Cardinality(Waiting) \in Nat
    BY <2>1, <2>3, FS_Subset, FS_CardinalityType
  <2> QED
    BY <1>0, <1>1, <2>2, <2>3, <2>4, <2>5, TailsAssumption DEF TailsExact
<1>2. ASSUME \A j \in Jobs : InTail(j) => TailWaits(j),
             \A j \in Jobs : thread[j] \notin {"cpu", "net", "llm"}
      PROVE  \A j \in Jobs : ~InTail(j)
  <2>1. \A j \in Jobs : place[j] # "admit"
    BY <1>2 DEF TailWaits, InTail, TailPlaces, NoOtherRuns
  <2>2. \A l \in Lanes : Gated(l) = {}
    BY <1>2, <2>1 DEF Gated
  <2>3. \A l \in Lanes : laneFree[l] # 0
    <3> SUFFICES ASSUME NEW l \in Lanes PROVE laneFree[l] # 0
      OBVIOUS
    <3>1. Cardinality(Gated(l)) = 0
      BY <2>2, FS_EmptySet
    <3>2. laneFree[l] + Cardinality(Gated(l)) = LanePermits[l]
      BY <1>0 DEF LanesExact
    <3>3. LanePermits[l] \in Nat \ {0}
      BY PermitsAssumption
    <3> QED
      BY <3>1, <3>2, <3>3
  <2>4. \A j \in Jobs : LaneOf(j) \in Lanes
    BY DEF LaneOf, Lanes
  <2> QED
    BY <1>2, <2>1, <2>3, <2>4 DEF TailWaits
<1> QED
  BY <1>1, <1>2 DEF TailsGoOn

\* Through every abort, panic and stop, and whatever hopper answers: each lane's permits, the
\* second opinions' and the tails' are free or held by who needs them, the depth is what is
\* claimed and not taken, room for a claim is never missed, and no circle of waits forms
\* (PrefetchGauge, `room`, CleaveGate, the tails semaphore, llm_queue).
THEOREM WaitsStayHonest == Spec => []WaitsAreHonest
<1>1. WorkerInv => WaitsAreHonest
  <2> SUFFICES ASSUME WorkerInv PROVE WaitsAreHonest
    OBVIOUS
  <2>1. TypeOK /\ PermitsHonest
    BY DEF WorkerInv, TailsExact, LanesExact, OpinionsExact, Tails, Waiting, Gated, Consulting,
       PermitsHonest
  <2>2. OutstandingExact
    BY <2>1, PermitsAssumption DEF WorkerInv, DepthInv, Staging, OutstandingExact, TypeOK
  <2>3. RoomIsHeard /\ TailsGoOn
    BY SomebodyGoesOn DEF WorkerInv
  <2> QED
    BY <2>1, <2>2, <2>3 DEF WaitsAreHonest
<1> QED
  BY <1>1, WorkerInvariant, PTL

\* A job past its deadline posts no verdict, and one whose tail was aborted runs cancelled,
\* whatever the thread below it does (run_job's timed_out, CancelOnDrop).
THEOREM DroppedJobsStaySilent == Spec => []DroppedJobsFallSilent
<1>1. WorkerInv => DroppedJobsFallSilent
  BY DEF WorkerInv, JobInv, DroppedJobsFallSilent, TimeoutWins, AbortedIsCancelled
<1> QED
  BY <1>1, WorkerInvariant, PTL

\* No later signal and no --max-jobs downgrades a stall, and a drain that ends after it
\* returns it (Stop::raise and run).
THEOREM StallIsSticky == Spec => StallSticky
<1>1. ASSUME [Next]_vars, stop = "Stalled"
      PROVE  stop' = "Stalled" /\ (main = "drain" /\ main' = "returned" => exit' = "Stalled")
  <2>1. ASSUME NEW e PROVE Raised(stop, e) = "Stalled"
    BY <1>1 DEF Raised
  <2> USE DEF endVars
  <2>2. CASE Drained \/ DrainCut
    BY <1>1, <2>2 DEF Drained, DrainCut, Return
  <2>3. CASE Signal \/ TickStarts \/ TickEnds \/ TickAborts \/ RunStops \/ ProcessExits
    BY <1>1, <2>1, <2>3 DEF Signal, TickStarts, TickEnds, TickAborts, RunStops, ProcessExits
  <2>4. CASE Prefetcher
    BY <1>1, <2>4 DEF Prefetcher, PrefetchStops, PrefetchCheck, PrefetchSleeps, RoomWakes, Claim,
       ClaimNone, ClaimFails, PrefetcherDies
  <2>5. ASSUME NEW s \in Slots, Slot(s)
        PROVE  stop' = "Stalled" /\ main' = main
    BY <1>1, <2>1, <2>5 DEF Slot, SlotTop, SlotPermit, SlotLeaves, SlotDone, SlotDispatch
  <2>6. ASSUME NEW j \in Jobs, JobTail(j)
        PROVE  stop' = "Stalled" /\ main' = main
    BY <1>1, <2>1, <2>6 DEF JobTail, JobRefused, JobQueues, JobPassesGate, JobStarts, JobExpires,
       JobJoins, JobPosted, OpinionSkipped, OpinionStarts, OpinionPosted, TailAborted
  <2>7. ASSUME NEW j \in Jobs, Download(j) \/ DownloadPanics(j) \/ Thread(j)
        PROVE  stop' = "Stalled" /\ main' = main
    BY <1>1, <2>7 DEF Download, DownloadPanics, Thread, StageMoves, LeaseReturned, ThreadReturns,
       OpinionReturns
  <2>8. CASE UNCHANGED vars
    BY <1>1, <2>8 DEF vars
  <2> QED
    BY <1>1, <2>2, <2>3, <2>4, <2>5, <2>6, <2>7, <2>8 DEF Next
<1>2. [Next]_vars => [stop = "Stalled" => /\ stop' = "Stalled"
                                          /\ main = "drain" /\ main' = "returned"
                                                => exit' = "Stalled"]_vars
  BY <1>1
<1> QED
  BY <1>2, PTL DEF Spec, StallSticky
=============================================================================
