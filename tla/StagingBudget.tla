--------------------------- MODULE StagingBudget ----------------------------
(***************************************************************************)
(* The two byte budgets under the hopper worker's downloads, of             *)
(* src/src/worker.rs: InputBudget, the memory of downloaded inputs, and     *)
(* SpoolState, the disk of the ones too large for it; with the code that    *)
(* takes from them: fetch_payload, download_input, download_to_spool.       *)
(*                                                                          *)
(* A job's payload is fetched twice at most: by the prefetcher, through a   *)
(* gate, and if that failed by the job's tail in run_job, which holds a     *)
(* tail permit.  Its bytes stay reserved through the queue and the          *)
(* analysis.  What hopper says of a size is a hint, and a response may not  *)
(* give its length.                                                         *)
(*                                                                          *)
(* Sizes are small numbers.  A wait for memory is atomic with the check     *)
(* before it: reserve() registers first, so a release in between wakes it.  *)
(***************************************************************************)
EXTENDS Naturals, FiniteSets

CONSTANTS
    Jobs,         \* jobs claimed from hopper
    Hint,         \* Hint[j]: ClaimJob::size, 0 = unknown
    Body,         \* Body[j]: bytes the response really has
    Limit,        \* InputBudget::limit
    Threshold,    \* mem_threshold_bytes
    SpoolBudget,  \* budget_bytes
    GrowStep,     \* SPOOL_GROW_STEP
    MaxJobBytes,  \* MAX_JOB_BYTES
    Downloads,    \* permits of download_gate
    TailCap,      \* permits of tails
    FailuresOn    \* a response, the disk or the digest may fail a download

ASSUME SizesAssumption ==
    /\ Hint \in [Jobs -> 0..MaxJobBytes] /\ Body \in [Jobs -> 1..MaxJobBytes]
    /\ {Limit, SpoolBudget, GrowStep, MaxJobBytes, Downloads, TailCap} \subseteq Nat \ {0}
    /\ FailuresOn \in BOOLEAN
\* WorkerShared::new clamps the threshold to the budget.
ASSUME ThresholdAssumption == Threshold \in 1..Limit

VARIABLES
    place,     \* place[j]: "claimed", "prefetch", "staged", "tail" or "done"
    phase,     \* phase[j]: where its download is
    ask,       \* ask[j]: bytes reserve() is asked for
    memory,    \* memory[j]: its InputReservation
    spooled,   \* spooled[j]: its SpoolReservation
    written,   \* written[j]: bytes of its spool file
    used,      \* InputBudget::used
    spoolUsed  \* SpoolState::used

vars == <<place, phase, ask, memory, spooled, written, used, spoolUsed>>

AtMost(a, b) == IF a <= b THEN a ELSE b
AtLeast(a, b) == IF a >= b THEN a ELSE b

Init ==
    /\ place = [j \in Jobs |-> "claimed"]
    /\ phase = [j \in Jobs |-> "none"]
    /\ ask = [j \in Jobs |-> 0]
    /\ memory = [j \in Jobs |-> 0]
    /\ spooled = [j \in Jobs |-> 0]
    /\ written = [j \in Jobs |-> 0]
    /\ used = 0
    /\ spoolUsed = 0

Go(j, p) == phase' = [phase EXCEPT ![j] = p]

\* InputReservation::shrink to m bytes, m = 0 being its drop; the download of
\* j goes to p, and every waiter looks again.
Keep(j, m, p) ==
    /\ memory' = [memory EXCEPT ![j] = m]
    /\ used' = used - (memory[j] - m)
    /\ phase' = [k \in Jobs |-> IF k = j THEN p
                                ELSE CASE phase[k] = "waits" -> "reserve"
                                       [] phase[k] = "waitsAgain" -> "reserveAgain"
                                       [] OTHER -> phase[k]]

----------------------------------------------------------------------------
(* SpoolState                                                               *)

\* try_reserve: an idle spool takes one payload of any size.
SpoolFits(size) == spoolUsed = 0 \/ spoolUsed + size <= SpoolBudget

\* SpoolReservation::cover: once w bytes outgrow the reservation, w bytes and
\* a step past them, or just w bytes.
Covered(j, w) ==
    LET stepped == AtMost(w + GrowStep, AtLeast(MaxJobBytes, w))
    IN  CASE w <= spooled[j] -> spooled[j]
          [] w > spooled[j] /\ SpoolFits(stepped - spooled[j]) -> stepped
          [] OTHER -> w

\* The reservation of j becomes size bytes; p is where that leaves its download.
SpoolTakes(j, size, p) ==
    /\ size > spooled[j] => SpoolFits(size - spooled[j])
    /\ spooled' = [spooled EXCEPT ![j] = size]
    /\ spoolUsed' = spoolUsed + size - spooled[j]
    /\ Go(j, p)

\* The reservation and the file are dropped.
SpoolDropped(j) ==
    /\ spooled' = [spooled EXCEPT ![j] = 0]
    /\ written' = [written EXCEPT ![j] = 0]
    /\ spoolUsed' = spoolUsed - spooled[j]

----------------------------------------------------------------------------
(* fetch_payload                                                            *)

\* By the hint: into memory, an unknown size being small, or to the spool.
Route(j) ==
    /\ phase[j] = "route"
    /\ \/ /\ Hint[j] <= Threshold
          /\ ask' = [ask EXCEPT ![j] = IF Hint[j] = 0 THEN Threshold ELSE Hint[j]]
          /\ Go(j, "reserve")
          /\ UNCHANGED <<spooled, spoolUsed>>
       \/ /\ Hint[j] > Threshold
          /\ SpoolTakes(j, Hint[j], "spool")
          /\ UNCHANGED ask
    /\ UNCHANGED <<place, memory, written, used>>

\* The body outgrew its place in memory: the reroute guesses its size.
Reroute(j) ==
    /\ phase[j] = "reroute"
    /\ SpoolTakes(j, AtLeast(Hint[j], Threshold + 1), "spool")
    /\ UNCHANGED <<place, ask, memory, written, used>>

\* SpoolReservation::new fails: the budget is taken, or the disk is full.
SpoolRefused(j) ==
    /\ \/ phase[j] = "route" /\ Hint[j] > Threshold
       \/ phase[j] = "reroute"
    /\ FailuresOn \/ ~SpoolFits(AtLeast(Hint[j], Threshold + 1))
    /\ Go(j, "failed")
    /\ UNCHANGED <<place, ask, memory, spooled, written, used, spoolUsed>>

----------------------------------------------------------------------------
(* download_input                                                           *)

Reserving == {"reserve", "reserveAgain"}

\* InputBudget::reserve: take the bytes, or wait.
Reserve(j) ==
    /\ phase[j] \in Reserving
    /\ IF used + ask[j] <= Limit
         THEN /\ used' = used + ask[j]
              /\ memory' = [memory EXCEPT ![j] = ask[j]]
              /\ Go(j, IF phase[j] = "reserve" THEN "headers" ELSE "body")
         ELSE /\ Go(j, IF phase[j] = "reserve" THEN "waits" ELSE "waitsAgain")
              /\ UNCHANGED <<used, memory>>
    /\ UNCHANGED <<place, ask, spooled, written, spoolUsed>>

\* Mutation: the download waits for the rest with its reservation in hand.
HeadersHoldOn(j) ==
    /\ phase[j] = "headers"
    /\ \E length \in {Body[j], Threshold} :
          LET required == AtMost(length, Threshold)
          IN  IF memory[j] < required
                THEN ask' = [ask EXCEPT ![j] = required] /\ Go(j, "reserveAgain")
                ELSE Go(j, "body") /\ UNCHANGED ask
    /\ UNCHANGED <<place, memory, spooled, written, used, spoolUsed>>

\* The headers want more room than the hint: reserve afresh, holding nothing.
Headers(j) ==
    /\ phase[j] = "headers"
    /\ \E length \in {Body[j], Threshold} :
          LET required == AtMost(length, Threshold)
          IN  IF memory[j] < required
                THEN ask' = [ask EXCEPT ![j] = required] /\ Keep(j, 0, "reserveAgain")
                ELSE Go(j, "body") /\ UNCHANGED <<ask, memory, used>>
    /\ UNCHANGED <<place, spooled, written, spoolUsed>>

\* Mutation: the reservation shrinks to the hint, not to what came.
BodyTrustsHint(j) ==
    /\ phase[j] = "body"
    /\ IF Body[j] <= memory[j]
         THEN Keep(j, AtMost(Hint[j], memory[j]), "fetched")
         ELSE Keep(j, 0, "reroute")
    /\ UNCHANGED <<place, ask, spooled, written, spoolUsed>>

\* The body fits and the reservation shrinks to it, or it goes to the spool.
BodyRead(j) ==
    /\ phase[j] = "body"
    /\ IF Body[j] <= memory[j]
         THEN Keep(j, Body[j], "fetched")
         ELSE Keep(j, 0, "reroute")
    /\ UNCHANGED <<place, ask, spooled, written, spoolUsed>>

\* A request, a chunk or the digest fails.
InputFails(j) ==
    /\ FailuresOn
    /\ phase[j] \in {"headers", "body"}
    /\ Keep(j, 0, "failed")
    /\ UNCHANGED <<place, ask, spooled, written, spoolUsed>>

----------------------------------------------------------------------------
(* download_to_spool                                                        *)

\* A chunk: the reservation covers it before it is written.
Chunk(j) ==
    /\ phase[j] = "spool"
    /\ \E w \in (written[j] + 1)..Body[j] :
          /\ SpoolTakes(j, Covered(j, w), IF w = Body[j] THEN "fetched" ELSE "spool")
          /\ written' = [written EXCEPT ![j] = w]
    /\ UNCHANGED <<place, ask, memory, used>>

\* The growth does not fit, the disk is full, or the transfer fails.
SpoolFails(j) ==
    /\ phase[j] = "spool"
    /\ \/ FailuresOn
       \/ \E w \in (written[j] + 1)..Body[j] :
             w > spooled[j] /\ ~SpoolFits(w - spooled[j])
    /\ SpoolDropped(j)
    /\ Go(j, "failed")
    /\ UNCHANGED <<place, ask, memory, used>>

----------------------------------------------------------------------------
(* The job                                                                  *)

\* stage_claimed: the download takes a permit of the gate.
Prefetch(j) ==
    /\ place[j] = "claimed"
    /\ Cardinality({k \in Jobs : place[k] = "prefetch"}) < Downloads
    /\ place' = [place EXCEPT ![j] = "prefetch"]
    /\ Go(j, "route")
    /\ UNCHANGED <<ask, memory, spooled, written, used, spoolUsed>>

\* It is sent to the slots, fetched or not.
Stage(j) ==
    /\ place[j] = "prefetch"
    /\ phase[j] \in {"fetched", "failed"}
    /\ place' = [place EXCEPT ![j] = "staged"]
    /\ UNCHANGED <<phase, ask, memory, spooled, written, used, spoolUsed>>

\* next_dispatch and run_job: a failed prefetch is downloaded directly.
Dispatch(j) ==
    /\ place[j] = "staged"
    /\ Cardinality({k \in Jobs : place[k] = "tail"}) < TailCap
    /\ place' = [place EXCEPT ![j] = "tail"]
    /\ Go(j, IF phase[j] = "failed" THEN "route" ELSE phase[j])
    /\ UNCHANGED <<ask, memory, spooled, written, used, spoolUsed>>

\* The analysis is over, or there was nothing to analyze: the bytes go.
Analyzed(j) ==
    /\ place[j] = "tail"
    /\ phase[j] \in {"fetched", "failed"}
    /\ place' = [place EXCEPT ![j] = "done"]
    /\ Keep(j, 0, "none")
    /\ SpoolDropped(j)
    /\ UNCHANGED ask

Download(j) ==
    \/ Route(j) \/ Reroute(j) \/ SpoolRefused(j) \/ Reserve(j) \/ Headers(j)
    \/ BodyRead(j) \/ InputFails(j) \/ Chunk(j) \/ SpoolFails(j)

Next == \E j \in Jobs : Prefetch(j) \/ Download(j) \/ Stage(j) \/ Dispatch(j) \/ Analyzed(j)

Spec == Init /\ [][Next]_vars

\* Requests end, one way or the other, slots take staged jobs, and analyses
\* end.
Fairness ==
    \A j \in Jobs : WF_vars(Prefetch(j) \/ Download(j) \/ Stage(j) \/ Dispatch(j) \/ Analyzed(j))

FairSpec == Spec /\ Fairness

----------------------------------------------------------------------------
(* Properties                                                               *)

\* Types of every variable.
TypeOK ==
    /\ place \in [Jobs -> {"claimed", "prefetch", "staged", "tail", "done"}]
    /\ phase \in [Jobs -> {"none", "route", "reserve", "reserveAgain", "waits",
                           "waitsAgain", "headers", "body", "reroute", "spool",
                           "fetched", "failed"}]
    /\ ask \in [Jobs -> Nat] /\ memory \in [Jobs -> Nat]
    /\ spooled \in [Jobs -> Nat] /\ written \in [Jobs -> Nat]
    /\ used \in Nat /\ spoolUsed \in Nat

\* Sum of f over the jobs, as the number of units they hold.
Total(f) ==
    Cardinality({u \in Jobs \X (1..(Limit + SpoolBudget + MaxJobBytes)) : u[2] <= f[u[1]]})

\* The input budget is what the jobs hold, never passes its limit, and covers
\* every payload in memory from its first byte to the end of the analysis,
\* whatever hopper said of its size.
MemoryCovered ==
    /\ used = Total(memory)
    /\ used <= Limit
    /\ \A j \in Jobs : phase[j] = "fetched" /\ spooled[j] = 0 => memory[j] = Body[j]

\* The spool's count is what the jobs hold, covers every byte on the disk, and
\* passes the budget only for a payload that was alone when it came.
SpoolCovered ==
    /\ spoolUsed = Total(spooled)
    /\ \A j \in Jobs : written[j] <= spooled[j]
    /\ spoolUsed > SpoolBudget => Cardinality({j \in Jobs : spooled[j] > 0}) = 1

\* A tail downloads for itself: the prefetch of its job failed.
TailDownloads == \E j \in Jobs : place[j] = "tail" /\ phase[j] \notin {"fetched", "failed"}

\* The gate, or the tails, have a permit left.
PermitFree(where, permits) == Cardinality({j \in Jobs : place[j] = where}) < permits

\* A job that can do nothing by itself: it sleeps until memory comes back, or the gate of
\* the downloads or the tails are full.
Blocked(j) ==
    \/ phase[j] \in {"waits", "waitsAgain"}
    \/ place[j] = "claimed" /\ ~PermitFree("prefetch", Downloads)
    \/ place[j] = "staged" /\ ~PermitFree("tail", TailCap)

\* No circle of waits between the budget, the gate and the tails: a sleeper is short of
\* bytes that others hold, having none itself, and while the downloads are the
\* prefetcher's there is a job that can go on as long as any is left.
NobodyIsStuck ==
    /\ \A j \in Jobs : phase[j] \in {"waits", "waitsAgain"} =>
          memory[j] = 0 /\ ask[j] <= Limit /\ used + ask[j] > Limit
    /\ ~TailDownloads /\ (\E j \in Jobs : place[j] # "done") =>
          \E j \in Jobs : place[j] # "done" /\ ~Blocked(j)

\* Every claimed job gets its bytes and is done while the downloads are the
\* prefetcher's: no circle of waits between the budget, the gate and the
\* tails, whatever hopper said of the sizes.
EveryJobDone ==
    []~TailDownloads => \A j \in Jobs : place[j] = "claimed" ~> place[j] = "done"

\* download_input() is written so as to never "deadlock a batch of downloads
\* all waiting for additional room".
NoDownloadStuck ==
    \A j \in Jobs : phase[j] = "waits" ~> phase[j] # "waits"

\* try_reserve(): "an idle spool always admits one payload so a tight budget
\* cannot starve large files forever".
LonePayloadFits ==
    [][\A j \in Jobs :
          phase[j] \in {"route", "reroute", "spool"} /\ phase'[j] = "failed"
            => \E k \in Jobs \ {j} : spooled[k] > 0]_vars

\* Every byte of a payload is covered, in memory and on the disk, and by one budget; and
\* no reservation is waited for that cannot come.
BudgetsHold == TypeOK /\ MemoryCovered /\ SpoolCovered /\ NobodyIsStuck
=============================================================================
