-------------------------- MODULE ServerReadiness ---------------------------
(***************************************************************************)
(* What the server asks before it takes work on, and what it tells the     *)
(* router about its load: load_resources and Readiness, admit_request and  *)
(* check_memory with the overload mark, and CpuBusy, all of                *)
(* src/src/server/mod.rs.                                                  *)
(*                                                                         *)
(* Three loaders run at once and are joined.  A request is refused when    *)
(* startup failed, then when memory is over the ceiling at two readings    *)
(* with a cache clear awaited in between; it is refused again, later,      *)
(* where it claims a slot, if the server is still loading.  The resident   *)
(* size and the kernel's CPU counters are external.                        *)
(***************************************************************************)
EXTENDS Naturals, FiniteSets

CONSTANTS
    Admittees,  \* requests, one check each
    MaxMmNow,   \* bound: the clock of the memory check
    MinWindow,  \* CPU_BUSY_MIN_WINDOW in ticks
    MaxCbNow    \* bound: the clock of the CPU counters

ASSUME ReadinessAssumption == MaxMmNow \in Nat /\ MinWindow \in Nat \ {0} /\ MaxCbNow \in Nat

VARIABLES
    rdLoad,   \* rdLoad[k]: what became of loader k
    rdState,  \* AppState::readiness
    mmNow,    \* the clock
    mmOver,   \* the resident size is over max_rss_bytes
    mmMark,   \* overloaded_since (0: None)
    mmReq,    \* mmReq[r]: [pc, clear], the request and its cache clear
    mmOkAt,   \* history: when a check last read a size within the ceiling
    cbNow,    \* the clock
    cbBusy,   \* the kernel's busy counter, since it was last reset
    cbIdle,   \* the kernel's idle counter
    cbLast,   \* CpuBusy::last: [at, busy, idle, share], or NoSample
    cbTold    \* history: [from, to] of the window the last answer was over

rdVars == <<rdLoad, rdState, mmNow, mmOver, mmMark, mmReq, mmOkAt>>
cbVars == <<cbNow, cbBusy, cbIdle, cbLast, cbTold>>
readinessVars == <<rdLoad, rdState, mmNow, mmOver, mmMark, mmReq, mmOkAt,
                   cbNow, cbBusy, cbIdle, cbLast, cbTold>>

Loaders  == {"model", "shap", "traits"}
NoSample == [at |-> 0, busy |-> 0, idle |-> 0, from |-> 0, to |-> 0]

ReadinessInit ==
    /\ rdLoad = [k \in Loaders |-> "loading"]
    /\ rdState = "starting"
    /\ mmNow = 1 /\ mmOver = FALSE /\ mmMark = 0 /\ mmOkAt = 0
    /\ mmReq = [r \in Admittees |-> [pc |-> "new", clear |-> "none"]]
    /\ cbNow = 1 /\ cbBusy = 0 /\ cbIdle = 0
    /\ cbLast = NoSample
    /\ cbTold = [from |-> 0, to |-> 0]

----------------------------------------------------------------------------
(* Loading                                                                 *)

Load(k) ==
    /\ rdLoad[k] = "loading"
    /\ \E end \in {"ok", "error", "panic"} : rdLoad' = [rdLoad EXCEPT ![k] = end]
    /\ UNCHANGED <<rdState, mmNow, mmOver, mmMark, mmReq, mmOkAt>>

AllLoaded == \A k \in Loaders : rdLoad[k] = "ok"

\* load_resources, once the three are joined: install, or fail_startup.
Loaded ==
    /\ rdState = "starting" /\ \A k \in Loaders : rdLoad[k] # "loading"
    /\ rdState' = IF AllLoaded THEN "ready" ELSE "failed"
    /\ UNCHANGED <<rdLoad, mmNow, mmOver, mmMark, mmReq, mmOkAt>>

----------------------------------------------------------------------------
(* Memory                                                                  *)

MmTick ==
    /\ mmNow < MaxMmNow
    /\ mmNow' = mmNow + 1
    /\ UNCHANGED <<rdLoad, rdState, mmOver, mmMark, mmReq, mmOkAt>>

\* The resident size moves with whatever the process does.
RssMoves ==
    /\ mmOver' = ~mmOver
    /\ UNCHANGED <<rdLoad, rdState, mmNow, mmMark, mmReq, mmOkAt>>

To(r, pc) == mmReq' = [mmReq EXCEPT ![r].pc = pc]

\* admit_request: a server whose startup failed refuses at once.
Admit(r) ==
    /\ mmReq[r].pc = "new"
    /\ To(r, IF rdState = "failed" THEN "refused" ELSE "check")
    /\ UNCHANGED <<rdLoad, rdState, mmNow, mmOver, mmMark, mmOkAt>>

\* No ceiling, or no reading, lets the request in.
Unmeasured(r) ==
    /\ mmReq[r].pc \in {"check", "again"}
    /\ To(r, "admitted")
    /\ UNCHANGED <<rdLoad, rdState, mmNow, mmOver, mmMark, mmOkAt>>

\* The first reading: within the ceiling the mark goes; over it, the caches are
\* cleared on a thread.
FirstReading(r) ==
    /\ mmReq[r].pc = "check"
    /\ IF mmOver
       THEN /\ mmReq' = [mmReq EXCEPT ![r] = [pc |-> "clearing", clear |-> "running"]]
            /\ UNCHANGED mmOkAt
       ELSE To(r, "unmark") /\ mmOkAt' = mmNow
    /\ UNCHANGED <<rdLoad, rdState, mmNow, mmOver, mmMark>>

\* The clear ends, and may have brought the size down.
ClearEnds(r) ==
    /\ mmReq[r].clear = "running"
    /\ mmReq' = [mmReq EXCEPT ![r].clear = "ended"]
    /\ mmOver' \in {mmOver, FALSE}
    /\ UNCHANGED <<rdLoad, rdState, mmNow, mmMark, mmOkAt>>

ClearAwaited(r) == mmReq[r].clear = "ended"

Cleared(r) ==
    /\ mmReq[r].pc = "clearing" /\ ClearAwaited(r)
    /\ To(r, "again")
    /\ UNCHANGED <<rdLoad, rdState, mmNow, mmOver, mmMark, mmOkAt>>

SecondReading(r) ==
    /\ mmReq[r].pc = "again"
    /\ To(r, IF mmOver THEN "mark" ELSE "unmark")
    /\ mmOkAt' = IF mmOver THEN mmOkAt ELSE mmNow
    /\ UNCHANGED <<rdLoad, rdState, mmNow, mmOver, mmMark>>

\* Mutation: the mark outlives a recovery.
MarkKept == mmMark

MarkTaken == 0

\* The mark is taken after the reading, under its own lock.
Unmark(r) ==
    /\ mmReq[r].pc = "unmark"
    /\ mmMark' = MarkTaken
    /\ To(r, "admitted")
    /\ UNCHANGED <<rdLoad, rdState, mmNow, mmOver, mmOkAt>>

\* get_or_insert_with: the first refusal of a spell sets it.
Mark(r) ==
    /\ mmReq[r].pc = "mark"
    /\ mmMark' = IF mmMark = 0 THEN mmNow ELSE mmMark
    /\ To(r, "overloaded")
    /\ UNCHANGED <<rdLoad, rdState, mmNow, mmOver, mmOkAt>>

\* resources(), where a slot is claimed.
ClaimRun(r) ==
    /\ mmReq[r].pc = "admitted"
    /\ To(r, IF rdState = "ready" THEN "runs" ELSE "refused")
    /\ UNCHANGED <<rdLoad, rdState, mmNow, mmOver, mmMark, mmOkAt>>

----------------------------------------------------------------------------
(* CPU                                                                     *)

\* A tick of the machine: busy or idle.  The counters may be reset.
CbTick ==
    /\ cbNow < MaxCbNow
    /\ cbNow' = cbNow + 1
    /\ \/ cbBusy' = cbBusy + 1 /\ cbIdle' = cbIdle
       \/ cbIdle' = cbIdle + 1 /\ cbBusy' = cbBusy
       \/ cbBusy' = 0 /\ cbIdle' = 0
    /\ UNCHANGED <<cbLast, cbTold>>

\* cores_busy has something to divide: neither counter ran backwards, and they
\* moved.
Comparable ==
    /\ cbBusy >= cbLast.busy /\ cbIdle >= cbLast.idle
    /\ cbBusy + cbIdle > cbLast.busy + cbLast.idle

LeastWindow == MinWindow

\* CpuBusy::sample.  A share of the machine stands for the window [from, to] it
\* was taken over; to = 0 is None.
CpuSample ==
    LET within == cbLast # NoSample /\ cbNow < cbLast.at + LeastWindow
        span == IF cbLast # NoSample /\ Comparable
                THEN [from |-> cbLast.at, to |-> cbNow]
                ELSE [from |-> cbLast.from, to |-> cbLast.to]
    IN  /\ IF within
           THEN /\ cbTold' = [from |-> cbLast.from, to |-> cbLast.to]
                /\ UNCHANGED cbLast
           ELSE /\ cbTold' = span
                /\ cbLast' = [at |-> cbNow, busy |-> cbBusy, idle |-> cbIdle,
                              from |-> span.from, to |-> span.to]
        /\ UNCHANGED <<cbNow, cbBusy, cbIdle>>

----------------------------------------------------------------------------

RequestNext ==
    \/ MmTick \/ RssMoves \/ Loaded
    \/ \E k \in Loaders : Load(k)
    \/ \E r \in Admittees :
          \/ Admit(r) \/ Unmeasured(r) \/ FirstReading(r) \/ ClearEnds(r) \/ Cleared(r)
          \/ SecondReading(r) \/ Unmark(r) \/ Mark(r) \/ ClaimRun(r)

CpuNext == CbTick \/ CpuSample

ReadinessNext ==
    \/ RequestNext /\ UNCHANGED cbVars
    \/ CpuNext /\ UNCHANGED rdVars

ReadinessSpec == ReadinessInit /\ [][ReadinessNext]_readinessVars

----------------------------------------------------------------------------
(* Properties                                                              *)

\* An analysis runs only on a whole set of resources: a server whose traits did
\* not resolve, or whose loader panicked, never gets to run one.
RunsOnlyOnLoaded ==
    \A r \in Admittees : mmReq[r].pc = "runs" =>
        \A k \in Loaders : rdLoad[k] = "ok"

\* A request is turned away for memory only on a reading taken after its own
\* cache clear was over.
RefusedOnlyAfterClear ==
    \A r \in Admittees : mmReq[r].pc \in {"mark", "overloaded"} => mmReq[r].clear = "ended"

\* The mark says how long the server has been over its ceiling: a check that
\* read a size within it after the mark was set is on its way to take it.
MarkUnbroken ==
    mmMark # 0 /\ mmMark < mmOkAt =>
        \E r \in Admittees : mmReq[r].pc = "unmark"

\* The load a router is told was measured over at least the least window,
\* however many readers poll, and over one span of time that has passed.
ShareOverAWindow == cbTold.to # 0 => cbTold.to >= cbTold.from + MinWindow

\* A request is let in, or turned away, for what the server has loaded and measured.
ReadinessIsHonest ==
    RunsOnlyOnLoaded /\ RefusedOnlyAfterClear /\ MarkUnbroken /\ ShareOverAWindow
=============================================================================
