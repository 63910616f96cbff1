---------------------------- MODULE ServiceTimes ----------------------------
(***************************************************************************)
(* The figures a router reads: Latency of src/src/server/latency.rs, a     *)
(* ring of slots that forgets on the clock, and the aging totals of        *)
(* JobBucket in src/src/server/mod.rs, which analyses that end together    *)
(* update without a lock.                                                  *)
(*                                                                         *)
(* Times are ticks, durations milliseconds.  The two halves share no       *)
(* state: lw... is the window, jb... the bucket.                           *)
(***************************************************************************)
EXTENDS Naturals, FiniteSets, Functions

CONSTANTS
    Slots,       \* SLOTS
    SlotLen,     \* SLOT in ticks
    Buckets,     \* BUCKETS
    Durations,   \* what an analysis may take
    Recorders,   \* analyses that end: one record each in the window
    MaxLwNow,    \* bound: the clock
    Enders,      \* threads that end analyses, again and again
    Memory,      \* JOB_BUCKET_MEMORY
    Width,       \* the counters count modulo 2^Width
    MaxRecords   \* bound: records of one thread

ASSUME ServiceAssumption ==
    /\ Slots \in Nat \ {0} /\ SlotLen \in Nat \ {0} /\ Buckets \in Nat \ {0}
    /\ Durations \subseteq Nat /\ MaxLwNow \in Nat
    /\ Memory \in Nat \ {0, 1} /\ Width \in Nat /\ MaxRecords \in Nat

\* A counter has room for what is remembered.
ASSUME WidthAssumption == 2^Width \in Nat /\ Memory + 1 < 2^Width

\* Arithmetic of the bounds of the buckets that the provers have no rule for.
ASSUME DoublingAssumption ==
    /\ 2^0 = 1
    /\ \A i \in 0..Buckets : 2^i \in Nat \ {0} /\ 2^(i + 1) = 2 * 2^i

VARIABLES
    lwNow,    \* the clock
    lwRing,   \* Window: [slots, cur, start]
    lwStamp,  \* lwStamp[r]: the time recorder r read (0: not yet)
    lwLog,    \* history: every sample filed, [by, stamp, filed, ms]
    jbCount,  \* JobBucket::count
    jbMs,     \* JobBucket::micros
    jbEnd     \* jbEnd[t]: [pc, n, m, left], where record is for thread t

lwVars == <<lwNow, lwRing, lwStamp, lwLog>>
jbVars == <<jbCount, jbMs, jbEnd>>
serviceVars == <<lwNow, lwRing, lwStamp, lwLog, jbCount, jbMs, jbEnd>>

----------------------------------------------------------------------------
(* The histogram                                                           *)

BucketIds == 0..(Buckets - 1)

\* bucket_of: bucket i covers [2^i, 2^(i+1)) ms, bucket 0 all below 2, the last
\* all above.
BucketOf(ms) ==
    CHOOSE i \in BucketIds :
        /\ i = 0 \/ ms >= 2^i
        /\ i = Buckets - 1 \/ ms < 2^(i + 1)

\* Mutation: a bucket reaches to the end of the next.
BucketHiNext(i) == 2^(i + 2)

BucketLo(i) == IF i = 0 THEN 0 ELSE 2^i
BucketHi(i) == 2^(i + 1)

EmptySlot == [count |-> 0, ms |-> 0, hist |-> [i \in BucketIds |-> 0]]

\* Rank of the 80th percentile among `count` samples, from 1.
Rank80(count) == (4 * count + 4) \div 5

\* Microseconds at the middle of the place-th of n equal slices of a bucket.
Within(lo, hi, place, n) ==
    1000 * lo + (1000 * (hi - lo) * (2 * place - 1)) \div (2 * n)

\* The sum of counts, as the number of what they count.
TotalOf(counts, ids) == Cardinality(UNION {{i} \X (1..counts[i]) : i \in ids})

\* percentile_micros: the bucket the rank falls in, interpolated.
Percentile(hist, count) ==
    LET upTo(i) == TotalOf(hist, 0..i)
        at == CHOOSE i \in BucketIds :
                 /\ upTo(i) >= Rank80(count)
                 /\ \A j \in 0..(i - 1) : upTo(j) < Rank80(count)
    IN  Within(BucketLo(at), BucketHi(at),
               Rank80(count) - (upTo(at) - hist[at]), hist[at])

----------------------------------------------------------------------------
(* The window                                                              *)

\* Mutation: the current slot starts when somebody looks.
StartNow(start, steps, now) == now

\* Slots start on a fixed grid, however late they are retired.
StartOnGrid(start, steps, now) == start + steps * SlotLen

\* The slots the window has moved past.
Passed(w, now) == IF now > w.start THEN (now - w.start) \div SlotLen ELSE 0

\* advance: retire them, all of the ring at most.
Advance(w, now) ==
    LET steps == Passed(w, now)
        retired == { (w.cur + k) % Slots : k \in 1..steps }
    IN  IF steps = 0 THEN w
        ELSE [slots |-> [i \in 0..(Slots - 1) |->
                            IF steps >= Slots \/ i \in retired THEN EmptySlot ELSE w.slots[i]],
              cur   |-> IF steps >= Slots THEN 0 ELSE (w.cur + steps) % Slots,
              start |-> StartOnGrid(w.start, steps, now)]

\* What the slots count between them, and in each bucket.
SamplesOf(w) == TotalOf([i \in DOMAIN w |-> w[i].count], DOMAIN w)
HistOf(w) == [b \in BucketIds |-> TotalOf([i \in DOMAIN w |-> w[i].hist[b]], DOMAIN w)]

\* summary_at: the slots of the window as it is at `now`, added up.
Summary(now) ==
    LET w == Advance(lwRing, now).slots
        count == SamplesOf(w)
    IN  [samples |-> count,
         ms |-> SumFunctionOnSet([i \in DOMAIN w |-> w[i].ms], DOMAIN w),
         p80 |-> IF count = 0 THEN 0 ELSE Percentile(HistOf(w), count)]

LwTick ==
    /\ lwNow < MaxLwNow
    /\ lwNow' = lwNow + 1
    /\ UNCHANGED <<lwRing, lwStamp, lwLog>>

\* record: the clock is read before the lock is taken.
LwStamp(r) ==
    /\ lwStamp[r] = 0
    /\ lwStamp' = [lwStamp EXCEPT ![r] = lwNow]
    /\ UNCHANGED <<lwNow, lwRing, lwLog>>

WithSample(slot, ms) ==
    [slot EXCEPT !.count = @ + 1, !.ms = @ + ms, !.hist[BucketOf(ms)] = @ + 1]

\* record_at, under the lock.
LwRecord(r, ms) ==
    LET w == Advance(lwRing, lwStamp[r])
    IN  /\ lwStamp[r] # 0
        /\ \A e \in lwLog : e.by # r
        /\ lwRing' = [w EXCEPT !.slots[w.cur] = WithSample(@, ms)]
        /\ lwLog' = lwLog \cup {[by |-> r, stamp |-> lwStamp[r], filed |-> lwNow, ms |-> ms]}
        /\ UNCHANGED <<lwNow, lwStamp>>

\* summary: reading retires slots too.
LwRead ==
    /\ lwRing' = Advance(lwRing, lwNow)
    /\ UNCHANGED <<lwNow, lwStamp, lwLog>>

----------------------------------------------------------------------------
(* The aging totals                                                        *)

Modulus == 2^Width
WrapAdd(a, b) == (a + b) % Modulus
WrapSub(a, b) == (a + Modulus - b) % Modulus

JbIdle(left) == [pc |-> "idle", n |-> 0, m |-> 0, left |-> left]
JbTo(t, new) == jbEnd' = [jbEnd EXCEPT ![t] = new]

\* Jobs::finished: an analysis ends; one that was not answered from the cache
\* is recorded here, its time less the time of the shared LLM endpoint.
\* record: count it, and remember how many there were.
JbCount(t) ==
    /\ jbEnd[t].pc = "idle" /\ jbEnd[t].left > 0
    /\ jbCount' = WrapAdd(jbCount, 1)
    /\ JbTo(t, [JbIdle(jbEnd[t].left - 1) EXCEPT !.pc = "ms", !.n = jbCount'])
    /\ UNCHANGED jbMs

Halved(n) == n \div 2

\* Add its time; past the memory, forget half of both totals.
JbMs(t, ms) ==
    /\ jbEnd[t].pc = "ms"
    /\ jbMs' = WrapAdd(jbMs, ms)
    /\ JbTo(t, IF jbEnd[t].n >= Memory THEN [jbEnd[t] EXCEPT !.pc = "halve"]
               ELSE JbIdle(jbEnd[t].left))
    /\ UNCHANGED jbCount

JbHalve(t) ==
    /\ jbEnd[t].pc = "halve"
    /\ jbCount' = WrapSub(jbCount, Halved(jbEnd[t].n))
    /\ JbTo(t, [jbEnd[t] EXCEPT !.pc = "load"])
    /\ UNCHANGED jbMs

JbLoad(t) ==
    /\ jbEnd[t].pc = "load"
    /\ JbTo(t, [jbEnd[t] EXCEPT !.pc = "forget", !.m = jbMs])
    /\ UNCHANGED <<jbCount, jbMs>>

JbForget(t) ==
    /\ jbEnd[t].pc = "forget"
    /\ jbMs' = WrapSub(jbMs, Halved(jbEnd[t].m))
    /\ JbTo(t, JbIdle(jbEnd[t].left))
    /\ UNCHANGED jbCount

----------------------------------------------------------------------------

ServiceInit ==
    /\ lwNow = 1
    /\ lwRing = [slots |-> [i \in 0..(Slots - 1) |-> EmptySlot], cur |-> 0, start |-> 1]
    /\ lwStamp = [r \in Recorders |-> 0]
    /\ lwLog = {}
    /\ jbCount = 0 /\ jbMs = 0
    /\ jbEnd = [t \in Enders |-> JbIdle(MaxRecords)]

LatencyNext ==
    \/ LwTick \/ LwRead
    \/ \E r \in Recorders : LwStamp(r) \/ \E ms \in Durations : LwRecord(r, ms)

BucketNext ==
    \E t \in Enders :
        \/ JbCount(t) \/ JbHalve(t) \/ JbLoad(t) \/ JbForget(t)
        \/ \E ms \in {0, 1} : JbMs(t, ms)

ServiceNext ==
    \/ LatencyNext /\ UNCHANGED jbVars
    \/ BucketNext /\ UNCHANGED lwVars

ServiceSpec == ServiceInit /\ [][ServiceNext]_serviceVars

----------------------------------------------------------------------------
(* Properties                                                              *)

WindowLength == Slots * SlotLen

\* The window forgets on the clock: however records and reads interleave with
\* a quiet spell, a sample is in the summary for all but the last slot of the
\* window after it was taken, and never a window after it was filed.
WindowForgetsOnTheClock ==
    LET s == Summary(lwNow)
        young == { e \in lwLog : lwNow - e.stamp <= WindowLength - SlotLen }
        live == { e \in lwLog : lwNow - e.filed < WindowLength }
    IN  Cardinality(young) <= s.samples /\ s.samples <= Cardinality(live)

\* The percentile is inside the bucket of the sample it stands for: while
\* nothing has been forgotten, of the samples' own 80th percentile.
PercentileInItsBucket ==
    LET s == Summary(lwNow)
        below(e) == { f \in lwLog : f.ms < e.ms }
        upTo(e) == { f \in lwLog : f.ms <= e.ms }
        rank == Rank80(s.samples)
    IN  s.samples > 0 /\ s.samples = Cardinality(lwLog) =>
          \A e \in lwLog :
             Cardinality(below(e)) < rank /\ rank <= Cardinality(upTo(e)) =>
                BucketOf(s.p80 \div 1000) = BucketOf(e.ms)

\* The count a router divides by is the number of records remembered: two ends that
\* cross the line together forget more, and nothing else.
JobCountSane == jbCount <= Memory + Cardinality(Enders)

\* The comment of record says so of threads that cross together: they forget a little
\* more and nothing else, so that no more is counted than was recorded.  The third to
\* cross takes away what is no longer there, and the count wraps.
OnlyForgets ==
    jbCount <= SumFunctionOnSet([t \in Enders |-> MaxRecords - jbEnd[t].left], Enders)

\* What routers are told of past analyses is of the analyses recorded: the percentile of
\* the window (percentile_micros) and the count they divide by (JobBucket::record).
FiguresAreOfTheRecords == PercentileInItsBucket /\ JobCountSane
=============================================================================
