---------------------------- MODULE CorpusReads ----------------------------
(***************************************************************************)
(* The corpus behind the server's index: Corpus of src/src/server/corpus.rs *)
(*                                                                         *)
(* Lookups and sample downloads walk the configured addresses, the         *)
(* preferred one (a replica) first.  A failed head rests; a replica that   *)
(* says it is too far behind has its reads relayed with fresh=1, and its   *)
(* reading is cached.  Everything before an await and everything after it  *)
(* is a step of its own: readers share the rest mark and the cached        *)
(* reading.  Hopper is external: any answer, and a replica that falls      *)
(* behind and catches up at any time.  Time is counted in ticks.           *)
(***************************************************************************)
EXTENDS Naturals, Sequences, FiniteSets, SequencesExt

CONSTANTS
    Readers,      \* lookups and sample downloads, one read each
    Addresses,    \* `bases`: the addresses in preference order
    Ttl,          \* LAG_TTL in ticks
    ReadTimeout,  \* READ_TIMEOUT in ticks
    RestTime,     \* REST in ticks
    ReadRetries,  \* READ_RETRIES
    MaxBytes,     \* max_bytes of a sample download, in chunks
    MaxNow        \* bound: the clock

ASSUME CorpusAssumption ==
    /\ Addresses \in Seq(ToSet(Addresses)) /\ Addresses # <<>> /\ IsInjective(Addresses)
    /\ {Ttl, ReadTimeout, RestTime, ReadRetries, MaxBytes} \subseteq Nat /\ MaxNow \in Nat \ {0}

VARIABLES
    crNow,     \* Instant::now
    crOkAt,    \* when the replica was last within MAX_REPLICA_LAG
    crBehind,  \* the replica is further behind than that
    crRested,  \* Corpus::rested: the head leads again from then on (0: None)
    crFailed,  \* when the head failed, unless it has answered since (0)
    crLag,     \* Corpus::lag: [at, said], said in Readings, or NoReading
    crCounts,  \* Corpus::found, nothing and unreachable
    crRead     \* crRead[r]: where the reader is

crVars == <<crNow, crOkAt, crBehind, crRested, crFailed, crLag, crCounts, crRead>>

Readings  == {"current", "behind", "silent"}
NoReading == [at |-> 0, said |-> "none"]
Head0     == Addresses[1]

\* A reader that has not started.
Fresh == [pc |-> "new", asked |-> 0, said |-> "none", trust |-> "none", old |-> FALSE,
          rest |-> <<>>, tries |-> 0, heard |-> {}, tried |-> {},
          body |-> <<>>, out |-> "none"]

CorpusInit ==
    /\ crNow = 1 /\ crOkAt = 1 /\ crBehind = FALSE
    /\ crRested = 0 /\ crFailed = 0
    /\ crLag = NoReading
    /\ crCounts = [found |-> 0, nothing |-> 0, unreachable |-> 0]
    /\ crRead = [r \in Readers |-> Fresh]

Go(r, new) == crRead' = [crRead EXCEPT ![r] = new]

\* The reader has its answer: `heard` are the last answers of the addresses it `tried`,
\* `tries` the retries that the last of them was given.
Done(rec, out, a) ==
    [Fresh EXCEPT !.pc = "done", !.out = out, !.heard = rec.heard \cup {a}, !.tries = rec.tries,
                  !.tried = rec.tried \cup {Head(rec.rest)}, !.body = rec.body]

\* The next address is asked.
Onward(rec, a) ==
    [rec EXCEPT !.rest = Tail(@), !.tries = 0, !.heard = @ \cup {a},
                !.tried = @ \cup {Head(rec.rest)}, !.body = <<>>]

----------------------------------------------------------------------------
(* Addresses and their standing                                            *)

\* order_at: a resting head goes last.
OrderAt(now) ==
    IF crRested > now /\ Len(Addresses) > 1
    THEN Append(Tail(Addresses), Head0)
    ELSE Addresses

\* note_at: only the preferred address's standing changes.  (crFailed is
\* history: it is not in the code.)
NoteAt(base, reachable) ==
    IF base # Head0 THEN UNCHANGED <<crRested, crFailed>>
    ELSE /\ crRested' = IF reachable THEN 0 ELSE crNow + RestTime
         /\ crFailed' = IF reachable THEN 0 ELSE crNow

----------------------------------------------------------------------------
(* The environment                                                         *)

\* Time passes, but a question about the lag is answered or times out before
\* ReadTimeout ticks are over.
Waiting(r) == crRead[r].pc \in {"lag", "told"}
Tick ==
    /\ crNow < MaxNow
    /\ \A r \in Readers : Waiting(r) => crNow < crRead[r].asked + ReadTimeout
    /\ crNow' = crNow + 1
    /\ crOkAt' = IF crBehind THEN crOkAt ELSE crNow + 1
    /\ UNCHANGED <<crBehind, crRested, crFailed, crLag, crCounts, crRead>>

\* The replica falls behind, or catches up.
Replicate ==
    /\ crBehind' = ~crBehind
    /\ crOkAt' = crNow
    /\ UNCHANGED <<crNow, crRested, crFailed, crLag, crCounts, crRead>>

----------------------------------------------------------------------------
(* known_with_source_inner                                                 *)

\* A reading is out of date when the replica fell behind too long before it is
\* used.
TooOld == crNow - crOkAt >= Ttl /\ crNow - crOkAt > ReadTimeout

\* The staleness answer is in: order the addresses and ask the first.
Ordered(trust) ==
    [Fresh EXCEPT !.pc = "ask", !.trust = trust, !.old = TooOld, !.rest = OrderAt(crNow)]

Trust(said) == CASE said = "behind" -> "relayed" [] said = "silent" -> "silent"
                 [] OTHER -> "told"

\* No key answers at once; an explicit refresh is relayed; so is a read of a
\* head whose cached reading is too old; a reading past its time is asked for.
Lookup(r) ==
    /\ crRead[r].pc = "new"
    /\ \/ Go(r, [Fresh EXCEPT !.pc = "done", !.out = "nokey"])
       \/ Go(r, Ordered("fresh"))
       \/ /\ Len(Addresses) < 2
          /\ Go(r, Ordered("single"))
       \/ /\ Len(Addresses) >= 2
          /\ IF crLag # NoReading /\ crNow < crLag.at + Ttl
             THEN Go(r, Ordered(Trust(crLag.said)))
             ELSE Go(r, [Fresh EXCEPT !.pc = "lag", !.asked = crNow])
    /\ UNCHANGED <<crNow, crOkAt, crBehind, crRested, crFailed, crLag, crCounts>>

\* ask_lag reaches the replica, which looks at itself; or no reading comes.
Sampled(r) ==
    /\ crRead[r].pc = "lag"
    /\ \E said \in {IF crBehind THEN "behind" ELSE "current", "silent"} :
          Go(r, [crRead[r] EXCEPT !.pc = "told", !.said = said])
    /\ UNCHANGED <<crNow, crOkAt, crBehind, crRested, crFailed, crLag, crCounts>>

\* Mutation: the reading is stamped when it arrives.
StampedOnArrival(r) == [at |-> crNow, said |-> crRead[r].said]

\* preferred_is_stale: the reading is stamped with the time before the await.
Stamped(r) == [at |-> crRead[r].asked, said |-> crRead[r].said]

LagStored(r) ==
    /\ crRead[r].pc = "told"
    /\ crLag' = Stamped(r)
    /\ Go(r, Ordered(Trust(crRead[r].said)))
    /\ UNCHANGED <<crNow, crOkAt, crBehind, crRested, crFailed, crCounts>>

\* What one attempt may come to: a record; a 200 that does not parse; 404 or
\* 202; 408 or 429; another 4xx; 401, 403 or a status ask has no arm for; 5xx or
\* no answer at all.
Attempts == {"record", "garbled", "absent", "busy", "refused", "denied", "down"}

\* What ask tries again while it may.
Transient(a) == a \in {"busy", "down"}

\* The match at the end of ask: "none" lets the next address try.  408 and 429 have no
\* arm of their own: the last of them falls to the other 4xx.
Verdict(a) ==
    CASE a = "record" -> "record"
      [] a \in {"absent", "busy", "refused"} -> "nothing"
      [] a = "garbled" -> "unreachable"
      [] OTHER -> "none"

\* What a lookup came to is counted: whatever an address answered that is not
\* a record counts as nothing.
Counted(out) ==
    crCounts' = IF out = "record" THEN [crCounts EXCEPT !.found = @ + 1]
                ELSE IF out = "none" THEN [crCounts EXCEPT !.unreachable = @ + 1]
                ELSE [crCounts EXCEPT !.nothing = @ + 1]

MayRetry(tries) == tries < ReadRetries

\* One attempt at the first address left.  A transient failure is tried again a
\* few times.
Attempt(r, a) ==
    LET me == crRead[r]  base == Head(me.rest)  v == Verdict(a)
    IN  /\ me.pc = "ask"
        /\ UNCHANGED <<crNow, crOkAt, crBehind, crLag>>
        /\ \/ /\ Transient(a) /\ MayRetry(me.tries)
              /\ Go(r, [me EXCEPT !.tries = @ + 1])
              /\ UNCHANGED <<crRested, crFailed, crCounts>>
           \/ /\ Transient(a) => ~MayRetry(me.tries)
              /\ NoteAt(base, v # "none")
              /\ IF v = "none" /\ Len(me.rest) > 1
                 THEN Go(r, Onward(me, a)) /\ UNCHANGED crCounts
                 ELSE /\ Go(r, Done(me, IF v = "none" THEN "unreachable" ELSE v, a))
                      /\ Counted(v)

----------------------------------------------------------------------------
(* sample                                                                  *)

Sample(r) ==
    /\ crRead[r].pc = "new"
    /\ Go(r, [Ordered("sample") EXCEPT !.pc = "get"])
    /\ UNCHANGED <<crNow, crOkAt, crBehind, crRested, crFailed, crLag, crCounts>>

\* The next address, or the last error.
NextBase(r, why) ==
    LET me == crRead[r]
    IN  Go(r, IF Len(me.rest) = 1 THEN Done([me EXCEPT !.body = <<>>], "error", why)
              ELSE [Onward(me, why) EXCEPT !.pc = "get"])

\* The head of a response: no answer or 5xx rests the head, another refusal
\* only moves on, a length over the limit ends the read.
SampleHead(r, a) ==
    /\ crRead[r].pc = "get"
    /\ UNCHANGED <<crNow, crOkAt, crBehind, crLag, crCounts>>
    /\ \/ /\ a \in {"failed", "missing"}
          /\ IF a = "failed" THEN NoteAt(Head(crRead[r].rest), FALSE)
                             ELSE UNCHANGED <<crRested, crFailed>>
          /\ NextBase(r, a)
       \/ /\ a = "long"
          /\ Go(r, Done(crRead[r], "error", a))
          /\ UNCHANGED <<crRested, crFailed>>
       \/ /\ a = "ok"
          /\ Go(r, [crRead[r] EXCEPT !.pc = "body"])
          /\ UNCHANGED <<crRested, crFailed>>

\* Only a body whose end was seen is complete.
Complete(end) == end = "end"

\* A chunk arrives (the last of the address's sample or not), or the body ends,
\* or breaks off.  A complete, non-empty body is the sample.
SampleBody(r, end) ==
    LET me == crRead[r]  base == Head(me.rest)
    IN  /\ me.pc = "body"
        /\ UNCHANGED <<crNow, crOkAt, crBehind, crLag, crCounts>>
        /\ \/ /\ end = "chunk"
              /\ IF Len(me.body) + 1 > MaxBytes
                 THEN Go(r, Done([me EXCEPT !.body = <<>>], "error", "long"))
                 ELSE Go(r, [me EXCEPT !.body = Append(@, base)])
              /\ UNCHANGED <<crRested, crFailed>>
           \/ /\ Complete(end) /\ me.body # <<>>
              /\ NoteAt(base, TRUE)
              /\ Go(r, Done(me, "sample", end))
           \/ /\ end \in {"end", "broken"} /\ ~(Complete(end) /\ me.body # <<>>)
              /\ NextBase(r, end)
              /\ UNCHANGED <<crRested, crFailed>>

CorpusNext ==
    \/ Tick \/ Replicate
    \/ \E r \in Readers :
          \/ Lookup(r) \/ Sampled(r) \/ LagStored(r) \/ Sample(r)
          \/ \E a \in Attempts : Attempt(r, a)
          \/ \E a \in {"failed", "missing", "long", "ok"} : SampleHead(r, a)
          \/ \E e \in {"chunk", "end", "broken"} : SampleBody(r, e)

CorpusSpec == CorpusInit /\ [][CorpusNext]_crVars

----------------------------------------------------------------------------
(* Properties                                                              *)

\* The cached reading, the rest mark and every reader stay in shape.
CorpusTypeOK ==
    /\ {crNow, crOkAt, crRested, crFailed} \subseteq 0..(MaxNow + RestTime)
    /\ crLag = NoReading \/ (crLag.said \in Readings /\ crLag.at \in 1..MaxNow)
    /\ \A r \in Readers :
          /\ crRead[r].out \in {"none", "nokey", "record", "nothing", "unreachable",
                                "sample", "error"}
          /\ crRead[r].pc \in {"ask", "get", "body"} => crRead[r].rest # <<>>
          /\ crRead[r].tries <= ReadRetries

\* "Nothing" takes an answer of an address that is up: that it holds nothing, that the
\* query is wrong, or, after every retry, that it is busy still.  Bad credentials,
\* proxies' error pages, 5xx and silence never read as absence, and a busy address
\* does not before its last attempt.
AbsenceIsAnswered ==
    \A r \in Readers : crRead[r].out = "nothing" =>
        \/ crRead[r].heard \cap {"absent", "refused"} # {}
        \/ "busy" \in crRead[r].heard /\ crRead[r].tries = ReadRetries

\* READ_RETRIES: "A transient Hopper failure gets a small, bounded retry before the
\* reader gives the next address a chance", and Reached::Nothing: "The corpus answered
\* and holds nothing": a failure that is tried again never becomes "nothing" in the end.
OutageIsNotAbsence ==
    \A r \in Readers : crRead[r].out = "nothing" =>
        crRead[r].heard \cap {"absent", "refused"} # {}

\* A caller hears "unreachable", or gets no sample, only after every address
\* failed it, the resting head included, unless one answered out of turn: a
\* body that does not parse, a sample that is too large.
FailureTriedAll ==
    \A r \in Readers :
        /\ crRead[r].out \in {"unreachable", "error"}
        /\ {"garbled", "long"} \cap crRead[r].heard = {}
        => crRead[r].tried = ToSet(Addresses)

\* The counters behind GET /_/stats say what came back to callers: `nothing`
\* counts the lookups that were told there is no verdict.
CountsMatchAnswers ==
    crCounts.nothing = Cardinality({r \in Readers : crRead[r].out = "nothing"})

\* A read that believes the replica's own word about its lag relies on a word
\* given at most Ttl - 1 ticks, or one request's time, ago.
StaleTrustBounded ==
    \A r \in Readers : crRead[r].trust = "told" => ~crRead[r].old

\* The head is passed over only while it rests for a failure of its own.
HeadLeadsUnlessItFailed ==
    [][\A r \in Readers :
          /\ crRead[r].rest = <<>> /\ crRead'[r].rest # <<>>
          /\ Head(crRead'[r].rest) # Head0
          => crFailed # 0 /\ crNow < crFailed + RestTime]_crVars

\* A served sample is the whole body of one address within the limit: what an
\* address sent before it broke off is never part of it.
SampleWhole ==
    \A r \in Readers : crRead[r].out = "sample" =>
        /\ "end" \in crRead[r].heard
        /\ Len(crRead[r].body) \in 1..MaxBytes
        /\ \E b \in crRead[r].tried : ToSet(crRead[r].body) = {b}

\* What a read of the corpus claims was said by an address it may believe, and the
\* addresses are asked in their order.
ReadsAreHonest ==
    /\ [](CorpusTypeOK /\ AbsenceIsAnswered /\ FailureTriedAll /\ StaleTrustBounded /\ SampleWhole)
    /\ HeadLeadsUnlessItFailed
=============================================================================
