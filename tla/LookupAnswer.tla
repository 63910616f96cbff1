---------------------------- MODULE LookupAnswer ----------------------------
(***************************************************************************)
(* GET /v1/lookup: how a question about one artifact or many is answered   *)
(* from the index, the filters and the corpus.  v1_lookup, decide,         *)
(* decide_many and decide_unheld of src/src/server/v1.rs, pick_verdict of  *)
(* handlers.rs and decide of decision.rs.                                  *)
(*                                                                         *)
(* A batch reads the index for all its rows at once and then asks the      *)
(* corpus for the misses, Concurrency at a time, a task a row; rows end in *)
(* any order and a task may panic.  The index, the filters and the corpus  *)
(* are external: each read chooses among all they may say, so they may     *)
(* change between two reads.  A corpus record or a held verdict is its     *)
(* digest and its level.                                                   *)
(***************************************************************************)
EXTENDS Integers, Sequences, FiniteSets

CONSTANTS
    NoName,       \* None, for a name
    Shas,         \* digests
    Versioned,    \* PURLs that name a release
    Invalid,      \* names that do not parse
    Questions,    \* the questions asked: [sha, purl, url], sequences of names
    Levels,       \* firing levels that are numbers
    Budget,       \* the caller's false_positive_budget
    Ceiling,      \* SUSPICIOUS_CEILING
    MaxKeys,      \* V1_MAX_KEYS
    Concurrency   \* V1_LOOKUP_CONCURRENCY

\* Level::Manual, for which no table applies, and Level::Clean, on the wire -1.
Manual == -2
Clean  == -1

ASSUME LookupAssumption ==
    /\ Levels \subseteq Nat /\ {Budget, Ceiling, MaxKeys} \subseteq Nat
    /\ Concurrency \in Nat \ {0} /\ NoName \notin Shas \cup Versioned \cup Invalid
    /\ \A q \in Questions : \A names \in {q.sha, q.purl, q.url} :
         names \in Seq({names[i] : i \in DOMAIN names})

VARIABLES
    laPc,    \* new, index, rows, answered or refused
    laAsk,   \* [q, fresh, corpus]: the question, ?fresh=1, a corpus is configured
    laRow,   \* a record for each key: where its row is, and what it heard
    laOut    \* decide_many's `out`: the decisions, by position

lookupVars == <<laPc, laAsk, laRow, laOut>>

AllLevels == Levels \cup {Manual, Clean}
Verdicts  == [sha : Shas, lvl : AllLevels]
NoVerdict == [sha |-> NoName, lvl |-> Manual]

NoAsk == [q |-> [sha |-> <<>>, purl |-> <<>>, url |-> <<>>], fresh |-> FALSE, corpus |-> FALSE]

LookupInit == laPc = "new" /\ laAsk = NoAsk /\ laRow = <<>> /\ laOut = <<>>

----------------------------------------------------------------------------
(* Decisions                                                               *)

\* decision::decide.
Grade(lvl, budget) ==
    IF lvl = Manual THEN [decision |-> "unanalyzed", severity |-> "benign"]
    ELSE IF lvl # Clean /\ lvl <= budget THEN [decision |-> "block", severity |-> "hostile"]
    ELSE [decision |-> "allow",
          severity |-> IF lvl # Clean /\ lvl <= Ceiling THEN "suspicious" ELSE "benign"]

\* A V1Decision.  `by` says what it rests on (history), `key` what it is about.
Decided(key, v, source, by) ==
    LET g == Grade(v.lvl, Budget) IN
    [decision |-> g.decision, severity |-> g.severity, lvl |-> v.lvl, sha |-> v.sha,
     source |-> source, by |-> by, key |-> key]

\* V1Decision::empty: no severity, no level.
Empty(key, decision, source, by) ==
    [decision |-> decision, severity |-> "none", lvl |-> Manual, sha |-> key.sha,
     source |-> source, by |-> by, key |-> key]

Unavailable(key, source) == Empty(key, "unavailable", source, "nobody")

----------------------------------------------------------------------------
(* The question                                                            *)

Sole(names) == IF Len(names) = 1 THEN names[1] ELSE NoName
Parses(names) == \A i \in DOMAIN names : names[i] \notin Invalid

\* The keys of a question: one for an exact URL, one for a digest and a PURL that
\* name the same bytes, else one for each name.
KeysOf(q) ==
    CASE q.url # <<>> -> <<[sha |-> Sole(q.sha), purl |-> NoName, url |-> q.url[1]]>>
      [] q.url = <<>> /\ Len(q.sha) <= 1 /\ Len(q.purl) <= 1 ->
           <<[sha |-> Sole(q.sha), purl |-> Sole(q.purl), url |-> NoName]>>
      [] q.url = <<>> /\ Len(q.sha) > 1 ->
           [i \in DOMAIN q.sha |-> [sha |-> q.sha[i], purl |-> NoName, url |-> NoName]]
      [] OTHER -> [i \in DOMAIN q.purl |-> [sha |-> NoName, purl |-> q.purl[i], url |-> NoName]]

\* What v1_lookup_inner and Key::parse refuse.
Answerable(q) ==
    /\ q.purl = <<>> \/ q.url = <<>>
    /\ Len(q.sha) > 1 => q.purl \o q.url = <<>>
    /\ q.sha \o q.purl \o q.url # <<>>
    /\ Len(q.url) <= 1
    /\ Len(q.purl) <= MaxKeys /\ Len(q.sha) <= MaxKeys
    /\ Parses(q.sha) /\ Parses(q.purl) /\ Parses(q.url)

\* Key::needs_corpus: only the corpus can choose among a release's payloads.
NeedsCorpus(key, corpus) == corpus /\ key.sha = NoName /\ key.purl \in Versioned

NewRow(key) == [key |-> key, pc |-> "index", bloom |-> "unknown", heard |-> "none"]

AskLookup(q, fresh, corpus) ==
    /\ laPc = "new"
    /\ laAsk' = [q |-> q, fresh |-> fresh, corpus |-> corpus]
    /\ IF Answerable(q)
       THEN /\ laPc' = "index"
            /\ laRow' = [i \in DOMAIN KeysOf(q) |-> NewRow(KeysOf(q)[i])]
            /\ laOut' = [i \in DOMAIN KeysOf(q) |-> Unavailable(KeysOf(q)[i], "none")]
       ELSE laPc' = "refused" /\ UNCHANGED <<laRow, laOut>>

----------------------------------------------------------------------------
(* The index                                                               *)

\* pick_verdict and held: what the index may hold for the key.  A PURL's verdict
\* is taken only when it is about the digest that was asked about.
HeldFor(key) == {v \in Verdicts : key.sha # NoName => v.sha = key.sha}

\* One trip to the index for every row; it may be missing, and holds nothing for
\* some.  A row for the corpus, or one the index does not hold, is a miss.
ReadIndex(up, found) ==
    /\ laPc = "index" /\ laPc' = "rows"
    /\ LET ForCorpus(i) == NeedsCorpus(laRow[i].key, laAsk.corpus) IN
       /\ \A i \in DOMAIN found :
              \/ found[i] = NoVerdict
              \/ up /\ ~ForCorpus(i) /\ found[i] \in HeldFor(laRow[i].key)
       /\ laOut' = [i \in DOMAIN laOut |->
            IF found[i] = NoVerdict THEN laOut[i]
            ELSE Decided(laRow[i].key, found[i], "index", "index")]
       /\ laRow' = [i \in DOMAIN laRow |-> [laRow[i] EXCEPT !.pc =
            IF found[i] = NoVerdict /\ (up \/ ForCorpus(i)) THEN "miss" ELSE "done"]]
    /\ UNCHANGED laAsk

----------------------------------------------------------------------------
(* The rows that missed                                                    *)

Running == {i \in DOMAIN laRow : laRow[i].pc \in {"filters", "corpus", "decided"}}
Misses  == {i \in DOMAIN laRow : laRow[i].pc = "miss"}

\* The first Concurrency misses, then one for each that ends, in order.
MayStart(i) == Cardinality(Running) < Concurrency /\ \A j \in Misses : i <= j

Start(i) ==
    /\ laPc = "rows" /\ laRow[i].pc = "miss" /\ MayStart(i)
    /\ laRow' = [laRow EXCEPT ![i].pc = "filters"]
    /\ UNCHANGED <<laPc, laAsk, laOut>>

\* decide_any is burton's; bloom_claim gives a bless the clean level and a claim
\* the loosest level its tier justifies.
Claim(bloom) == [sha |-> NoName, lvl |-> IF bloom = "good" THEN Clean ELSE Ceiling]

FilterDecision(key, bloom, source) ==
    IF bloom = "unknown" THEN Empty(key, "unanalyzed", source, "nobody")
    ELSE [Decided(key, Claim(bloom), source, "filter") EXCEPT !.sha = key.sha]

\* A bless is the whole answer, unless only the corpus can answer.
BlessAnswers(key, bloom, corpus) == bloom = "good" /\ ~NeedsCorpus(key, corpus)

\* With ?fresh=1 the filters are not asked.
Opinions(fresh) == IF fresh THEN {"unknown"} ELSE {"unknown", "good", "bad"}

Deliver(i, d, heard) ==
    laRow' = [laRow EXCEPT ![i] = [key |-> @.key, pc |-> "decided", bloom |-> @.bloom,
                                   heard |-> heard, is |-> d]]

\* decide_unheld up to the corpus.
AskFilters(i, bloom) ==
    /\ laRow[i].pc = "filters" /\ bloom \in Opinions(laAsk.fresh)
    /\ LET key == laRow[i].key IN
       IF BlessAnswers(key, bloom, laAsk.corpus) \/ ~laAsk.corpus
       THEN Deliver(i, FilterDecision(key, bloom, "bloom"), "none")
       ELSE laRow' = [laRow EXCEPT ![i] = [@ EXCEPT !.pc = "corpus", !.bloom = bloom]]
    /\ UNCHANGED <<laPc, laAsk, laOut>>

\* Hopper answers on either key, so a record is about the digest or the release.
RecordsFor(key) ==
    {v \in Verdicts : (key.sha # NoName /\ key.purl = NoName) => v.sha = key.sha}

\* The corpus could not answer, so neither can we.
UnreachableDecision(key, bloom, source) == Unavailable(key, source)

\* decide_unheld after the corpus. 
CorpusSays(i, answer, v, source) ==
    /\ laRow[i].pc = "corpus"
    /\ LET key == laRow[i].key
           bloom == laRow[i].bloom
       IN Deliver(i,
            CASE answer = "record" -> Decided(key, v, source, "corpus")
              [] answer = "nothing" -> FilterDecision(key, bloom, source)
              [] answer = "unreachable" -> UnreachableDecision(key, bloom, source),
            answer)
    /\ UNCHANGED <<laPc, laAsk, laOut>>

\* Mutation: the rows in the order they end.
InOrderOfArrival(i) == 1 + Cardinality({j \in DOMAIN laRow : laRow[j].pc = "done"})

\* out[i] = decided.
PositionOf(i) == i

\* The task is joined; one that panicked leaves its row `unavailable`.  A lone key
\* has no task: decide runs in the handler, and a panic there takes the answer along.
Join(i, panicked) ==
    /\ i \in Running /\ (panicked \/ laRow[i].pc = "decided")
    /\ panicked => Len(laRow) > 1
    /\ laOut' = IF panicked THEN laOut ELSE [laOut EXCEPT ![PositionOf(i)] = laRow[i].is]
    /\ laRow' = [laRow EXCEPT ![i] = [key |-> @.key, pc |-> "done", bloom |-> "unknown",
                                      heard |-> IF panicked THEN "panic" ELSE @.heard]]
    /\ UNCHANGED <<laPc, laAsk>>

\* No row is running and none can be started: the response is built.
AnswerLookup ==
    /\ laPc = "rows" /\ Running = {} /\ \A i \in Misses : ~MayStart(i)
    /\ laPc' = "answered"
    /\ UNCHANGED <<laAsk, laRow, laOut>>

LookupNext ==
    \/ \E q \in Questions, fresh, corpus \in BOOLEAN : AskLookup(q, fresh, corpus)
    \/ \E up \in BOOLEAN, found \in [DOMAIN laRow -> Verdicts \cup {NoVerdict}] :
         ReadIndex(up, found)
    \/ \E i \in DOMAIN laRow :
         \/ Start(i)
         \/ \E bloom \in {"unknown", "good", "bad"} : AskFilters(i, bloom)
         \/ \E v \in RecordsFor(laRow[i].key),
               source \in {"replica", "primary"} : CorpusSays(i, "record", v, source)
         \/ \E source \in {"replica", "primary"} : CorpusSays(i, "nothing", NoVerdict, source)
         \/ CorpusSays(i, "unreachable", NoVerdict, "none")
         \/ \E panicked \in BOOLEAN : Join(i, panicked)
    \/ AnswerLookup

LookupSpec == LookupInit /\ [][LookupNext]_lookupVars

----------------------------------------------------------------------------
(* Properties                                                              *)

\* At most Concurrency rows ask the corpus at once; a refused question has no rows.
LookupTypeOK ==
    /\ laPc \in {"new", "index", "rows", "answered", "refused"}
    /\ DOMAIN laOut = DOMAIN laRow
    /\ \A i \in DOMAIN laOut :
         laOut[i].decision \in {"block", "allow", "unanalyzed", "unavailable"}
    /\ Cardinality(Running) <= Concurrency
    /\ laPc \in {"new", "refused"} => laRow = <<>>

\* A row of the answer is about the key at its position in the question, whatever
\* order the tasks end in: a caller matches the two by position and by spelling.
RowsAreTheirOwn == \A i \in DOMAIN laOut : laOut[i].key = laRow[i].key

\* The response is built when every row has settled: each miss was started, and each
\* that was started was joined.
NoRowForgotten == laPc = "answered" => \A i \in DOMAIN laRow : laRow[i].pc = "done"

\* `unanalyzed` is a claim about the artifact: with a corpus configured it is made
\* only when the corpus said it holds nothing.  An outage, a panic and a missing
\* index are `unavailable`.
OutageIsNeverUnanalyzed ==
    \A i \in DOMAIN laOut :
        laAsk.corpus /\ laOut[i].decision = "unanalyzed" /\ laOut[i].by = "nobody"
            => laRow[i].heard = "nothing"

\* The authoritative answer never rests on a filter, neither on a quick bless nor on
\* the claim that stands in for a corpus that holds nothing.
FreshSkipsFilters == laAsk.fresh => \A i \in DOMAIN laOut : laOut[i].by # "filter"

\* A release named by its PURL alone is never decided before the corpus was heard:
\* the local index and a bless cover one payload, the release may have several.
ReleaseHearsCorpus ==
    \A i \in DOMAIN laOut :
        NeedsCorpus(laRow[i].key, laAsk.corpus) /\ laRow[i].pc = "done"
          /\ laOut[i].decision # "unavailable"
            => laRow[i].heard \in {"record", "nothing"}

\* An artifact that fires at no level is allowed at every budget: the clean level is
\* -1 on the wire, below every budget.
CleanIsNeverBlocked ==
    \A i \in DOMAIN laOut : laOut[i].decision = "block" => laOut[i].lvl \in 0..Budget

\* A lookup answers each key in its own row, when all are settled, and claims of an
\* artifact only what was heard of it from those the caller meant to ask.
LookupIsFaithful ==
    /\ LookupTypeOK
    /\ RowsAreTheirOwn /\ NoRowForgotten
    /\ OutageIsNeverUnanalyzed /\ FreshSkipsFilters /\ ReleaseHearsCorpus
    /\ CleanIsNeverBlocked
=============================================================================
