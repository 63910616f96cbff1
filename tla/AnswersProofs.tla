--------------------------- MODULE AnswersProofs ---------------------------
(***************************************************************************)
(* That what the server says is true of what it was asked, for any engines,*)
(* keys, requests and callers: the fold of two outcomes into a verdict, the*)
(* answer of a lookup, the answer of an analyze request, and the answers of*)
(* the callers that ride one run.                                          *)
(*                                                                         *)
(* The invariants say of every row, request and caller what its answer must*)
(* be by now, step by step: the answer itself is only written at the end, so*)
(* that what it rests on has to be true on the way there.                  *)
(***************************************************************************)
EXTENDS AnalyzeRequest, Judging, StreamedAnswer, WellFoundedInduction, FiniteSetTheorems,
        SequenceTheorems, TLAPS

----------------------------------------------------------------------------
(* Judging                                                                *)

AnOutcome == [severity : Bands, level : FiringLevels]

\* One of two levels: which engine comes first makes no difference, and the fold of an
\* outcome with itself is that outcome.
LEMMA WorseLevelCommutes ==
    ASSUME NEW a \in FiringLevels, NEW b \in FiringLevels
    PROVE  /\ WorseLevel(a, b) = WorseLevel(b, a) /\ WorseLevel(a, a) = a
           /\ WorseLevel(a, b) \in {a, b}
BY DEF WorseLevel, FiringLevels, Never, Uncalibrated

\* A level blocks where one of the two it is the worse of blocks.
LEMMA WorseLevelBlocks ==
    ASSUME NEW a \in FiringLevels, NEW b \in FiringLevels, NEW budget \in Nat
    PROVE  BlocksAt(WorseLevel(a, b), budget) <=> BlocksAt(a, budget) \/ BlocksAt(b, budget)
BY DEF WorseLevel, BlocksAt, FiringLevels, Never, Uncalibrated

\* The fold of outcomes forgets neither the order in which the engines are asked ...
THEOREM FoldCommutes ==
    ASSUME NEW o \in AnOutcome, NEW p \in AnOutcome
    PROVE  WorseOf(o, p) = WorseOf(p, o)
<1>1. CASE o.severity = p.severity
  BY <1>1, WorseLevelCommutes DEF AnOutcome, WorseOf, Bands, Benign, Hostile
<1>2. CASE o.severity # p.severity
  BY <1>2 DEF AnOutcome, WorseOf, Bands, Benign, Hostile
<1> QED
  BY <1>1, <1>2

\* ... nor how many of them there are: a third engine could be folded in either way.
THEOREM FoldAssociates ==
    ASSUME NEW o \in AnOutcome, NEW p \in AnOutcome, NEW q \in AnOutcome
    PROVE  WorseOf(o, WorseOf(p, q)) = WorseOf(WorseOf(o, p), q)
<1>1. ASSUME NEW a \in FiringLevels, NEW b \in FiringLevels, NEW c \in FiringLevels
      PROVE  WorseLevel(a, WorseLevel(b, c)) = WorseLevel(WorseLevel(a, b), c)
  BY <1>1 DEF WorseLevel, FiringLevels, Never, Uncalibrated
<1>2. CASE o.severity = p.severity /\ p.severity = q.severity
  BY <1>1, <1>2 DEF AnOutcome, WorseOf, Bands, Benign, Hostile
<1>3. CASE ~(o.severity = p.severity /\ p.severity = q.severity)
  BY <1>3 DEF AnOutcome, WorseOf, Bands, Benign, Hostile
<1> QED
  BY <1>2, <1>3

\* In bands, the fold blocks at exactly the budgets at which one of the two blocks.
LEMMA FoldBlocks ==
    ASSUME NEW o \in AnOutcome, NEW p \in AnOutcome, NEW budget \in Nat,
           InBand(o, p), InBand(p, o)
    PROVE  BlocksAt(WorseOf(o, p).level, budget)
             <=> BlocksAt(o.level, budget) \/ BlocksAt(p.level, budget)
<1>1. CASE o.severity = p.severity
  BY <1>1, WorseLevelBlocks DEF AnOutcome, WorseOf, Bands, Benign, Hostile
<1>2. CASE o.severity > p.severity
  BY <1>2 DEF AnOutcome, WorseOf, Bands, Benign, Hostile, InBand, BlocksAt, FiringLevels, Never,
     Uncalibrated
<1>3. CASE o.severity < p.severity
  BY <1>3 DEF AnOutcome, WorseOf, Bands, Benign, Hostile, InBand, BlocksAt, FiringLevels, Never,
     Uncalibrated
<1> QED
  BY <1>1, <1>2, <1>3 DEF AnOutcome, Bands, Benign, Hostile

\* What a report was written from.
ReportOf ==
    Written => /\ jgAnalysis \in Analyses
               /\ jgReport.verdict = Folded(jgAnalysis)
               /\ jgReport.decided = DecidedBy(jgAnalysis)
               /\ jgReport.quoted = Quoted(jgAnalysis)

\* What is written is a report of the analysis it was folded from.
LEMMA ReportWritten == JudgingSpec => []ReportOf
<1>1. JudgingInit => ReportOf
  BY DEF JudgingInit, ReportOf, Written, NotYet
<1>2. ReportOf /\ [JudgingNext]_judgingVars => ReportOf'
  <2>1. ASSUME NEW a \in Analyses, Judge(a) PROVE ReportOf'
    BY <2>1 DEF Judge, ReportOf, Written, Folded, DecidedBy, Quoted, BandsOf, ScansAhead,
       FromScan, FromIsomer, Interpreted
  <2>2. ASSUME ReportOf, UNCHANGED judgingVars PROVE ReportOf'
    BY <2>2 DEF judgingVars, ReportOf, Written
  <2> QED
    BY <2>1, <2>2 DEF JudgingNext
<1> QED
  BY <1>1, <1>2, PTL DEF JudgingSpec

\* Whose sentence is quoted: that of an interpreter that reached the verdict and has one.
LEMMA QuotesWhoReachedIt ==
    ASSUME NEW a \in Analyses, Quoted(a) \notin DecidedBy(a)
    PROVE  /\ "llm" \in DecidedBy(a) => ~FromScan(a)
           /\ "diff_llm" \in DecidedBy(a) => ~FromIsomer(a)
<1>1. ASSUME "llm" \in DecidedBy(a), FromScan(a) PROVE FALSE
  <2>1. Quoted(a) = "llm"
    BY <1>1 DEF Quoted, ScansAhead
  <2> QED
    BY <1>1, <2>1
<1>2. ASSUME "diff_llm" \in DecidedBy(a), FromIsomer(a) PROVE FALSE
  <2>1. CASE "llm" \notin DecidedBy(a)
    <3>1. Quoted(a) = "diff_llm"
      BY <1>2, <2>1 DEF Quoted, ScansAhead
    <3> QED
      BY <1>2, <3>1
  <2>2. CASE "llm" \in DecidedBy(a)
    <3>1. ~FromScan(a)
      BY <1>1, <2>2
    <3>2. Quoted(a) = (CHOOSE id \in {"diff_llm"} : TRUE)
      BY <1>2, <2>2, <3>1 DEF Quoted, ScansAhead
    <3> QED
      BY <1>2, <3>2
  <2> QED
    BY <2>1, <2>2
<1> QED
  BY <1>1, <1>2

\* Every grade of isomer's is in a band.
LEMMA BandOfType == \A grade : BandOf(grade) \in Bands
<1> SUFFICES ASSUME NEW grade PROVE BandOf(grade) \in Bands
  OBVIOUS
<1>1. CASE grade = "critical"
  BY <1>1 DEF BandOf, Bands, Benign, Hostile
<1>2. CASE grade = "high"
  BY <1>2 DEF BandOf, Bands, Benign, Suspicious, Hostile
<1>3. CASE grade # "critical" /\ grade # "high"
  BY <1>3 DEF BandOf, Bands, Benign, Hostile
<1> QED
  BY <1>1, <1>2, <1>3

\* What isomer's count comes to is an outcome.
LEMMA IsomerOutcomeType ==
    ASSUME NEW a \in Analyses PROVE IsomerOutcome(a) \in AnOutcome
<1> DEFINE band == BandOf(a.isomer.severity)
           alarm == a.scan.severity > Benign
<1>1. band \in Bands /\ alarm \in BOOLEAN
  BY BandOfType
<1>2. Placed[band][alarm] \in FiringLevels
  <2> HIDE DEF band, alarm
  <2> QED
    BY <1>1, JudgingAssumption
<1>3. IsomerOutcome(a) = [severity |-> band, level |-> Placed[band][alarm]]
  BY DEF IsomerOutcome
<1> QED
  BY <1>1, <1>2, <1>3 DEF AnOutcome

\* A consumer that reads only the number of a report blocks for exactly the callers for
\* whom one of the two engines would have, at every budget (combine::verdict).
THEOREM VerdictBlocksAsEither == JudgingSpec => []FoldBlocksAsEither
<1>1. ReportOf => FoldBlocksAsEither
  <2> SUFFICES ASSUME ReportOf, Written, jgAnalysis.compared,
                      InBand(jgAnalysis.scan, IsomerOutcome(jgAnalysis)),
                      InBand(IsomerOutcome(jgAnalysis), jgAnalysis.scan),
                      NEW b \in BudgetsRead
               PROVE  BlocksAt(jgReport.verdict.level, b)
                        <=> BlocksAt(jgAnalysis.scan.level, b)
                              \/ BlocksAt(IsomerOutcome(jgAnalysis).level, b)
    BY DEF FoldBlocksAsEither
  <2>1. jgAnalysis \in Analyses /\ jgReport.verdict = Folded(jgAnalysis)
    BY DEF ReportOf
  <2>2. jgAnalysis.scan \in AnOutcome /\ b \in Nat
    BY <2>1, JudgingAssumption DEF Analyses, AnOutcome
  <2>3. IsomerOutcome(jgAnalysis) \in AnOutcome
    BY <2>1, IsomerOutcomeType
  <2>4. jgReport.verdict = WorseOf(jgAnalysis.scan, IsomerOutcome(jgAnalysis))
    BY <2>1 DEF Folded
  <2> QED
    BY <2>2, <2>3, <2>4, FoldBlocks
<1> QED
  BY <1>1, ReportWritten, PTL

\* The number of a report blocks as one of the engines would have, and its sentence is not
\* one of an interpreter that did not reach the verdict while another that did has one
\* (combine::verdict, reason).
THEOREM ReportsAreEarned == JudgingSpec => []ReportIsEarned
<1>1. ReportOf => QuotedReachedIt
  <2> SUFFICES ASSUME ReportOf, Written, jgReport.quoted \notin jgReport.decided
               PROVE  /\ "llm" \in jgReport.decided => ~FromScan(jgAnalysis)
                      /\ "diff_llm" \in jgReport.decided => ~FromIsomer(jgAnalysis)
    BY DEF QuotedReachedIt
  <2> QED
    BY QuotesWhoReachedIt DEF ReportOf
<1> QED
  BY <1>1, ReportWritten, VerdictBlocksAsEither, PTL DEF ReportIsEarned

----------------------------------------------------------------------------
(* A lookup                                                                *)

\* What may be said of a key by a row that has heard `heard`.
Sound(d, key, heard) ==
    /\ d.key = key /\ d.decision \in {"block", "allow", "unanalyzed", "unavailable"}
    /\ laAsk.corpus /\ d.decision = "unanalyzed" /\ d.by = "nobody" => heard = "nothing"
    /\ laAsk.fresh => d.by # "filter"
    /\ d.decision = "block" => d.lvl \in 0..Budget

\* A release is decided by the corpus, or not at all.
Heard(d, key, heard) ==
    NeedsCorpus(key, laAsk.corpus) /\ d.decision # "unavailable" => heard \in {"record", "nothing"}

Undelivered(row) == row = [key |-> row.key, pc |-> row.pc, bloom |-> row.bloom, heard |-> row.heard]
Delivered(row) ==
    row = [key |-> row.key, pc |-> row.pc, bloom |-> row.bloom, heard |-> row.heard, is |-> row.is]

RowSteps == {"index", "miss", "filters", "corpus", "decided", "done"}

\* A row and its place in the answer.  Until the row is joined the place says
\* `unavailable`; what the row is about to deliver is sound already.
RowInv(row, out) ==
    /\ row.pc \in RowSteps
    /\ IF row.pc = "decided" THEN Delivered(row) ELSE Undelivered(row)
    /\ row.pc # "done" => out = Unavailable(row.key, "none")
    /\ Sound(out, row.key, row.heard)
    /\ row.pc = "done" => Heard(out, row.key, row.heard)
    /\ row.pc = "corpus" => laAsk.corpus /\ row.bloom \in Opinions(laAsk.fresh)
    /\ row.pc = "decided" =>
         Sound(row.is, row.key, row.heard) /\ Heard(row.is, row.key, row.heard)

RowsInv == \A i \in DOMAIN laRow : RowInv(laRow[i], laOut[i])

\* The rows are numbered, and none is further than the question.
RowsInStep ==
    /\ laPc \in {"new", "index", "rows", "answered", "refused"}
    /\ DOMAIN laOut = DOMAIN laRow
    /\ \E n \in Nat : DOMAIN laRow = 1..n
    /\ laPc \in {"new", "refused"} => laRow = <<>>
    /\ laPc = "index" => \A i \in DOMAIN laRow : laRow[i].pc = "index"
    /\ laPc = "rows" => \A i \in DOMAIN laRow : laRow[i].pc # "index"
    /\ laPc = "answered" => \A i \in DOMAIN laRow : laRow[i].pc = "done"

FewRun == Cardinality(Running) <= Concurrency

LookupInv == RowsInStep /\ RowsInv /\ FewRun

LEMMA LeastOf ==
    ASSUME NEW T \in SUBSET Nat, T # {}
    PROVE  \E x \in T : \A y \in T : x <= y
<1> DEFINE Less == OpToRel(<, Nat)
<1>1. IsWellFoundedOn(Less, Nat)
  BY Zenon, NatLessThanWellFounded
<1>2. \A x, y \in Nat : x < y => <<x, y>> \in Less
  BY Zenon DEF OpToRel
<1> HIDE DEF Less
<1>3. PICK x \in T : \A y \in T : ~ (<<y, x>> \in Less)
  BY <1>1, WFMin
<1>4. ASSUME NEW y \in T PROVE x <= y
  <2>1. x \in Nat /\ y \in Nat OBVIOUS
  <2>2. ~ (y < x) BY <1>2, <1>3, <2>1
  <2> QED BY <2>1, <2>2
<1> QED BY <1>4

\* What the decisions of the code say.
LEMMA DecidedIsSound ==
    ASSUME NEW key, NEW v, v.lvl \in AllLevels, NEW source, NEW by
    PROVE  LET d == Decided(key, v, source, by) IN
           /\ d.key = key /\ d.by = by /\ d.sha = v.sha /\ d.lvl = v.lvl
           /\ d.decision \in {"block", "allow", "unanalyzed"}
           /\ d.decision = "unanalyzed" <=> v.lvl = Manual
           /\ d.decision = "block" => d.lvl \in 0..Budget
<1> DEFINE lvl == v.lvl
           g == Grade(lvl, Budget)
<1>1. lvl \in Nat \cup {Manual, Clean} /\ Budget \in Nat /\ Ceiling \in Nat
  BY LookupAssumption DEF AllLevels
<1>2. Decided(key, v, source, by) =
        [decision |-> g.decision, severity |-> g.severity, lvl |-> lvl, sha |-> v.sha,
         source |-> source, by |-> by, key |-> key]
  BY DEF Decided
<1>3. /\ g.decision \in {"block", "allow", "unanalyzed"}
      /\ g.decision = "unanalyzed" <=> lvl = Manual
      /\ g.decision = "block" => lvl \in 0..Budget
  <2> HIDE DEF lvl
  <2> QED BY <1>1 DEF Grade, Manual, Clean
<1> HIDE DEF lvl, g
<1> QED BY <1>2, <1>3 DEF lvl

LEMMA EmptyIs ==
    ASSUME NEW key, NEW decision, NEW source, NEW by
    PROVE  LET d == Empty(key, decision, source, by) IN
           d.key = key /\ d.by = by /\ d.sha = key.sha /\ d.decision = decision /\ d.lvl = Manual
BY DEF Empty

LEMMA FilterSays ==
    ASSUME NEW key, NEW bloom, NEW source
    PROVE  LET d == FilterDecision(key, bloom, source) IN
           /\ d.key = key /\ d.sha = key.sha
           /\ bloom = "unknown" => d.decision = "unanalyzed" /\ d.by = "nobody" /\ d.lvl = Manual
           /\ bloom # "unknown" => d.decision \in {"block", "allow"} /\ d.by = "filter"
           /\ d.decision = "block" => d.lvl \in 0..Budget
<1>1. CASE bloom = "unknown"
  BY <1>1 DEF FilterDecision, Empty
<1>2. CASE bloom # "unknown"
  <2> DEFINE c == Claim(bloom)
             e == Decided(key, c, source, "filter")
  <2>1. c.lvl \in Nat \cup {Clean} /\ c.lvl # Manual
    BY LookupAssumption DEF Claim, Clean, Manual
  <2>2. e = [decision |-> e.decision, severity |-> e.severity, lvl |-> c.lvl, sha |-> c.sha,
             source |-> source, by |-> "filter", key |-> key]
    BY DEF Decided
  <2>3. e.decision \in {"block", "allow"} /\ (e.decision = "block" => c.lvl \in 0..Budget)
    BY <2>1, LookupAssumption DEF Decided, Grade, Clean, Manual
  <2>4. FilterDecision(key, bloom, source) = [e EXCEPT !.sha = key.sha]
    BY <1>2 DEF FilterDecision
  <2> HIDE DEF e, c
  <2> QED BY <1>2, <2>2, <2>3, <2>4
<1> QED BY <1>1, <1>2

LEMMA KeysAreNumbered ==
    ASSUME NEW q \in Questions
    PROVE  \E n \in Nat : DOMAIN KeysOf(q) = 1..n
<1>1. \A names \in {q.sha, q.purl, q.url} : Len(names) \in Nat /\ DOMAIN names = 1..Len(names)
  BY LookupAssumption
<1>2. CASE q.url # <<>>
  <2>1. KeysOf(q) = <<[sha |-> Sole(q.sha), purl |-> NoName, url |-> q.url[1]]>>
    BY <1>2 DEF KeysOf
  <2>2. DOMAIN KeysOf(q) = 1..1 BY <2>1
  <2> QED BY <2>2
<1>3. CASE q.url = <<>> /\ Len(q.sha) <= 1 /\ Len(q.purl) <= 1
  <2>1. KeysOf(q) = <<[sha |-> Sole(q.sha), purl |-> Sole(q.purl), url |-> NoName]>>
    BY <1>3 DEF KeysOf
  <2>2. DOMAIN KeysOf(q) = 1..1 BY <2>1
  <2> QED BY <2>2
<1>4. CASE q.url = <<>> /\ Len(q.sha) > 1
  <2>1. KeysOf(q) = [i \in DOMAIN q.sha |-> [sha |-> q.sha[i], purl |-> NoName, url |-> NoName]]
    BY <1>1, <1>4 DEF KeysOf
  <2> QED BY <1>1, <2>1
<1>5. CASE q.url = <<>> /\ ~(Len(q.sha) <= 1 /\ Len(q.purl) <= 1) /\ ~(Len(q.sha) > 1)
  <2>1. KeysOf(q) = [i \in DOMAIN q.purl |-> [sha |-> NoName, purl |-> q.purl[i], url |-> NoName]]
    BY <1>5 DEF KeysOf
  <2> QED BY <1>1, <2>1
<1> QED BY <1>2, <1>3, <1>4, <1>5

LEMMA RunningIsFinite ==
    ASSUME RowsInStep PROVE IsFiniteSet(Running) /\ Cardinality(Running) \in Nat
<1>1. PICK n \in Nat : DOMAIN laRow = 1..n BY DEF RowsInStep
<1>2. IsFiniteSet(1..n) BY FS_Interval
<1>3. Running \subseteq 1..n BY <1>1 DEF Running
<1> QED BY <1>2, <1>3, FS_Subset, FS_CardinalityType

LEMMA AskLookupInv ==
    ASSUME LookupInv, NEW q \in Questions, NEW fresh \in BOOLEAN, NEW corpus \in BOOLEAN,
           AskLookup(q, fresh, corpus)
    PROVE  LookupInv'
<1> USE DEF LookupInv
<1>1. CASE Answerable(q)
  <2> DEFINE K == KeysOf(q)
  <2>1. /\ laPc' = "index" /\ laAsk' = [q |-> q, fresh |-> fresh, corpus |-> corpus]
        /\ laRow' = [i \in DOMAIN K |-> NewRow(K[i])]
        /\ laOut' = [i \in DOMAIN K |-> Unavailable(K[i], "none")]
    BY <1>1 DEF AskLookup
  <2>2. \E n \in Nat : DOMAIN K = 1..n
    BY KeysAreNumbered
  <2> HIDE DEF K
  <2>3. \A i \in DOMAIN laRow' : laRow'[i].pc = "index"
    BY <2>1 DEF NewRow
  <2>4. RowsInStep'
    BY <2>1, <2>2, <2>3 DEF RowsInStep
  <2>5. RowsInv'
    <3> SUFFICES ASSUME NEW i \in DOMAIN K PROVE RowInv(NewRow(K[i]), Unavailable(K[i], "none"))'
      BY <2>1 DEF RowsInv
    <3>1. /\ NewRow(K[i]).pc = "index" /\ NewRow(K[i]).key = K[i] /\ Undelivered(NewRow(K[i]))
      BY DEF NewRow, Undelivered
    <3>2. /\ Unavailable(K[i], "none").key = K[i]
          /\ Unavailable(K[i], "none").decision = "unavailable"
          /\ Unavailable(K[i], "none").by = "nobody"
      BY EmptyIs DEF Unavailable
    <3> QED BY <3>1, <3>2 DEF RowInv, RowSteps, Sound
  <2>6. FewRun'
    <3>1. Running' = {} BY <2>3 DEF Running
    <3> QED BY <3>1, FS_EmptySet, LookupAssumption DEF FewRun
  <2> QED BY <2>4, <2>5, <2>6
<1>2. CASE ~Answerable(q)
  <2>1. laPc' = "refused" /\ laRow' = laRow /\ laOut' = laOut /\ laPc = "new" /\ laRow = <<>>
    BY <1>2 DEF AskLookup, RowsInStep
  <2>2. DOMAIN laRow = {}
    BY <2>1
  <2>3. RowsInStep'
    BY <2>1, <2>2 DEF RowsInStep
  <2>4. RowsInv'
    BY <2>1, <2>2 DEF RowsInv
  <2>5. FewRun'
    BY <2>1 DEF FewRun, Running
  <2> QED BY <2>3, <2>4, <2>5
<1> QED BY <1>1, <1>2

LEMMA ReadIndexInv ==
    ASSUME LookupInv, NEW up \in BOOLEAN, NEW found \in [DOMAIN laRow -> Verdicts \cup {NoVerdict}],
           ReadIndex(up, found)
    PROVE  LookupInv'
<1> USE DEF LookupInv
<1> DEFINE For(i) == NeedsCorpus(laRow[i].key, laAsk.corpus)
           pc(i) == IF found[i] = NoVerdict /\ (up \/ For(i)) THEN "miss" ELSE "done"
           row(i) == [laRow[i] EXCEPT !.pc = pc(i)]
           out(i) == IF found[i] = NoVerdict THEN laOut[i]
                     ELSE Decided(laRow[i].key, found[i], "index", "index")
<1>1. /\ laPc = "index" /\ laPc' = "rows" /\ laAsk' = laAsk
      /\ DOMAIN laRow' = DOMAIN laRow /\ DOMAIN laOut' = DOMAIN laOut
      /\ DOMAIN laOut = DOMAIN laRow
      /\ \A i \in DOMAIN laRow : laRow'[i] = row(i) /\ laOut'[i] = out(i)
      /\ \A i \in DOMAIN laRow : found[i] # NoVerdict => ~For(i)
  BY DEF ReadIndex, RowsInStep
<1>2. ASSUME NEW i \in DOMAIN laRow
      PROVE  /\ laRow[i].pc = "index" /\ Undelivered(laRow[i])
             /\ laOut[i] = Unavailable(laRow[i].key, "none")
             /\ Sound(laOut[i], laRow[i].key, laRow[i].heard)
             /\ found[i] # NoVerdict => found[i].lvl \in AllLevels
  BY <1>1 DEF RowsInStep, RowsInv, RowInv, Verdicts
<1>3. ASSUME NEW i \in DOMAIN laRow
      PROVE  /\ row(i) = [key |-> laRow[i].key, pc |-> pc(i), bloom |-> laRow[i].bloom,
                          heard |-> laRow[i].heard]
             /\ pc(i) \in {"miss", "done"}
  <2> HIDE DEF pc
  <2>1. Undelivered(laRow[i]) BY <1>2
  <2>2. row(i) = [key |-> laRow[i].key, pc |-> pc(i), bloom |-> laRow[i].bloom,
                          heard |-> laRow[i].heard]
    BY <2>1 DEF Undelivered
  <2> QED BY <2>2 DEF pc
<1> HIDE DEF row, pc
<1>4. \A i \in DOMAIN laRow' : laRow'[i].pc \in {"miss", "done"}
  BY <1>1, <1>3
<1>5. RowsInStep'
  BY <1>1, <1>4 DEF RowsInStep
<1>6. RowsInv'
  <2> SUFFICES ASSUME NEW i \in DOMAIN laRow PROVE RowInv(laRow[i], laOut[i])'
    BY <1>1 DEF RowsInv
  <2>4. laRow'[i] = row(i) /\ laOut'[i] = out(i)
    BY <1>1
  <2>1. row(i).key = laRow[i].key /\ row(i).pc = pc(i) /\ Undelivered(row(i))
        /\ row(i).heard = laRow[i].heard
    BY <1>3 DEF Undelivered
  <2>2. CASE found[i] = NoVerdict
    <3>1. out(i) = Unavailable(row(i).key, "none") /\ Sound(out(i), row(i).key, row(i).heard)
          /\ out(i).decision = "unavailable"
      BY <1>2, <2>1, <2>2, EmptyIs DEF Unavailable
    <3> HIDE DEF out, For
    <3> QED BY <3>1, <2>1, <2>4, <1>3, <1>1 DEF RowInv, RowSteps, Sound, Heard
  <2>3. CASE found[i] # NoVerdict
    <3> DEFINE d == Decided(laRow[i].key, found[i], "index", "index")
    <3>1. /\ d.key = laRow[i].key /\ d.by = "index"
          /\ d.decision \in {"block", "allow", "unanalyzed"}
          /\ d.decision = "block" => d.lvl \in 0..Budget
      BY <2>3, <1>2, DecidedIsSound
    <3>2. out(i) = d BY <2>3
    <3>3. pc(i) = "done" BY <2>3 DEF pc
    <3>4. ~NeedsCorpus(row(i).key, laAsk.corpus) BY <2>3, <1>1, <2>1
    <3> HIDE DEF d, out, For
    <3> QED BY <3>1, <3>2, <3>3, <3>4, <2>1, <2>4, <1>1 DEF RowInv, RowSteps, Sound, Heard
  <2> QED BY <2>2, <2>3
<1>7. FewRun'
  <2>1. Running' = {} BY <1>4 DEF Running
  <2> QED BY <2>1, FS_EmptySet, LookupAssumption DEF FewRun
<1> QED BY <1>5, <1>6, <1>7

\* A step of one row leaves the others, and their places, alone.
OnlyRow(i) ==
    /\ laPc' = laPc /\ laAsk' = laAsk
    /\ DOMAIN laRow' = DOMAIN laRow /\ DOMAIN laOut' = DOMAIN laOut
    /\ \A j \in DOMAIN laRow \ {i} : laRow'[j] = laRow[j] /\ laOut'[j] = laOut[j]

LEMMA OneRowMoves ==
    ASSUME RowsInStep, RowsInv, laPc = "rows", NEW i \in DOMAIN laRow, OnlyRow(i),
           laRow'[i].pc # "index", RowInv(laRow[i], laOut[i])'
    PROVE  RowsInStep' /\ RowsInv'
<1>1. RowsInStep'
  BY DEF OnlyRow, RowsInStep
<1>2. ASSUME NEW j \in DOMAIN laRow, j # i PROVE RowInv(laRow[j], laOut[j])'
  <2>1. RowInv(laRow[j], laOut[j]) BY DEF RowsInv
  <2>2. laRow'[j] = laRow[j] /\ laOut'[j] = laOut[j] /\ laAsk' = laAsk
    BY <1>2 DEF OnlyRow
  <2> QED BY <2>1, <2>2 DEF RowInv, Sound, Heard
<1>3. RowsInv'
  BY <1>2 DEF RowsInv, OnlyRow
<1> QED BY <1>1, <1>3

\* A row that goes on running, or ends.
LEMMA RowRunsOn ==
    ASSUME RowsInStep, FewRun, NEW i \in Running, OnlyRow(i)
    PROVE  FewRun'
<1>1. Running' \subseteq Running
  BY DEF Running, OnlyRow
<1>2. IsFiniteSet(Running) /\ Cardinality(Running) \in Nat
  BY RunningIsFinite
<1>3. Cardinality(Running') <= Cardinality(Running) /\ Cardinality(Running') \in Nat
  BY <1>1, <1>2, FS_Subset, FS_CardinalityType
<1> QED BY <1>2, <1>3, LookupAssumption DEF FewRun

LEMMA StartInv ==
    ASSUME LookupInv, NEW i \in DOMAIN laRow, Start(i)
    PROVE  LookupInv'
<1> USE DEF LookupInv
<1> DEFINE r == laRow[i]
<1>1. /\ laPc = "rows" /\ r.pc = "miss" /\ Undelivered(r)
      /\ laRow' = [laRow EXCEPT ![i].pc = "filters"]
      /\ laOut' = laOut /\ laPc' = laPc /\ laAsk' = laAsk
      /\ Cardinality(Running) < Concurrency
      /\ RowInv(r, laOut[i])
  BY DEF Start, MayStart, RowsInv, RowInv
<1>2. laRow'[i] = [key |-> r.key, pc |-> "filters", bloom |-> r.bloom, heard |-> r.heard]
  <2>1. laRow'[i] = [r EXCEPT !.pc = "filters"] BY <1>1
  <2> HIDE DEF r
  <2> QED BY <1>1, <2>1 DEF Undelivered
<1>3. OnlyRow(i)
  BY <1>1 DEF OnlyRow
<1>4. RowInv(laRow[i], laOut[i])'
  <2> HIDE DEF r
  <2>1. /\ laRow'[i].key = r.key /\ laRow'[i].pc = "filters" /\ laRow'[i].heard = r.heard
        /\ Undelivered(laRow'[i])
    BY <1>2 DEF Undelivered
  <2> QED BY <1>1, <2>1 DEF RowInv, RowSteps, Sound, Heard
<1>5. RowsInStep' /\ RowsInv'
  <2>1. laRow'[i].pc # "index" BY <1>2
  <2> QED BY <1>1, <1>3, <1>4, <2>1, OneRowMoves
<1>6. FewRun'
  <2>1. Running' \subseteq Running \cup {i}
    BY <1>3 DEF Running, OnlyRow
  <2>2. IsFiniteSet(Running) /\ Cardinality(Running) \in Nat
    BY RunningIsFinite
  <2>3. /\ IsFiniteSet(Running \cup {i})
        /\ Cardinality(Running \cup {i}) <= Cardinality(Running) + 1
    <3>1. i \notin Running BY <1>1 DEF Running
    <3>2. IsFiniteSet(Running \cup {i}) /\ Cardinality(Running \cup {i}) = Cardinality(Running) + 1
      BY <2>2, <3>1, FS_AddElement
    <3> QED BY <2>2, <3>2
  <2>4. Cardinality(Running') <= Cardinality(Running \cup {i})
        /\ Cardinality(Running') \in Nat /\ Cardinality(Running \cup {i}) \in Nat
    BY <2>1, <2>3, FS_Subset, FS_CardinalityType
  <2> QED BY <1>1, <2>2, <2>3, <2>4, LookupAssumption DEF FewRun
<1> QED BY <1>5, <1>6

\* A running row is one of a lookup that has its index.
LEMMA RunningIsInRows ==
    ASSUME RowsInStep, NEW i \in Running
    PROVE  laPc = "rows" /\ i \in DOMAIN laRow
BY DEF Running, RowsInStep

\* What a row delivers.
LEMMA DeliverInv ==
    ASSUME LookupInv, NEW i \in Running, NEW STATE d, NEW CONSTANT heard, Deliver(i, d, heard),
           laPc' = laPc, laAsk' = laAsk, laOut' = laOut, laRow[i].pc # "decided",
           Sound(d, laRow[i].key, heard), Heard(d, laRow[i].key, heard)
    PROVE  LookupInv'
<1> USE DEF LookupInv
<1> DEFINE r == laRow[i]
<1>1. laPc = "rows" /\ i \in DOMAIN laRow
  BY RunningIsInRows
<1>2. laRow'[i] = [key |-> r.key, pc |-> "decided", bloom |-> r.bloom, heard |-> heard, is |-> d]
  BY <1>1 DEF Deliver
<1>3. OnlyRow(i)
  BY DEF OnlyRow, Deliver
<1>4. RowInv(laRow[i], laOut[i])'
  <2>1. laOut[i] = Unavailable(r.key, "none")
    BY <1>1 DEF RowsInv, RowInv, Running
  <2>2. Sound(laOut[i], r.key, heard)
    BY <2>1, EmptyIs DEF Unavailable, Sound
  <2>4. Sound(d, r.key, heard) /\ Heard(d, r.key, heard)
    OBVIOUS
  <2> HIDE DEF r
  <2>3. /\ laRow'[i].key = r.key /\ laRow'[i].pc = "decided" /\ laRow'[i].heard = heard
        /\ laRow'[i].is = d /\ Delivered(laRow'[i])
    BY <1>2 DEF Delivered
  <2> QED BY <2>1, <2>2, <2>3, <2>4 DEF RowInv, RowSteps, Sound, Heard
<1>5. RowsInStep' /\ RowsInv'
  <2>1. laRow'[i].pc # "index" BY <1>2
  <2> QED BY <1>1, <1>3, <1>4, <2>1, OneRowMoves
<1> QED BY <1>3, <1>5, RowRunsOn

LEMMA AskFiltersInv ==
    ASSUME LookupInv, NEW i \in DOMAIN laRow, NEW bloom \in {"unknown", "good", "bad"},
           AskFilters(i, bloom)
    PROVE  LookupInv'
<1> USE DEF LookupInv
<1> DEFINE r == laRow[i]
           key == r.key
<1>1. /\ i \in Running /\ laPc = "rows" /\ r.pc = "filters" /\ bloom \in Opinions(laAsk.fresh)
      /\ laPc' = laPc /\ laAsk' = laAsk /\ laOut' = laOut
      /\ RowInv(r, laOut[i]) /\ Undelivered(r)
  BY RunningIsInRows DEF AskFilters, Running, RowsInv, RowInv
<1>2. CASE BlessAnswers(key, bloom, laAsk.corpus) \/ ~laAsk.corpus
  <2> DEFINE d == FilterDecision(key, bloom, "bloom")
  <2>1. Deliver(i, d, "none")
    BY <1>2 DEF AskFilters
  <2>2. /\ d.key = key
        /\ bloom = "unknown" => d.decision = "unanalyzed" /\ d.by = "nobody"
        /\ bloom # "unknown" => d.decision \in {"block", "allow"} /\ d.by = "filter"
        /\ d.decision = "block" => d.lvl \in 0..Budget
    BY FilterSays
  <2>3. laAsk.fresh => bloom = "unknown"
    BY <1>1 DEF Opinions
  <2>4. laAsk.corpus => bloom = "good" /\ ~NeedsCorpus(key, laAsk.corpus)
    BY <1>2 DEF BlessAnswers
  <2>5. ~NeedsCorpus(key, laAsk.corpus)
    BY <2>4 DEF NeedsCorpus
  <2> HIDE DEF d
  <2>6. Sound(d, key, "none") /\ Heard(d, key, "none")
    BY <2>2, <2>3, <2>4, <2>5 DEF Sound, Heard
  <2> QED BY <1>1, <2>1, <2>6, DeliverInv
<1>3. CASE ~(BlessAnswers(key, bloom, laAsk.corpus) \/ ~laAsk.corpus)
  <2>1. laRow' = [laRow EXCEPT ![i] = [r EXCEPT !.pc = "corpus", !.bloom = bloom]]
    BY <1>3 DEF AskFilters
  <2>2. laRow'[i] = [r EXCEPT !.pc = "corpus", !.bloom = bloom]
    BY <2>1
  <2>3. laRow'[i] = [key |-> key, pc |-> "corpus", bloom |-> bloom, heard |-> r.heard]
    <3> HIDE DEF r
    <3> QED BY <1>1, <2>2 DEF Undelivered
  <2>4. OnlyRow(i)
    BY <1>1, <2>1 DEF OnlyRow
  <2>5. RowInv(laRow[i], laOut[i])'
    <3>1. /\ laRow'[i].key = key /\ laRow'[i].pc = "corpus" /\ laRow'[i].bloom = bloom
          /\ laRow'[i].heard = r.heard /\ Undelivered(laRow'[i])
      BY <2>3 DEF Undelivered
    <3>2. laAsk.corpus BY <1>3
    <3> HIDE DEF r
    <3> QED BY <1>1, <3>1, <3>2 DEF RowInv, RowSteps, Sound, Heard
  <2>6. RowsInStep' /\ RowsInv'
    <3>1. laRow'[i].pc # "index" BY <2>3
    <3> QED BY <1>1, <2>4, <2>5, <3>1, OneRowMoves
  <2> QED BY <1>1, <2>4, <2>6, RowRunsOn
<1> QED BY <1>2, <1>3

LEMMA CorpusSaysInv ==
    ASSUME LookupInv, NEW i \in DOMAIN laRow, NEW answer \in {"record", "nothing", "unreachable"},
           NEW v, answer = "record" => v \in RecordsFor(laRow[i].key), NEW source,
           CorpusSays(i, answer, v, source)
    PROVE  LookupInv'
<1> USE DEF LookupInv
<1> DEFINE r == laRow[i]
           key == r.key
           bloom == r.bloom
           d == CASE answer = "record" -> Decided(key, v, source, "corpus")
                  [] answer = "nothing" -> FilterDecision(key, bloom, source)
                  [] answer = "unreachable" -> UnreachableDecision(key, bloom, source)
<1>1. /\ i \in Running /\ laPc = "rows" /\ r.pc = "corpus"
      /\ laPc' = laPc /\ laAsk' = laAsk /\ laOut' = laOut
      /\ laAsk.corpus /\ bloom \in Opinions(laAsk.fresh)
  BY RunningIsInRows DEF CorpusSays, Running, RowsInv, RowInv
<1>2. Deliver(i, d, answer)
  BY DEF CorpusSays
<1>3. Sound(d, key, answer) /\ Heard(d, key, answer)
  <2>1. CASE answer = "record"
    <3> DEFINE e == Decided(key, v, source, "corpus")
    <3>1. /\ e.key = key /\ e.by = "corpus" /\ e.decision \in {"block", "allow", "unanalyzed"}
          /\ e.decision = "block" => e.lvl \in 0..Budget
      <4>1. v.lvl \in AllLevels BY <2>1 DEF RecordsFor, Verdicts
      <4> QED BY <4>1, DecidedIsSound
    <3>2. d = e BY <2>1
    <3> HIDE DEF d, e, key
    <3> QED BY <2>1, <3>1, <3>2 DEF Sound, Heard
  <2>2. CASE answer = "nothing"
    <3> DEFINE e == FilterDecision(key, bloom, source)
    <3>1. /\ e.key = key
          /\ bloom = "unknown" => e.decision = "unanalyzed" /\ e.by = "nobody"
          /\ bloom # "unknown" => e.decision \in {"block", "allow"} /\ e.by = "filter"
          /\ e.decision = "block" => e.lvl \in 0..Budget
      BY FilterSays
    <3>2. d = e BY <2>2
    <3>3. laAsk.fresh => bloom = "unknown"
      BY <1>1 DEF Opinions
    <3> HIDE DEF d, e, key, bloom
    <3> QED BY <2>2, <3>1, <3>2, <3>3 DEF Sound, Heard
  <2>3. CASE answer = "unreachable"
    <3> DEFINE e == Unavailable(key, source)
    <3>1. e.key = key /\ e.by = "nobody" /\ e.decision = "unavailable"
      BY EmptyIs DEF Unavailable
    <3>2. d = e BY <2>3 DEF UnreachableDecision
    <3> HIDE DEF d, e, key
    <3> QED BY <2>3, <3>1, <3>2 DEF Sound, Heard
  <2> QED BY <2>1, <2>2, <2>3
<1>4. laRow[i].pc # "decided"
  BY <1>1
<1> HIDE DEF d
<1> QED BY <1>1, <1>2, <1>3, <1>4, DeliverInv

LEMMA JoinInv ==
    ASSUME LookupInv, NEW i \in DOMAIN laRow, NEW panicked \in BOOLEAN, Join(i, panicked)
    PROVE  LookupInv'
<1> USE DEF LookupInv
<1> DEFINE r == laRow[i]
           heard == IF panicked THEN "panic" ELSE r.heard
<1>1. /\ i \in Running /\ laPc = "rows"
      /\ laPc' = laPc /\ laAsk' = laAsk
      /\ panicked \/ r.pc = "decided"
      /\ RowInv(r, laOut[i])
      /\ i \in DOMAIN laOut /\ r.pc # "done"
  BY RunningIsInRows DEF Join, RowsInv, Running, RowsInStep
<1>2. /\ laOut' = IF panicked THEN laOut ELSE [laOut EXCEPT ![i] = r.is]
      /\ laRow' = [laRow EXCEPT ![i] =
           [key |-> @.key, pc |-> "done", bloom |-> "unknown", heard |-> heard]]
  BY DEF Join, PositionOf
<1>3. laRow'[i] = [key |-> r.key, pc |-> "done", bloom |-> "unknown", heard |-> heard]
  <2> HIDE DEF heard
  <2> QED BY <1>2
<1>4. OnlyRow(i)
  <2> HIDE DEF heard
  <2> QED BY <1>1, <1>2 DEF OnlyRow
<1>5. laOut'[i] = IF panicked THEN laOut[i] ELSE r.is
  BY <1>1, <1>2
<1>6. RowInv(laRow[i], laOut[i])'
  <2>1. /\ laRow'[i].key = r.key /\ laRow'[i].pc = "done" /\ laRow'[i].heard = heard
        /\ Undelivered(laRow'[i])
    <3> HIDE DEF r, heard
    <3> QED BY <1>3 DEF Undelivered
  <2>2. CASE panicked
    <3>1. laOut'[i] = Unavailable(r.key, "none")
      BY <1>1, <1>5, <2>2 DEF RowInv
    <3>2. laOut'[i].key = r.key /\ laOut'[i].decision = "unavailable" /\ laOut'[i].by = "nobody"
      BY <3>1, EmptyIs DEF Unavailable
    <3> HIDE DEF r, heard
    <3> QED BY <1>1, <2>1, <3>2 DEF RowInv, RowSteps, Sound, Heard
  <2>3. CASE ~panicked
    <3>1. laOut'[i] = r.is /\ heard = r.heard /\ r.pc = "decided"
      BY <1>1, <1>5, <2>3
    <3>2. Sound(r.is, r.key, r.heard) /\ Heard(r.is, r.key, r.heard)
      BY <1>1, <3>1 DEF RowInv
    <3> HIDE DEF r, heard
    <3> QED BY <1>1, <2>1, <3>1, <3>2 DEF RowInv, RowSteps, Sound, Heard
  <2> QED BY <2>2, <2>3
<1>7. RowsInStep' /\ RowsInv'
  <2>1. laRow'[i].pc # "index" BY <1>3
  <2> HIDE DEF r
  <2> QED BY <1>1, <1>4, <1>6, <2>1, OneRowMoves
<1> QED BY <1>1, <1>4, <1>7, RowRunsOn

\* The answer is built when no row runs and none may start: then none is left, for the
\* first of those that missed could start.
LEMMA AnswerLookupInv ==
    ASSUME LookupInv, AnswerLookup
    PROVE  LookupInv'
<1> USE DEF LookupInv
<1>1. /\ laPc = "rows" /\ laPc' = "answered" /\ laAsk' = laAsk /\ laRow' = laRow /\ laOut' = laOut
      /\ Running = {} /\ \A i \in Misses : ~MayStart(i)
  BY DEF AnswerLookup
<1>2. Misses = {}
  <2> SUFFICES ASSUME Misses # {} PROVE FALSE
    OBVIOUS
  <2>1. PICK n \in Nat : DOMAIN laRow = 1..n
    BY DEF RowsInStep
  <2>2. Misses \in SUBSET Nat
    BY <2>1 DEF Misses
  <2>3. PICK i \in Misses : \A j \in Misses : i <= j
    BY <2>2, LeastOf
  <2>4. Cardinality(Running) < Concurrency
    BY <1>1, FS_EmptySet, LookupAssumption
  <2> QED BY <1>1, <2>3, <2>4 DEF MayStart
<1>3. \A i \in DOMAIN laRow : laRow[i].pc = "done"
  <2> SUFFICES ASSUME NEW i \in DOMAIN laRow PROVE laRow[i].pc = "done"
    OBVIOUS
  <2>1. laRow[i].pc \in RowSteps
    BY DEF RowsInv, RowInv
  <2>2. laRow[i].pc # "index"
    BY <1>1 DEF RowsInStep
  <2> QED BY <1>1, <1>2, <2>1, <2>2 DEF Misses, Running, RowSteps
<1>4. RowsInStep'
  BY <1>1, <1>3 DEF RowsInStep
<1>5. RowsInv' /\ FewRun'
  BY <1>1 DEF RowsInv, RowInv, Sound, Heard, FewRun, Running
<1> QED BY <1>4, <1>5

LEMMA LookupInitInv == LookupInit => LookupInv
<1> SUFFICES ASSUME LookupInit PROVE LookupInv
  OBVIOUS
<1>1. laPc = "new" /\ laRow = <<>> /\ laOut = <<>> /\ DOMAIN laRow = 1..0 /\ DOMAIN laOut = 1..0
  BY DEF LookupInit
<1>2. RowsInStep
  BY <1>1 DEF RowsInStep
<1>3. RowsInv
  BY <1>1 DEF RowsInv
<1>4. Running = {}
  BY <1>1 DEF Running
<1> QED BY <1>2, <1>3, <1>4, FS_EmptySet, LookupAssumption DEF LookupInv, FewRun

LEMMA LookupStepInv == LookupInv /\ [LookupNext]_lookupVars => LookupInv'
<1> SUFFICES ASSUME LookupInv, [LookupNext]_lookupVars PROVE LookupInv'
  OBVIOUS
<1>1. ASSUME NEW q \in Questions, NEW fresh \in BOOLEAN, NEW corpus \in BOOLEAN,
             AskLookup(q, fresh, corpus)
      PROVE  LookupInv'
  BY <1>1, AskLookupInv
<1>2. ASSUME NEW up \in BOOLEAN, NEW found \in [DOMAIN laRow -> Verdicts \cup {NoVerdict}],
             ReadIndex(up, found)
      PROVE  LookupInv'
  BY <1>2, ReadIndexInv
<1>3. ASSUME NEW i \in DOMAIN laRow, Start(i) PROVE LookupInv'
  BY <1>3, StartInv
<1>4. ASSUME NEW i \in DOMAIN laRow, NEW bloom \in {"unknown", "good", "bad"},
             AskFilters(i, bloom)
      PROVE  LookupInv'
  BY <1>4, AskFiltersInv
<1>5. ASSUME NEW i \in DOMAIN laRow, NEW v \in RecordsFor(laRow[i].key),
             NEW source \in {"replica", "primary"}, CorpusSays(i, "record", v, source)
      PROVE  LookupInv'
  BY <1>5, CorpusSaysInv
<1>6. ASSUME NEW i \in DOMAIN laRow, NEW source \in {"replica", "primary"},
             CorpusSays(i, "nothing", NoVerdict, source)
      PROVE  LookupInv'
  BY <1>6, CorpusSaysInv
<1>7. ASSUME NEW i \in DOMAIN laRow, CorpusSays(i, "unreachable", NoVerdict, "none")
      PROVE  LookupInv'
  BY <1>7, CorpusSaysInv
<1>8. ASSUME NEW i \in DOMAIN laRow, NEW panicked \in BOOLEAN, Join(i, panicked)
      PROVE  LookupInv'
  BY <1>8, JoinInv
<1>9. CASE AnswerLookup
  BY <1>9, AnswerLookupInv
<1>10. CASE UNCHANGED lookupVars
  BY <1>10 DEF lookupVars, LookupInv, RowsInStep, RowsInv, RowInv, Sound, Heard, FewRun, Running
<1> QED BY <1>1, <1>2, <1>3, <1>4, <1>5, <1>6, <1>7, <1>8, <1>9, <1>10 DEF LookupNext

\* The invariant of a lookup.
THEOREM LookupInvariant == LookupSpec => []LookupInv
<1> QED BY LookupInitInv, LookupStepInv, PTL DEF LookupSpec

LEMMA InvIsFaithful == LookupInv => LookupIsFaithful
<1> SUFFICES ASSUME LookupInv PROVE LookupIsFaithful
  OBVIOUS
<1> USE DEF LookupInv
<1>1. ASSUME NEW i \in DOMAIN laOut
      PROVE  /\ Sound(laOut[i], laRow[i].key, laRow[i].heard)
             /\ laRow[i].pc = "done" => Heard(laOut[i], laRow[i].key, laRow[i].heard)
  BY DEF RowsInStep, RowsInv, RowInv
<1>2. LookupTypeOK
  BY <1>1 DEF LookupTypeOK, RowsInStep, FewRun, Sound
<1>3. RowsAreTheirOwn /\ FreshSkipsFilters /\ CleanIsNeverBlocked /\ OutageIsNeverUnanalyzed
  BY <1>1 DEF RowsAreTheirOwn, FreshSkipsFilters, CleanIsNeverBlocked,
     OutageIsNeverUnanalyzed, Sound
<1>4. ReleaseHearsCorpus
  BY <1>1 DEF ReleaseHearsCorpus, Heard
<1>5. NoRowForgotten
  BY DEF RowsInStep, NoRowForgotten
<1> QED BY <1>2, <1>3, <1>4, <1>5 DEF LookupIsFaithful

\* LookupIsFaithful: the answer of a lookup of any number of keys, whatever the index, the
\* filters and the corpus say and whichever of its tasks panic.
THEOREM LookupsAreFaithful == LookupSpec => []LookupIsFaithful
<1> QED BY LookupInvariant, InvIsFaithful, PTL

----------------------------------------------------------------------------
(* An analyze request                                                      *)

RequestSteps == {"memory", "body", "bytes", "url", "purl", "refresh", "reconcile", "sample",
                 "admit", "done"}

Received(q) ==
    q = [pc |-> q.pc, ask |-> q.ask, end |-> q.end, d |-> q.d, follow |-> q.follow,
         run |-> q.run, current |-> q.current, probed |-> q.probed]

WholeAsk(ask) ==
    /\ ask = [q |-> ask.q, flags |-> ask.flags, body |-> ask.body, budget |-> ask.budget,
              follow |-> ask.follow]
    /\ ask.body \in Shas \cup NoBytes

\* What V1Analyze::parse has made sure of.
Parsed(ask) ==
    /\ Has(ask, "refresh") <=> ask.q.sha # <<>>
    /\ Has(ask, "refresh") => ask.q.url = <<>> /\ ask.q.purl = <<>> /\ Sole(ask.q.sha) \in Shas

\* What the bytes at hand are.
BytesAreAsked(ask) ==
    /\ ask.body \in Shas /\ ask.q.url = <<>>
    /\ Has(ask, "refresh") => ask.body = Sole(ask.q.sha)

Forced(ask) == ask.flags \cap {"full", "force", "refresh"} # {}

\* Where a request is, and what it has come by.
OnItsWay(q) ==
    /\ q.pc \in RequestSteps /\ Received(q) /\ WholeAsk(q.ask)
    /\ q.pc # "done" => Parsed(q.ask) /\ ~q.current /\ ~q.follow
    /\ q.pc = "bytes" => BytesAreAsked(q.ask)
    /\ q.pc \in {"url", "purl"} => q.ask.body = "none" /\ ~Has(q.ask, "refresh")
    /\ q.pc \in {"refresh", "reconcile", "sample"} =>
         q.ask.body = "none" /\ Has(q.ask, "refresh")
    /\ q.pc = "admit" =>
         /\ q.run \in {"bytes", "url", "purl"}
         /\ q.run = "bytes" => BytesAreAsked(q.ask)
         /\ q.run # "bytes" => q.ask.body = "none" /\ ~Has(q.ask, "refresh")
         /\ q.probed \/ Forced(q.ask)

\* What its end says.
EndsWell(q) ==
    /\ q.end = "known" =>
         /\ q.ask.body \in Shas => q.d.sha = q.ask.body
         /\ q.d.decision \in {"block", "allow"} \/ (Has(q.ask, "refresh") /\ q.d.by = "index")
         /\ Has(q.ask, "refresh") => q.current
    /\ q.end = "run" =>
         /\ q.run = "bytes" => BytesAreAsked(q.ask)
         /\ q.run # "bytes" => q.ask.body = "none" /\ ~Has(q.ask, "refresh")
    /\ q.end = "not_admitted" => q.probed \/ Forced(q.ask)

RequestInv(q) ==
    \/ q = [pc |-> "new", end |-> "none"]
    \/ OnItsWay(q) /\ (q.pc = "done" => EndsWell(q))

RequestsInv == arReq = [r \in Uploads |-> arReq[r]] /\ \A r \in Uploads : RequestInv(arReq[r])

\* Only an answered request has left a repair behind.
RepairsInv ==
    /\ arRepair \subseteq {r \in Uploads : arReq[r].pc = "done"} /\ IsFiniteSet(arRepair)
    /\ RepairsBounded

AnalyzeInv == RequestsInv /\ RepairsInv

LEMMA ParsedWhenAccepted ==
    ASSUME NEW ask \in Asks, Accepted(ask)
    PROVE  Parsed(ask) /\ WholeAsk(ask)
<1> DEFINE q == ask.q
           locators == {n \in {"purl", "url", "sha"} : q[n] # <<>>}
<1>1. WholeAsk(ask)
  BY AnalyzeAssumption DEF WholeAsk
<1>2. /\ Cardinality(locators) <= 1 /\ Len(q.sha) <= 1 /\ Parses(q.sha)
      /\ Has(ask, "refresh") <=> q.sha # <<>>
  BY DEF Accepted
<1>3. ASSUME NEW n \in {"purl", "url"}, q.sha # <<>>, q[n] # <<>> PROVE FALSE
  <2>1. {n, "sha"} \subseteq locators
    BY <1>3
  <2>2. IsFiniteSet({"purl", "url", "sha"}) /\ locators \subseteq {"purl", "url", "sha"}
    <3>1. IsFiniteSet({"purl"}) BY FS_Singleton
    <3>2. IsFiniteSet({"purl"} \cup {"url"}) BY <3>1, FS_AddElement
    <3>3. IsFiniteSet(({"purl"} \cup {"url"}) \cup {"sha"}) BY <3>2, FS_AddElement
    <3>4. ({"purl"} \cup {"url"}) \cup {"sha"} = {"purl", "url", "sha"} OBVIOUS
    <3> QED BY <3>3, <3>4
  <2>3. IsFiniteSet(locators) BY <2>2, FS_Subset
  <2>4. Cardinality({n, "sha"}) = 2
    <3>1. IsFiniteSet({n}) /\ Cardinality({n}) = 1 BY FS_Singleton
    <3>2. "sha" \notin {n} BY <1>3
    <3>3. Cardinality({n} \cup {"sha"}) = Cardinality({n}) + 1 BY <3>1, <3>2, FS_AddElement
    <3>4. {n} \cup {"sha"} = {n, "sha"} OBVIOUS
    <3> QED BY <3>1, <3>3, <3>4
  <2> HIDE DEF locators
  <2>5. Cardinality({n, "sha"}) <= Cardinality(locators) /\ Cardinality(locators) \in Nat
    BY <2>1, <2>3, FS_Subset, FS_CardinalityType
  <2> QED BY <1>2, <2>4, <2>5
<1>4. ASSUME q.sha # <<>> PROVE q.url = <<>> /\ q.purl = <<>> /\ Sole(q.sha) \in Shas
  <2>1. q.url = <<>> /\ q.purl = <<>>
    <3>1. q["url"] = <<>> /\ q["purl"] = <<>> BY <1>3, <1>4
    <3> QED BY <3>1
  <2>2. q.sha \in Seq(Shas \cup Invalid)
    BY AnalyzeAssumption
  <2>3. Len(q.sha) = 1 /\ 1 \in DOMAIN q.sha
    <3>1. Len(q.sha) # 0 /\ Len(q.sha) \in Nat /\ DOMAIN q.sha = 1..Len(q.sha)
      BY <1>4, <2>2, EmptySeq
    <3>2. Len(q.sha) <= 1 BY <1>2
    <3> DEFINE n == Len(q.sha)
    <3>3. n # 0 /\ n \in Nat /\ n <= 1 BY <3>1, <3>2
    <3> HIDE DEF n
    <3>4. n = 1 BY <3>3
    <3> QED BY <3>1, <3>4 DEF n
  <2>4. q.sha[1] \in Shas
    BY <1>2, <2>2, <2>3 DEF Parses
  <2> QED BY <2>1, <2>3, <2>4 DEF Sole
<1> QED BY <1>1, <1>2, <1>4 DEF Parsed

----------------------------------------------------------------------------
\* A step of one request.
OnlyRequest(r) ==
    /\ arReq' = [s \in Uploads |-> arReq'[s]]
    /\ \A s \in Uploads \ {r} : arReq'[s] = arReq[s]

LEMMA OneRequestMoves ==
    ASSUME AnalyzeInv, NEW r \in Uploads, OnlyRequest(r), RequestInv(arReq[r])',
           arReq[r].pc # "done", UNCHANGED <<arRepair, arPermits>>
    PROVE  AnalyzeInv'
<1>1. RequestsInv'
  <2>1. ASSUME NEW s \in Uploads, s # r PROVE RequestInv(arReq[s])'
    <3>1. arReq'[s] = arReq[s] BY <2>1 DEF OnlyRequest
    <3> QED BY <3>1 DEF AnalyzeInv, RequestsInv, RequestInv, OnItsWay, EndsWell
  <2> QED BY <2>1 DEF RequestsInv, OnlyRequest
<1>2. RepairsInv'
  <2>1. arRepair' \subseteq {s \in Uploads : arReq'[s].pc = "done"}
    BY DEF AnalyzeInv, RepairsInv, OnlyRequest
  <2> QED BY <2>1 DEF AnalyzeInv, RepairsInv, RepairsBounded
<1> QED BY <1>1, <1>2 DEF AnalyzeInv

LEMMA RequestGoes ==
    ASSUME RequestsInv, NEW r \in Uploads, Received(arReq[r]), NEW pc, Move(r, pc)
    PROVE  LET q == arReq[r] IN
           /\ OnlyRequest(r)
           /\ arReq'[r] = [pc |-> pc, ask |-> q.ask, end |-> q.end, d |-> q.d, follow |-> q.follow,
                           run |-> q.run, current |-> q.current, probed |-> q.probed]
<1> DEFINE q == arReq[r]
<1>1. arReq'[r] = [q EXCEPT !.pc = pc]
  BY DEF Move, RequestsInv
<1>2. OnlyRequest(r)
  BY DEF Move, RequestsInv, OnlyRequest
<1>3. Received(q) OBVIOUS
<1> HIDE DEF q
<1>4. arReq'[r] = [pc |-> pc, ask |-> q.ask, end |-> q.end, d |-> q.d, follow |-> q.follow,
                   run |-> q.run, current |-> q.current, probed |-> q.probed]
  BY <1>1, <1>3 DEF Received
<1> QED BY <1>2, <1>4 DEF q

LEMMA RequestEnds ==
    ASSUME RequestsInv, NEW r \in Uploads, Received(arReq[r]),
           NEW end, NEW d, NEW follow, Respond(r, end, d, follow)
    PROVE  LET q == arReq[r] IN
           /\ OnlyRequest(r)
           /\ arReq'[r] = [pc |-> "done", ask |-> q.ask, end |-> end, d |-> d, follow |-> follow,
                           run |-> q.run, current |-> q.current, probed |-> q.probed]
<1> DEFINE q == arReq[r]
<1>1. arReq'[r] = [q EXCEPT !.pc = "done", !.end = end, !.d = d, !.follow = follow]
  BY DEF Respond, RequestsInv
<1>2. OnlyRequest(r)
  BY DEF Respond, RequestsInv, OnlyRequest
<1>3. Received(q) OBVIOUS
<1> HIDE DEF q
<1>4. arReq'[r] = [pc |-> "done", ask |-> q.ask, end |-> end, d |-> d, follow |-> follow,
                   run |-> q.run, current |-> q.current, probed |-> q.probed]
  BY <1>1, <1>3 DEF Received
<1> QED BY <1>2, <1>4 DEF q

\* A request that is where `pc` says is not new.
LEMMA UnderWay ==
    ASSUME RequestsInv, NEW r \in Uploads, arReq[r].pc # "new"
    PROVE  /\ OnItsWay(arReq[r]) /\ Received(arReq[r])
           /\ arReq[r].pc = "done" => EndsWell(arReq[r])
BY DEF RequestsInv, RequestInv, OnItsWay

\* A refusal says nothing of the artifact.
LEMMA RefuseInv ==
    ASSUME AnalyzeInv, NEW r \in Uploads, arReq[r].pc \notin {"new", "done"}, NEW end,
           Refuse(r, end), end \notin {"known", "run", "not_admitted"},
           UNCHANGED <<arRepair, arPermits>>
    PROVE  AnalyzeInv'
<1> DEFINE q == arReq[r]
<1>1. OnItsWay(q) /\ Received(q) /\ RequestsInv
  BY UnderWay DEF AnalyzeInv
<1>2. /\ OnlyRequest(r)
      /\ arReq'[r] = [pc |-> "done", ask |-> q.ask, end |-> end, d |-> NoDecision, follow |-> FALSE,
                      run |-> q.run, current |-> q.current, probed |-> q.probed]
  BY <1>1, RequestEnds DEF Refuse
<1>3. RequestInv(arReq[r])'
  <2>1. WholeAsk(q.ask) BY <1>1 DEF OnItsWay
  <2> HIDE DEF q
  <2> QED BY <1>2, <2>1 DEF RequestInv, OnItsWay, EndsWell, Received, WholeAsk, RequestSteps
<1> QED BY <1>2, <1>3, OneRequestMoves

LEMMA ReceiveInv ==
    ASSUME AnalyzeInv, NEW r \in Uploads, NEW ask \in Asks, Receive(r, ask)
    PROVE  AnalyzeInv'
<1>1. WholeAsk(ask)
  BY AnalyzeAssumption DEF WholeAsk
<1>2. /\ arReq[r].pc = "new" /\ UNCHANGED <<arRepair, arPermits>>
      /\ OnlyRequest(r)
      /\ arReq'[r] =
           [pc |-> IF Accepted(ask) THEN "memory" ELSE "done", ask |-> ask,
            end |-> IF Accepted(ask) THEN "none" ELSE "bad_request", d |-> NoDecision,
            follow |-> FALSE, run |-> NoName, current |-> FALSE, probed |-> FALSE]
  BY DEF Receive, Rest, AnalyzeInv, RequestsInv, OnlyRequest
<1>3. RequestInv(arReq[r])'
  <2>1. CASE Accepted(ask)
    <3>1. Parsed(ask) BY <2>1, ParsedWhenAccepted
    <3> QED BY <1>1, <1>2, <2>1, <3>1
            DEF RequestInv, OnItsWay, EndsWell, Received, RequestSteps
  <2>2. CASE ~Accepted(ask)
    BY <1>1, <1>2, <2>2 DEF RequestInv, OnItsWay, EndsWell, Received, RequestSteps
  <2> QED BY <2>1, <2>2
<1> QED BY <1>2, <1>3, OneRequestMoves

LEMMA CheckRoomInv ==
    ASSUME AnalyzeInv, NEW r \in Uploads, CheckRoom(r)
    PROVE  AnalyzeInv'
<1> DEFINE q == arReq[r]
<1>1. /\ q.pc = "memory" /\ OnItsWay(q) /\ Received(q) /\ RequestsInv
      /\ UNCHANGED <<arRepair, arPermits>>
  BY UnderWay DEF CheckRoom, Rest, AnalyzeInv
<1>2. CASE Refuse(r, "over_memory")
  BY <1>1, <1>2, RefuseInv
<1>3. CASE Move(r, "body")
  <2>1. /\ OnlyRequest(r)
        /\ arReq'[r] = [pc |-> "body", ask |-> q.ask, end |-> q.end, d |-> q.d, follow |-> q.follow,
                        run |-> q.run, current |-> q.current, probed |-> q.probed]
    BY <1>1, <1>3, RequestGoes
  <2>2. RequestInv(arReq[r])'
    <3>1. WholeAsk(q.ask) /\ Parsed(q.ask) /\ ~q.current /\ ~q.follow BY <1>1 DEF OnItsWay
    <3> HIDE DEF q
    <3> QED BY <2>1, <3>1 DEF RequestInv, OnItsWay, EndsWell, Received, RequestSteps
  <2> QED BY <1>1, <2>1, <2>2, OneRequestMoves
<1> QED BY <1>2, <1>3 DEF CheckRoom

LEMMA ReadAndRouteInv ==
    ASSUME AnalyzeInv, NEW r \in Uploads, ReadAndRoute(r)
    PROVE  AnalyzeInv'
<1> DEFINE q == arReq[r]
           ask == q.ask
<1>1. /\ q.pc = "body" /\ OnItsWay(q) /\ Received(q) /\ RequestsInv
      /\ UNCHANGED <<arRepair, arPermits>>
      /\ WholeAsk(ask) /\ Parsed(ask) /\ ~q.current /\ ~q.follow
  BY UnderWay DEF ReadAndRoute, Rest, AnalyzeInv, OnItsWay
<1>2. /\ \/ \E end \in {"too_large", "timeout", "bad_request"} : Refuse(r, end)
         \/ ask.body \in Shas /\ ~RefusedWithBytes(ask) /\ Move(r, "bytes")
         \/ ask.body = "none" /\ ask.q.sha # <<>> /\ Move(r, "refresh")
         \/ ask.body = "none" /\ ask.q.sha = <<>> /\ Move(r, "url")
         \/ ask.body = "none" /\ ask.q.sha = <<>> /\ Move(r, "purl")
  <2> DEFINE b == ask.body
  <2>1. b \in Shas \cup NoBytes /\ Shas \cap NoBytes = {}
    BY <1>1, AnalyzeAssumption DEF WholeAsk
  <2>2. CASE b = "too_large"
    <3>1. Refuse(r, "too_large") BY <2>1, <2>2 DEF ReadAndRoute, NoBytes
    <3> QED BY <3>1
  <2>3. CASE b = "stalled"
    <3>1. Refuse(r, "timeout") BY <2>1, <2>3 DEF ReadAndRoute, NoBytes
    <3> QED BY <3>1
  <2>4. CASE b = "broken"
    <3>1. Refuse(r, "bad_request") BY <2>1, <2>4 DEF ReadAndRoute, NoBytes
    <3> QED BY <3>1
  <2>5. CASE b \in Shas
    <3>1. b \notin NoBytes BY <2>1, <2>5
    <3>2. IF RefusedWithBytes(ask) THEN Refuse(r, "bad_request") ELSE Move(r, "bytes")
      BY <2>5, <3>1 DEF ReadAndRoute, NoBytes
    <3> QED BY <2>5, <3>2
  <2>6. CASE b = "none"
    <3>1. b \notin Shas BY <2>1, <2>6 DEF NoBytes
    <3>2. ask.q.sha # <<>> => ask.q.url = <<>> /\ ask.q.purl = <<>> BY <1>1 DEF Parsed
    <3>3. CASE ask.q.sha # <<>>
      <4>1. Move(r, "refresh") BY <2>6, <3>1, <3>2, <3>3 DEF ReadAndRoute
      <4> QED BY <2>6, <3>3, <4>1
    <3>4. CASE ask.q.sha = <<>> /\ ask.q.url = <<>> /\ ask.q.purl = <<>>
      <4>1. Refuse(r, "bad_request") BY <2>6, <3>1, <3>4 DEF ReadAndRoute
      <4> QED BY <4>1
    <3>5. CASE ask.q.sha = <<>> /\ ~(ask.q.url = <<>> /\ ask.q.purl = <<>>)
      <4>1. Move(r, "url") \/ Move(r, "purl") BY <2>6, <3>1, <3>5 DEF ReadAndRoute
      <4> QED BY <2>6, <3>5, <4>1
    <3> QED BY <3>3, <3>4, <3>5
  <2> QED BY <2>1, <2>2, <2>3, <2>4, <2>5, <2>6 DEF NoBytes
<1>3. ASSUME NEW end \in {"too_large", "timeout", "bad_request"}, Refuse(r, end)
      PROVE  AnalyzeInv'
  BY <1>1, <1>3, RefuseInv
<1>4. ASSUME NEW pc \in {"bytes", "refresh", "url", "purl"}, Move(r, pc),
             pc = "bytes" => BytesAreAsked(ask),
             pc # "bytes" => ask.body = "none" /\ (Has(ask, "refresh") <=> pc = "refresh")
      PROVE  AnalyzeInv'
  <2>1. /\ OnlyRequest(r)
        /\ arReq'[r] = [pc |-> pc, ask |-> ask, end |-> q.end, d |-> q.d, follow |-> q.follow,
                        run |-> q.run, current |-> q.current, probed |-> q.probed]
    BY <1>1, <1>4, RequestGoes
  <2>2. RequestInv(arReq[r])'
    <3> HIDE DEF q, ask
    <3> QED BY <1>1, <1>4, <2>1 DEF RequestInv, OnItsWay, EndsWell, Received, RequestSteps
  <2> QED BY <1>1, <2>1, <2>2, OneRequestMoves
<1>5. ask.body \in Shas /\ ~RefusedWithBytes(ask) => BytesAreAsked(ask)
  BY DEF RefusedWithBytes, BytesAreAsked
<1>6. Has(ask, "refresh") <=> ask.q.sha # <<>>
  BY <1>1 DEF Parsed
<1> HIDE DEF q, ask
<1> QED BY <1>2, <1>3, <1>4, <1>5, <1>6

LEMMA AdmitAnalysisInv ==
    ASSUME AnalyzeInv, NEW r \in Uploads, AdmitAnalysis(r)
    PROVE  AnalyzeInv'
<1> DEFINE q == arReq[r]
<1>1. /\ q.pc = "admit" /\ OnItsWay(q) /\ Received(q) /\ RequestsInv
      /\ UNCHANGED <<arRepair, arPermits>>
  BY UnderWay DEF AdmitAnalysis, Rest, AnalyzeInv
<1>2. \E end \in {"not_admitted", "run"}, follow \in BOOLEAN : Respond(r, end, NoDecision, follow)
  BY DEF AdmitAnalysis, RefusalNamesFollow
<1>3. PICK end \in {"not_admitted", "run"}, follow \in BOOLEAN : Respond(r, end, NoDecision, follow)
  BY <1>2
<1>4. /\ OnlyRequest(r)
      /\ arReq'[r] = [pc |-> "done", ask |-> q.ask, end |-> end, d |-> NoDecision,
                      follow |-> follow, run |-> q.run, current |-> q.current, probed |-> q.probed]
  BY <1>1, <1>3, RequestEnds
<1>5. RequestInv(arReq[r])'
  <2> HIDE DEF q
  <2> QED BY <1>1, <1>4 DEF RequestInv, OnItsWay, EndsWell, Received, RequestSteps
<1> QED BY <1>1, <1>4, <1>5, OneRequestMoves

LEMMA GradeAnswers ==
    ASSUME NEW key, NEW v, v.lvl \in AllLevels, v.lvl # Manual, NEW source, NEW by
    PROVE  Decided(key, v, source, by).decision \in {"block", "allow"}
BY DecidedIsSound

LEMMA RefreshLocalInv ==
    ASSUME AnalyzeInv, NEW r \in Uploads, NEW held, RefreshLocal(r, held)
    PROVE  AnalyzeInv'
<1> DEFINE q == arReq[r]
           ask == q.ask
<1>1. /\ q.pc = "refresh" /\ OnItsWay(q) /\ Received(q) /\ RequestsInv
      /\ UNCHANGED <<arRepair, arPermits>>
      /\ WholeAsk(ask) /\ Parsed(ask) /\ ~q.current /\ ~q.follow
      /\ ask.body = "none" /\ Has(ask, "refresh")
  BY UnderWay DEF RefreshLocal, Rest, AnalyzeInv, OnItsWay
<1>2. "none" \notin Shas
  BY AnalyzeAssumption DEF NoBytes
<1>3. CASE ~Has(ask, "full") /\ held # NoVerdict
  <2> DEFINE key == [sha |-> held.sha, purl |-> NoName, url |-> NoName]
             d == Decided(key, held, "index", "index")
  <2>1. arReq' = [arReq EXCEPT ![r] =
          [@ EXCEPT !.pc = "done", !.end = "known", !.current = TRUE, !.follow = FALSE, !.d = d]]
    BY <1>3 DEF RefreshLocal
  <2>2. d.by = "index" BY DEF Decided
  <2> HIDE DEF d
  <2>3. OnlyRequest(r)
    BY <1>1, <2>1 DEF OnlyRequest, RequestsInv
  <2>4. arReq'[r] =
          [q EXCEPT !.pc = "done", !.end = "known", !.current = TRUE, !.follow = FALSE, !.d = d]
    BY <1>1, <2>1 DEF RequestsInv
  <2> HIDE DEF q
  <2>5. arReq'[r] = [pc |-> "done", ask |-> ask, end |-> "known", d |-> d, follow |-> FALSE,
                     run |-> q.run, current |-> TRUE, probed |-> q.probed]
    BY <1>1, <2>4 DEF Received
  <2>6. RequestInv(arReq[r])'
    <3> HIDE DEF ask
    <3> QED BY <1>1, <1>2, <2>2, <2>5 DEF RequestInv, OnItsWay, EndsWell, Received, RequestSteps
  <2> QED BY <1>1, <2>3, <2>6, OneRequestMoves DEF q
<1>4. CASE ~(~Has(ask, "full") /\ held # NoVerdict)
  <2>1. Move(r, "reconcile") \/ Refuse(r, "unavailable")
    BY <1>4 DEF RefreshLocal
  <2>2. CASE Refuse(r, "unavailable")
    BY <1>1, <2>2, RefuseInv
  <2>3. CASE Move(r, "reconcile")
    <3>1. /\ OnlyRequest(r)
          /\ arReq'[r] = [pc |-> "reconcile", ask |-> ask, end |-> q.end, d |-> q.d,
                          follow |-> q.follow, run |-> q.run, current |-> q.current,
                          probed |-> q.probed]
      BY <1>1, <2>3, RequestGoes
    <3>2. RequestInv(arReq[r])'
      <4> HIDE DEF q, ask
      <4> QED BY <1>1, <3>1 DEF RequestInv, OnItsWay, EndsWell, Received, RequestSteps
    <3> QED BY <1>1, <3>1, <3>2, OneRequestMoves
  <2> QED BY <2>1, <2>2, <2>3
<1> QED BY <1>3, <1>4

\* What is known of an upload is about its digest.
LEMMA KnownIsOfTheKey ==
    ASSUME NEW key, NEW fresh, NEW corpus, NEW d \in MayDecide(key, fresh, corpus)
    PROVE  /\ d.decision \in {"block", "allow", "unanalyzed", "unavailable"}
           /\ key.sha \in Shas /\ key.purl = NoName => d.sha = key.sha
<1>1. ASSUME NEW v \in HeldFor(key), d = Decided(key, v, "index", "index")
      PROVE  /\ d.decision \in {"block", "allow", "unanalyzed"}
             /\ key.sha \in Shas /\ key.purl = NoName => d.sha = key.sha
  <2>1. v.lvl \in AllLevels /\ (key.sha # NoName => v.sha = key.sha)
    BY DEF HeldFor, Verdicts
  <2>2. d.decision \in {"block", "allow", "unanalyzed"} /\ d.sha = v.sha
    BY <1>1, <2>1, DecidedIsSound
  <2> QED BY <2>1, <2>2, LookupAssumption
<1>2. ASSUME NEW v \in RecordsFor(key), d = Decided(key, v, "primary", "corpus")
      PROVE  /\ d.decision \in {"block", "allow", "unanalyzed"}
             /\ key.sha \in Shas /\ key.purl = NoName => d.sha = key.sha
  <2>1. v.lvl \in AllLevels /\ (key.sha # NoName /\ key.purl = NoName => v.sha = key.sha)
    BY DEF RecordsFor, Verdicts
  <2>2. d.decision \in {"block", "allow", "unanalyzed"} /\ d.sha = v.sha
    BY <1>2, <2>1, DecidedIsSound
  <2> QED BY <2>1, <2>2, LookupAssumption
<1>3. ASSUME NEW source, d = Unavailable(key, source)
      PROVE  d.decision = "unavailable" /\ d.sha = key.sha
  BY <1>3, EmptyIs DEF Unavailable
<1>4. ASSUME NEW bloom, NEW source, d = FilterDecision(key, bloom, source)
      PROVE  d.decision \in {"block", "allow", "unanalyzed"} /\ d.sha = key.sha
  BY <1>4, FilterSays
<1>5. \/ d = Unavailable(key, "none")
      \/ \E v \in HeldFor(key) : d = Decided(key, v, "index", "index")
      \/ \E bloom \in Opinions(fresh) :
           \/ d = FilterDecision(key, bloom, "bloom") \/ d = FilterDecision(key, bloom, "primary")
           \/ \E v \in RecordsFor(key) : d = Decided(key, v, "primary", "corpus")
           \/ d = Unavailable(key, "none")
  BY Zenon DEF MayDecide, UnreachableDecision
<1> QED BY <1>1, <1>2, <1>3, <1>4, <1>5

LEMMA PreflightInv ==
    ASSUME AnalyzeInv, NEW r \in Uploads, NEW d, Preflight(r, d)
    PROVE  AnalyzeInv'
<1> DEFINE q == arReq[r]
           ask == q.ask
<1>1. /\ q.pc \in {"bytes", "url", "purl"} /\ OnItsWay(q) /\ Received(q) /\ RequestsInv
      /\ WholeAsk(ask) /\ Parsed(ask) /\ ~q.current /\ ~q.follow
  BY UnderWay DEF Preflight, AnalyzeInv, OnItsWay
<1>2. /\ q.pc = "bytes" => BytesAreAsked(ask)
      /\ q.pc # "bytes" => ask.body = "none" /\ ~Has(ask, "refresh")
  BY <1>1 DEF OnItsWay
<1>3. CASE Probes(r) /\ IsAnswerable(d)
  <2>1. /\ d \in MayDecide(KeyOf(r), Has(ask, "fresh"), arServer.corpus)
        /\ Respond(r, "known", d, FALSE) /\ Repair(r)
    BY <1>3 DEF Preflight
  <2>2. /\ OnlyRequest(r)
        /\ arReq'[r] = [pc |-> "done", ask |-> ask, end |-> "known", d |-> d, follow |-> FALSE,
                        run |-> q.run, current |-> q.current, probed |-> q.probed]
    BY <1>1, <2>1, RequestEnds
  <2>3. d.decision \in {"block", "allow"}
    BY <1>3, <2>1, KnownIsOfTheKey DEF IsAnswerable
  <2>4. ~Has(ask, "refresh")
    BY <1>3 DEF Probes, Has
  <2>5. ask.body \in Shas => d.sha = ask.body
    <3>1. ask.body \in Shas => q.pc = "bytes"
      BY <1>2, AnalyzeAssumption DEF NoBytes
    <3>2. q.pc = "bytes" => KeyOf(r) = [sha |-> ask.body, purl |-> NoName, url |-> NoName]
      BY DEF KeyOf, UploadKey
    <3>3. q.pc = "bytes" /\ ask.body \in Shas => d.sha = KeyOf(r).sha /\ KeyOf(r).sha = ask.body
      BY <2>1, <3>2, KnownIsOfTheKey
    <3> QED BY <3>1, <3>3
  <2>6. RequestInv(arReq[r])'
    <3> HIDE DEF q, ask
    <3> QED BY <1>1, <2>2, <2>3, <2>4, <2>5
            DEF RequestInv, OnItsWay, EndsWell, Received, RequestSteps
  <2>7. RequestsInv'
    <3>1. ASSUME NEW s \in Uploads, s # r PROVE RequestInv(arReq[s])'
      <4>1. arReq'[s] = arReq[s] BY <2>2, <3>1 DEF OnlyRequest
      <4> QED BY <1>1, <4>1 DEF RequestsInv, RequestInv, OnItsWay, EndsWell
    <3> QED BY <2>2, <2>6, <3>1 DEF RequestsInv, OnlyRequest
  <2>8. RepairsInv'
    <3>1. r \notin arRepair /\ IsFiniteSet(arRepair) /\ RepairsBounded
      BY <1>1 DEF AnalyzeInv, RepairsInv
    <3>2. arRepair' \subseteq {s \in Uploads : arReq'[s].pc = "done"}
      BY <2>1, <2>2 DEF AnalyzeInv, RepairsInv, OnlyRequest, Repair
    <3>3. CASE arRepair' = arRepair \cup {r} /\ TakePermit /\ arPermits > 0
      <4>1. IsFiniteSet(arRepair') /\ Cardinality(arRepair') = Cardinality(arRepair) + 1
        BY <3>1, <3>3, FS_AddElement
      <4>2. Cardinality(arRepair) \in Nat
        BY <3>1, FS_CardinalityType
      <4>3. arPermits' = arPermits - 1
        BY <3>3 DEF TakePermit
      <4> QED BY <3>1, <3>2, <3>3, <4>1, <4>2, <4>3, AnalyzeAssumption
              DEF RepairsInv, RepairsBounded
    <3>4. CASE UNCHANGED <<arRepair, arPermits>>
      BY <3>1, <3>2, <3>4 DEF RepairsInv, RepairsBounded
    <3> QED BY <2>1, <3>3, <3>4 DEF Repair
  <2> QED BY <2>7, <2>8 DEF AnalyzeInv
<1>4. CASE ~(Probes(r) /\ IsAnswerable(d))
  <2>1. /\ arReq' =
              IF Probes(r)
              THEN [arReq EXCEPT ![r].pc = "admit", ![r].probed = TRUE, ![r].run = q.pc]
              ELSE [arReq EXCEPT ![r].pc = "admit", ![r].run = q.pc]
        /\ UNCHANGED <<arRepair, arPermits>>
    BY <1>4 DEF Preflight
  <2>2. OnlyRequest(r)
    BY <1>1, <2>1 DEF OnlyRequest, RequestsInv
  <2>3. arReq'[r] = [pc |-> "admit", ask |-> ask, end |-> q.end, d |-> q.d, follow |-> q.follow,
                     run |-> q.pc, current |-> q.current,
                     probed |-> IF Probes(r) THEN TRUE ELSE q.probed]
    <3>1. CASE Probes(r)
      <4>1. arReq'[r] = [q EXCEPT !.pc = "admit", !.probed = TRUE, !.run = q.pc]
        BY <1>1, <2>1, <3>1 DEF RequestsInv
      <4> HIDE DEF q
      <4> QED BY <1>1, <3>1, <4>1 DEF Received
    <3>2. CASE ~Probes(r)
      <4>1. arReq'[r] = [q EXCEPT !.pc = "admit", !.run = q.pc]
        BY <1>1, <2>1, <3>2 DEF RequestsInv
      <4> HIDE DEF q
      <4> QED BY <1>1, <3>2, <4>1 DEF Received
    <3> QED BY <3>1, <3>2
  <2>4. Probes(r) \/ Forced(ask)
    BY DEF Probes, Forced
  <2>5. RequestInv(arReq[r])'
    <3> HIDE DEF q, ask
    <3> QED BY <1>1, <1>2, <2>3, <2>4
            DEF RequestInv, OnItsWay, EndsWell, Received, RequestSteps
  <2> QED BY <1>1, <2>1, <2>2, <2>5, OneRequestMoves
<1> QED BY <1>3, <1>4

LEMMA RepairedInv ==
    ASSUME AnalyzeInv, NEW r \in Uploads, Repaired(r)
    PROVE  AnalyzeInv'
<1>1. /\ r \in arRepair /\ IsFiniteSet(arRepair) /\ RepairsBounded
      /\ arRepair' = arRepair \ {r} /\ arReq' = arReq
      /\ arPermits' = IF arPermits < MaxRepairs THEN arPermits + 1 ELSE arPermits
  BY DEF Repaired, AnalyzeInv, RepairsInv
<1>2. /\ IsFiniteSet(arRepair') /\ Cardinality(arRepair') = Cardinality(arRepair) - 1
      /\ Cardinality(arRepair) \in Nat
  BY <1>1, FS_RemoveElement, FS_CardinalityType
<1>3. Cardinality(arRepair') \in Nat
  BY <1>2, FS_CardinalityType
<1>4. RepairsBounded'
  BY <1>1, <1>2, <1>3, AnalyzeAssumption DEF RepairsBounded
<1> QED BY <1>1, <1>2, <1>4
        DEF AnalyzeInv, RequestsInv, RequestInv, OnItsWay, EndsWell, RepairsInv

LEMMA ReconcileInv ==
    ASSUME AnalyzeInv, NEW r \in Uploads, NEW v \in Verdicts \cup {NoVerdict},
           NEW traits \in {"ours", "others"}, Reconcile(r, v, traits)
    PROVE  AnalyzeInv'
<1> DEFINE q == arReq[r]
           ask == q.ask
<1>1. /\ q.pc = "reconcile" /\ OnItsWay(q) /\ Received(q) /\ RequestsInv
      /\ UNCHANGED <<arRepair, arPermits>>
      /\ WholeAsk(ask) /\ Parsed(ask) /\ ~q.current /\ ~q.follow
      /\ ask.body = "none" /\ Has(ask, "refresh")
  BY UnderWay DEF Reconcile, Rest, AnalyzeInv, OnItsWay
<1>2. "none" \notin Shas
  BY AnalyzeAssumption DEF NoBytes
<1>3. CASE ~Has(ask, "full") /\ v # NoVerdict /\ SameAnalyzer(v, traits)
  <2> DEFINE key == [sha |-> RefreshSha(r), purl |-> NoName, url |-> NoName]
             d == Decided(key, v, "primary", "corpus")
  <2>1. traits = "ours" /\ d.decision \in {"block", "allow"}
    <3>1. v.lvl \in AllLevels /\ v.lvl # Manual /\ traits = "ours"
      BY <1>3 DEF SameAnalyzer, Verdicts
    <3> QED BY <3>1, GradeAnswers
  <2>2. arReq' = [arReq EXCEPT ![r] =
          [@ EXCEPT !.pc = "done", !.end = "known", !.current = TRUE, !.follow = TRUE, !.d = d]]
    <3>1. (traits = "ours") = TRUE BY <2>1
    <3> QED BY <1>3, <3>1 DEF Reconcile
  <2> HIDE DEF d
  <2>3. OnlyRequest(r)
    BY <1>1, <2>2 DEF OnlyRequest, RequestsInv
  <2>4. arReq'[r] =
          [q EXCEPT !.pc = "done", !.end = "known", !.current = TRUE, !.follow = TRUE, !.d = d]
    BY <1>1, <2>2 DEF RequestsInv
  <2> HIDE DEF q
  <2>5. arReq'[r] = [pc |-> "done", ask |-> ask, end |-> "known", d |-> d, follow |-> TRUE,
                     run |-> q.run, current |-> TRUE, probed |-> q.probed]
    BY <1>1, <2>4 DEF Received
  <2>6. RequestInv(arReq[r])'
    <3> HIDE DEF ask
    <3> QED BY <1>1, <1>2, <2>1, <2>5 DEF RequestInv, OnItsWay, EndsWell, Received, RequestSteps
  <2> QED BY <1>1, <2>3, <2>6, OneRequestMoves DEF q
<1>4. CASE ~(~Has(ask, "full") /\ v # NoVerdict /\ SameAnalyzer(v, traits))
  <2>1. Move(r, "sample")
    BY <1>4 DEF Reconcile
  <2>2. /\ OnlyRequest(r)
        /\ arReq'[r] = [pc |-> "sample", ask |-> ask, end |-> q.end, d |-> q.d,
                        follow |-> q.follow, run |-> q.run, current |-> q.current,
                        probed |-> q.probed]
    BY <1>1, <2>1, RequestGoes
  <2>3. RequestInv(arReq[r])'
    <3> HIDE DEF q, ask
    <3> QED BY <1>1, <2>2 DEF RequestInv, OnItsWay, EndsWell, Received, RequestSteps
  <2> QED BY <1>1, <2>2, <2>3, OneRequestMoves
<1> QED BY <1>3, <1>4

LEMMA FetchSampleInv ==
    ASSUME AnalyzeInv, NEW r \in Uploads, NEW sha \in Shas \cup {NoName}, FetchSample(r, sha)
    PROVE  AnalyzeInv'
<1> DEFINE q == arReq[r]
           ask == q.ask
<1>1. /\ q.pc = "sample" /\ OnItsWay(q) /\ Received(q) /\ RequestsInv
      /\ UNCHANGED <<arRepair, arPermits>>
      /\ WholeAsk(ask) /\ Parsed(ask) /\ ~q.current /\ ~q.follow
      /\ ask.body = "none" /\ Has(ask, "refresh") /\ ask.q.url = <<>>
  BY UnderWay DEF FetchSample, Rest, AnalyzeInv, OnItsWay, Parsed
<1>2. CASE sha = NoName
  <2>1. Refuse(r, "unavailable") BY <1>2 DEF FetchSample
  <2> QED BY <1>1, <2>1, RefuseInv
<1>3. CASE sha # NoName /\ ~RightBytes(r, sha)
  <2>1. Refuse(r, "bad_gateway") BY <1>3 DEF FetchSample
  <2> QED BY <1>1, <2>1, RefuseInv
<1>4. CASE sha # NoName /\ RightBytes(r, sha) /\ (arServer.startup = "failed" \/ arServer.over)
  <2>1. Respond(r, "not_admitted", NoDecision, FALSE)
    BY <1>4 DEF FetchSample, Refuse
  <2>2. /\ OnlyRequest(r)
        /\ arReq'[r] = [pc |-> "done", ask |-> ask, end |-> "not_admitted", d |-> NoDecision,
                        follow |-> FALSE, run |-> q.run, current |-> q.current,
                        probed |-> q.probed]
    <3>1. RequestsInv /\ Received(arReq[r]) BY <1>1
    <3> QED BY <2>1, <3>1, RequestEnds
  <2>3. Forced(ask)
    BY <1>1 DEF Forced, Has
  <2>4. RequestInv(arReq[r])'
    <3> HIDE DEF q, ask
    <3> QED BY <1>1, <2>2, <2>3 DEF RequestInv, OnItsWay, EndsWell, Received, RequestSteps
  <2> QED BY <1>1, <2>2, <2>4, OneRequestMoves
<1>5. CASE sha # NoName /\ RightBytes(r, sha) /\ ~(arServer.startup = "failed" \/ arServer.over)
  <2>1. sha = Sole(ask.q.sha) /\ sha \in Shas
    BY <1>5 DEF RightBytes, RefreshSha
  <2> DEFINE fetched == [arReq[r].ask EXCEPT !.body = sha]
  <2>2. arReq' = [arReq EXCEPT ![r] = [@ EXCEPT !.pc = "bytes", !.ask = fetched]]
    BY <1>5 DEF FetchSample
  <2> DEFINE new == [q |-> ask.q, flags |-> ask.flags, body |-> sha, budget |-> ask.budget,
                     follow |-> ask.follow]
  <2>3. fetched = new
    <3>1. WholeAsk(ask) /\ fetched = [ask EXCEPT !.body = sha] BY <1>1
    <3> HIDE DEF ask, fetched
    <3> QED BY <3>1 DEF WholeAsk
  <2>4. WholeAsk(new) /\ Parsed(new) /\ BytesAreAsked(new)
    <3> HIDE DEF ask
    <3> QED BY <1>1, <2>1 DEF WholeAsk, Parsed, BytesAreAsked, Has
  <2> HIDE DEF fetched, new
  <2>5. OnlyRequest(r)
    BY <1>1, <2>2 DEF OnlyRequest, RequestsInv
  <2>6. arReq'[r] = [q EXCEPT !.pc = "bytes", !.ask = fetched]
    BY <1>1, <2>2 DEF RequestsInv
  <2> HIDE DEF q
  <2>7. arReq'[r] = [pc |-> "bytes", ask |-> new, end |-> q.end, d |-> q.d,
                     follow |-> q.follow, run |-> q.run, current |-> q.current,
                     probed |-> q.probed]
    BY <1>1, <2>3, <2>6 DEF Received
  <2>8. RequestInv(arReq[r])'
    <3> HIDE DEF ask
    <3> QED BY <1>1, <2>4, <2>7 DEF RequestInv, OnItsWay, EndsWell, Received, RequestSteps
  <2> QED BY <1>1, <2>5, <2>8, OneRequestMoves DEF q
<1> QED BY <1>2, <1>3, <1>4, <1>5

LEMMA AnalyzeInitInv == AnalyzeInit => AnalyzeInv
<1> SUFFICES ASSUME AnalyzeInit PROVE AnalyzeInv
  OBVIOUS
<1>1. RequestsInv
  BY DEF AnalyzeInit, RequestsInv, RequestInv
<1>2. RepairsInv
  BY FS_EmptySet, AnalyzeAssumption DEF AnalyzeInit, RepairsInv, RepairsBounded
<1> QED BY <1>1, <1>2 DEF AnalyzeInv

LEMMA AnalyzeStepInv == AnalyzeInv /\ [AnalyzeNext]_analyzeVars => AnalyzeInv'
<1> SUFFICES ASSUME AnalyzeInv, [AnalyzeNext]_analyzeVars PROVE AnalyzeInv'
  OBVIOUS
<1>1. CASE UNCHANGED <<arReq, arRepair, arPermits>>
  BY <1>1 DEF AnalyzeInv, RequestsInv, RequestInv, OnItsWay, EndsWell, RepairsInv, RepairsBounded
<1>2. CASE ServerMoves \/ UNCHANGED analyzeVars
  BY <1>1, <1>2 DEF ServerMoves, analyzeVars
<1>3. ASSUME NEW r \in Uploads, NEW ask \in Asks, Receive(r, ask) PROVE AnalyzeInv'
  BY <1>3, ReceiveInv
<1>4. ASSUME NEW r \in Uploads,
             CheckRoom(r) \/ ReadAndRoute(r) \/ AdmitAnalysis(r) \/ Repaired(r)
      PROVE  AnalyzeInv'
  BY <1>4, CheckRoomInv, ReadAndRouteInv, AdmitAnalysisInv, RepairedInv
<1>5. ASSUME NEW r \in Uploads, NEW d, Preflight(r, d) PROVE AnalyzeInv'
  BY <1>5, PreflightInv
<1>6. ASSUME NEW r \in Uploads, NEW v \in Verdicts \cup {NoVerdict}, RefreshLocal(r, v)
      PROVE  AnalyzeInv'
  BY <1>6, RefreshLocalInv
<1>7. ASSUME NEW r \in Uploads, NEW v \in Verdicts \cup {NoVerdict},
             NEW traits \in {"ours", "others"}, Reconcile(r, v, traits)
      PROVE  AnalyzeInv'
  BY <1>7, ReconcileInv
<1>8. ASSUME NEW r \in Uploads, NEW sha \in Shas \cup {NoName}, FetchSample(r, sha)
      PROVE  AnalyzeInv'
  BY <1>8, FetchSampleInv
<1> QED BY <1>2, <1>3, <1>4, <1>5, <1>6, <1>7, <1>8 DEF AnalyzeNext

\* The invariant of the analyze requests.
THEOREM AnalyzeInvariant == AnalyzeSpec => []AnalyzeInv
<1> QED BY AnalyzeInitInv, AnalyzeStepInv, PTL DEF AnalyzeSpec

LEMMA AnswersWhenInv == AnalyzeInv => AnswersAreAboutTheAsked
<1> SUFFICES ASSUME AnalyzeInv PROVE AnswersAreAboutTheAsked
  OBVIOUS
<1>1. ASSUME NEW r \in Uploads, arReq[r].pc = "done" PROVE EndsWell(arReq[r])
  BY <1>1 DEF AnalyzeInv, RequestsInv, RequestInv
<1>2. UploadJudgedByItsDigest /\ OnlyAnswersStandIn
  BY <1>1 DEF UploadJudgedByItsDigest, OnlyAnswersStandIn, Ended, EndsWell
<1>3. RefusedOnlyForWork
  BY <1>1 DEF RefusedOnlyForWork, Ended, EndsWell, Forced
<1>4. OneArtifactRuns
  BY <1>1 DEF OneArtifactRuns, Ended, EndsWell, BytesAreAsked
<1>5. RefreshIsCurrent
  BY <1>1 DEF RefreshIsCurrent, EndsWell, BytesAreAsked, RefreshSha
<1>6. RepairsBounded
  BY DEF AnalyzeInv, RepairsInv
<1> QED BY <1>2, <1>3, <1>4, <1>5, <1>6 DEF AnswersAreAboutTheAsked

\* AnswersAreAboutTheAsked: any number of requests, whatever they ask and are told.
THEOREM AnswersAreHonest == AnalyzeSpec => []AnswersAreAboutTheAsked
<1> QED BY AnalyzeInvariant, AnswersWhenInv, PTL

----------------------------------------------------------------------------
(* A streamed answer                                                      *)

Fields == {"pc", "ask", "status", "filed", "queue", "got", "line", "closed", "left"}

Caller(me) == DOMAIN me = Fields /\ me = [f \in DOMAIN me |-> me[f]]

\* The lines a stream has before the run is over, and those it may have after.
Early(a) == {ProgressFrame(a)}
Told(a) == Early(a) \cup (IF Published THEN {LastLine(a)} ELSE {})

\* A last line is the last; here is one.
NoneAfterLast(s) == \A i \in 1..Len(s) - 1 : s[i].kind = "progress"
HasLast(s) == s # <<>> /\ s[Len(s)].kind # "progress"

LinesInv(me) ==
    /\ me.got \in Seq(Told(me.ask)) /\ me.queue \in Seq(Told(me.ask))
    /\ NoneAfterLast(me.got) /\ NoneAfterLast(me.queue)
    /\ me.queue # <<>> => me.got \in Seq(Early(me.ask))
    /\ me.pc \in {"waiting", "progress", "last"} =>
         me.got \in Seq(Early(me.ask)) /\ me.queue \in Seq(Early(me.ask))
    /\ me.pc = "progress" => me.line = <<ProgressFrame(me.ask)>>
    /\ me.pc = "last" => me.line = <<LastLine(me.ask)>>
    /\ me.pc = "answered" => me.queue = <<>> /\ (saRun = Report => HasLast(me.got))
    /\ me.pc = "ended" /\ ~me.left =>
         HasLast(me.queue) \/ (me.queue = <<>> /\ HasLast(me.got))
    /\ me.closed => HasLast(me.got)

StageInv(me) ==
    /\ me.pc \in {"new", "grace", "answered", "waiting", "progress", "last", "ended"}
    /\ Caller(me) /\ me.closed \in BOOLEAN /\ me.left \in BOOLEAN
    /\ me.pc \in {"new", "grace"} =>
         me.got = <<>> /\ me.queue = <<>> /\ me.status = 0 /\ ~me.left /\ ~me.closed
    /\ me.pc \in {"waiting", "progress", "last"} => me.status = 200 /\ ~me.closed
    /\ me.pc \in {"last", "answered"} => Published
    /\ me.pc = "ended" /\ ~me.left => Published
    /\ me.pc = "answered" => me.status = saRun /\ ~me.left
    /\ me.status = 200 => me.filed = FiledUnder(me.ask)

CallerInv(me) == StageInv(me) /\ LinesInv(me)

StreamInv ==
    /\ saRun \in {0} \cup Statuses
    /\ saCaller = [c \in Riders |-> saCaller[c]]
    /\ \A c \in Riders : CallerInv(saCaller[c])
    /\ WaitedForIsWanted

LEMMA LastLineIs ==
    ASSUME NEW a
    PROVE  /\ LastLine(a).kind # "progress" /\ ProgressFrame(a).kind = "progress"
           /\ LastLine(a) # ProgressFrame(a)
           /\ LastLine(a).name \in {a.name.asked, "null"} /\ ProgressFrame(a).name = a.name.asked
           /\ saRun = Report => OfReport(a) = LastLine(a)
           /\ saRun = 429 => LastLine(a).kind = "refused"
           /\ saRun \notin {Report, 429} => LastLine(a).reason = ReasonOf(saRun)
BY DEF LastLine, ProgressFrame, Frame, OfReport, Unanswered, InDecision, Report

LEMMA EarlyIsTold ==
    ASSUME NEW a, NEW s \in Seq(Early(a))
    PROVE  s \in Seq(Told(a)) /\ NoneAfterLast(s) /\ ~HasLast(s)
<1>1. s \in Seq(Told(a))
  BY SeqMonotonic DEF Told
<1>2. \A i \in 1..Len(s) : s[i].kind = "progress"
  BY LastLineIs, ElementOfSeq DEF Early
<1>3. Len(s) \in Nat /\ (s # <<>> => Len(s) \in Nat \ {0})
  BY LenProperties, EmptySeq
<1> QED BY <1>1, <1>2, <1>3 DEF NoneAfterLast, HasLast

LEMMA NothingIsSaid ==
    ASSUME NEW a
    PROVE  <<>> \in Seq(Early(a)) /\ <<>> \in Seq(Told(a)) /\ NoneAfterLast(<<>>)
BY EmptySeq, EarlyIsTold

\* A line of one element.
LEMMA OneLine ==
    ASSUME NEW S, NEW x \in S
    PROVE  <<x>> \in Seq(S) /\ Len(<<x>>) = 1 /\ <<x>>[1] = x /\ <<x>> # <<>>
OBVIOUS

\* One more line after progress.
LEMMA OneMore ==
    ASSUME NEW a, NEW s \in Seq(Early(a)), NEW x \in Told(a)
    PROVE  /\ s \o <<x>> \in Seq(Told(a)) /\ NoneAfterLast(s \o <<x>>) /\ s \o <<x>> # <<>>
           /\ x \in Early(a) => s \o <<x>> \in Seq(Early(a))
           /\ x.kind # "progress" => HasLast(s \o <<x>>)
<1>1. s \in Seq(Told(a)) /\ \A i \in 1..Len(s) : s[i].kind = "progress"
  BY EarlyIsTold, LastLineIs, ElementOfSeq DEF Early
<1>2. <<x>> \in Seq(Told(a)) /\ Len(<<x>>) = 1 /\ <<x>>[1] = x
  BY OneLine
<1> DEFINE t == s \o <<x>>
<1>3. /\ t \in Seq(Told(a)) /\ Len(t) = Len(s) + 1
      /\ \A i \in 1..Len(s) + 1 : t[i] = IF i <= Len(s) THEN s[i] ELSE x
  <2>1. /\ t \in Seq(Told(a)) /\ Len(t) = Len(s) + Len(<<x>>)
        /\ \A i \in 1..Len(s) + Len(<<x>>) :
             t[i] = IF i <= Len(s) THEN s[i] ELSE <<x>>[i - Len(s)]
    BY <1>1, <1>2, ConcatProperties
  <2>2. Len(s) \in Nat BY LenProperties
  <2> HIDE DEF t
  <2> QED BY <1>2, <2>1, <2>2
<1>4. Len(s) \in Nat
  BY LenProperties
<1>5. x \in Early(a) => t \in Seq(Early(a))
  BY OneLine, ConcatProperties
<1> HIDE DEF t
<1>6. NoneAfterLast(t)
  BY <1>1, <1>3, <1>4 DEF NoneAfterLast
<1>7. t # <<>> /\ t[Len(t)] = x
  BY <1>3, <1>4, EmptySeq
<1> QED BY <1>3, <1>5, <1>6, <1>7 DEF HasLast, t

LEMMA SameRun ==
    ASSUME saRun' = saRun, NEW me
    PROVE  CallerInv(me)' <=> CallerInv(me)
BY DEF CallerInv, StageInv, LinesInv, Told, Early, Published, LastLine

LEMMA OneCallerMoves ==
    ASSUME StreamInv, NEW c \in Riders, NEW STATE new, Set(c, new), saRun' = saRun, CallerInv(new),
           saAttached \ {c} \subseteq saAttached',
           new.pc # "new" /\ ~new.left /\ ~Published => c \in saAttached'
    PROVE  StreamInv'
<1>1. /\ saCaller' = [d \in Riders |-> saCaller'[d]] /\ saCaller'[c] = new
      /\ \A d \in Riders \ {c} : saCaller'[d] = saCaller[d]
  BY DEF StreamInv, Set
<1>2. \A d \in Riders : CallerInv(saCaller'[d])
  BY <1>1 DEF StreamInv
<1>3. \A d \in Riders : CallerInv(saCaller[d])'
  <2> SUFFICES ASSUME NEW d \in Riders PROVE CallerInv(saCaller[d])'
    OBVIOUS
  <2>1. PICK me : me = saCaller'[d]
    OBVIOUS
  <2>2. CallerInv(me)' <=> CallerInv(me)
    BY SameRun
  <2>3. CallerInv(me)
    BY <1>2, <2>1
  <2> QED BY <2>1, <2>2, <2>3
     DEF CallerInv, StageInv, LinesInv, Told, Early, Published, LastLine
<1>4. WaitedForIsWanted'
  BY <1>1 DEF StreamInv, WaitedForIsWanted, Rides, Is, Published
<1> QED BY <1>1, <1>3, <1>4 DEF StreamInv

LEMMA RunEndsInv ==
    ASSUME StreamInv, NEW outcome \in Statuses, RunEnds(outcome)
    PROVE  StreamInv'
<1>1. saRun = 0 /\ saRun' = outcome /\ saCaller' = saCaller /\ saAttached' = saAttached
  BY DEF RunEnds, Published
<1>2. Published' /\ ~Published /\ outcome # 0
  BY <1>1 DEF Published, Statuses, Report
<1>3. ASSUME NEW c \in Riders PROVE CallerInv(saCaller[c])'
  <2>1. CallerInv(saCaller[c])
    BY DEF StreamInv
  <2> DEFINE me == saCaller[c]
             a == me.ask
  <2>2. \A s \in Seq(Told(a)) : s \in Seq(Told(a)')
    <3>1. Told(a) = Early(a) /\ Early(a)' = Early(a) /\ Early(a)' \subseteq Told(a)'
      BY <1>1, <1>2 DEF Told, Early
    <3>2. Told(a) \subseteq Told(a)' BY <3>1
    <3> QED BY <3>2, SeqMonotonic
  <2>3. LinesInv(me) /\ StageInv(me) /\ me.pc \notin {"last", "answered"}
        /\ (me.pc = "ended" => me.left)
    BY <1>2, <2>1 DEF CallerInv, StageInv
  <2>4. LinesInv(me)'
    BY <1>1, <2>2, <2>3 DEF LinesInv, Early
  <2>5. StageInv(me)'
    BY <1>1, <2>3 DEF StageInv, Caller
  <2> QED BY <2>4, <2>5 DEF CallerInv
<1>4. WaitedForIsWanted'
  BY <1>2 DEF WaitedForIsWanted
<1> QED BY <1>1, <1>3, <1>4 DEF StreamInv

LEMMA RideInv ==
    ASSUME StreamInv, NEW c \in Riders, NEW a, Ride(c, a)
    PROVE  StreamInv'
<1> DEFINE me == saCaller[c]
           new == [me EXCEPT !.pc = "grace", !.ask = a]
<1>1. /\ me.pc = "new" /\ CallerInv(me) /\ saRun' = saRun /\ saAttached' = saAttached \cup {c}
      /\ Set(c, new)
  BY DEF Ride, Is, StreamInv
<1>2. me.got = <<>> /\ me.queue = <<>> /\ me.status = 0 /\ ~me.left /\ ~me.closed /\ Caller(me)
  BY <1>1 DEF CallerInv, StageInv
<1>3. /\ Caller(new)
      /\ new.pc = "grace" /\ new.ask = a /\ new.status = me.status
      /\ new.filed = me.filed /\ new.queue = me.queue /\ new.got = me.got
      /\ new.line = me.line /\ new.closed = me.closed /\ new.left = me.left
  <2>1. Caller(me) BY <1>2
  <2> HIDE DEF me
  <2> QED BY <2>1 DEF Caller, Fields
<1> HIDE DEF me, new
<1>4. StageInv(new)
  BY <1>1, <1>2, <1>3 DEF StageInv, Caller, CallerInv
<1>5. LinesInv(new)
  BY <1>2, <1>3, NothingIsSaid DEF LinesInv
<1> QED BY <1>1, <1>4, <1>5, OneCallerMoves DEF CallerInv

LEMMA AnsweredInGraceInv ==
    ASSUME StreamInv, NEW c \in Riders, AnsweredInGrace(c)
    PROVE  StreamInv'
<1> DEFINE me == saCaller[c]
           a == me.ask
           got == IF saRun = Report THEN <<OfReport(a)>> ELSE <<>>
           new == [me EXCEPT !.pc = "answered", !.filed = FiledUnder(a), !.status = saRun,
                             !.got = got]
<1>1. /\ me.pc = "grace" /\ CallerInv(me) /\ saRun' = saRun /\ Published
      /\ saAttached' = saAttached \ {c} /\ Set(c, new)
  BY DEF AnsweredInGrace, Is, StreamInv, LetGo
<1>2. me.queue = <<>> /\ ~me.left /\ ~me.closed /\ Caller(me)
  BY <1>1 DEF CallerInv, StageInv
<1>3. /\ Caller(new)
      /\ new.pc = "answered" /\ new.ask = me.ask /\ new.status = saRun
      /\ new.filed = FiledUnder(a) /\ new.queue = me.queue /\ new.got = got
      /\ new.line = me.line /\ new.closed = me.closed /\ new.left = me.left
  <2>1. Caller(me) BY <1>2
  <2> HIDE DEF me
  <2> QED BY <2>1 DEF Caller, Fields
<1>4. got \in Seq(Told(a)) /\ NoneAfterLast(got) /\ (saRun = Report => HasLast(got))
  <2>1. CASE saRun = Report
    <3>1. LastLine(a) \in Told(a) /\ OfReport(a) = LastLine(a) /\ LastLine(a).kind # "progress"
      BY <1>1, <2>1, LastLineIs DEF Told
    <3> DEFINE s == <<LastLine(a)>>
    <3>2. s \in Seq(Told(a)) /\ Len(s) = 1 /\ s[1] = LastLine(a) /\ s # <<>>
      BY <3>1, OneLine
    <3>3. got = s BY <2>1, <3>1
    <3> HIDE DEF s
    <3>4. NoneAfterLast(s) BY <3>2 DEF NoneAfterLast
    <3>5. HasLast(s) BY <3>1, <3>2 DEF HasLast
    <3> HIDE DEF got
    <3> QED BY <3>2, <3>3, <3>4, <3>5
  <2>2. CASE saRun # Report
    BY <2>2, NothingIsSaid
  <2> QED BY <2>1, <2>2
<1> HIDE DEF me, new, got
<1>5. StageInv(new)
  BY <1>1, <1>2, <1>3 DEF StageInv, Caller, CallerInv
<1>6. LinesInv(new)
  BY <1>2, <1>3, <1>4, NothingIsSaid DEF LinesInv
<1> QED BY <1>1, <1>5, <1>6, OneCallerMoves DEF CallerInv

LEMMA StreamedInv ==
    ASSUME StreamInv, NEW c \in Riders, Streamed(c)
    PROVE  StreamInv'
<1> DEFINE me == saCaller[c]
           key == FiledUnder(me.ask)
           ok == 200
           new == [me EXCEPT !.pc = "waiting", !.status = ok, !.filed = key]
<1>1. /\ me.pc = "grace" /\ CallerInv(me) /\ saRun' = saRun /\ ~Published
      /\ saAttached' = saAttached /\ Set(c, new)
      /\ c \in saAttached
  BY DEF Streamed, Is, StreamInv, AttachedStream, WaitedForIsWanted, Rides, CallerInv, StageInv
<1>2. me.got = <<>> /\ me.queue = <<>> /\ me.status = 0 /\ ~me.left /\ ~me.closed /\ Caller(me)
  BY <1>1 DEF CallerInv, StageInv
<1>3. /\ Caller(new)
      /\ new.pc = "waiting" /\ new.ask = me.ask /\ new.status = 200
      /\ new.filed = FiledUnder(me.ask) /\ new.queue = me.queue /\ new.got = me.got
      /\ new.line = me.line /\ new.closed = me.closed /\ new.left = me.left
  <2>1. Caller(me) BY <1>2
  <2>2. key = FiledUnder(me.ask) /\ ok = 200 OBVIOUS
  <2> HIDE DEF me, key, ok
  <2>3. /\ Caller(new) /\ new.pc = "waiting" /\ new.ask = me.ask /\ new.status = ok
        /\ new.filed = key /\ new.queue = me.queue /\ new.got = me.got
        /\ new.line = me.line /\ new.closed = me.closed /\ new.left = me.left
    BY <2>1 DEF Caller, Fields
  <2> QED BY <2>2, <2>3
<1> HIDE DEF me, new
<1>4. StageInv(new)
  BY <1>1, <1>2, <1>3 DEF StageInv, Caller, CallerInv
<1>5. LinesInv(new)
  BY <1>2, <1>3, NothingIsSaid DEF LinesInv
<1> QED BY <1>1, <1>4, <1>5, OneCallerMoves DEF CallerInv

LEMMA ProgressInv ==
    ASSUME StreamInv, NEW c \in Riders, Progress(c)
    PROVE  StreamInv'
<1> DEFINE me == saCaller[c]
           said == <<ProgressFrame(me.ask)>>
           new == [me EXCEPT !.pc = "progress", !.line = said]
<1>1. /\ me.pc = "waiting" /\ CallerInv(me) /\ saRun' = saRun
      /\ saAttached' = saAttached /\ Set(c, new)
      /\ me.left \/ Published \/ c \in saAttached
  BY DEF Progress, Is, StreamInv, WaitedForIsWanted, Rides
<1>2. /\ me.status = 200 /\ ~me.closed /\ Caller(me)
      /\ me.got \in Seq(Early(me.ask)) /\ me.queue \in Seq(Early(me.ask))
  BY <1>1 DEF CallerInv, StageInv, LinesInv
<1>3. /\ Caller(new) /\ new.pc = "progress" /\ new.ask = me.ask /\ new.status = me.status
      /\ new.filed = me.filed /\ new.queue = me.queue /\ new.got = me.got
      /\ new.line = said /\ new.closed = me.closed /\ new.left = me.left
  <2> HIDE DEF me, said
  <2> QED BY <1>2 DEF Caller, Fields
<1>4. said = <<ProgressFrame(me.ask)>>
  OBVIOUS
<1> HIDE DEF me, new, said
<1>5. StageInv(new)
  BY <1>1, <1>2, <1>3 DEF StageInv, CallerInv
<1>6. LinesInv(new)
  BY <1>2, <1>3, <1>4, EarlyIsTold DEF LinesInv
<1> QED BY <1>1, <1>3, <1>5, <1>6, OneCallerMoves DEF CallerInv

LEMMA LandsInv ==
    ASSUME StreamInv, NEW c \in Riders, Lands(c)
    PROVE  StreamInv'
<1> DEFINE me == saCaller[c]
           said == LastLines(me.ask)
           new == [me EXCEPT !.pc = "last", !.line = said]
<1>1. /\ me.pc = "waiting" /\ CallerInv(me) /\ saRun' = saRun
      /\ saAttached' = saAttached \ {c} /\ Set(c, new) /\ Published
  BY DEF Lands, Is, StreamInv, LetGo
<1>2. /\ me.status = 200 /\ ~me.closed /\ Caller(me)
      /\ me.got \in Seq(Early(me.ask)) /\ me.queue \in Seq(Early(me.ask))
  BY <1>1 DEF CallerInv, StageInv, LinesInv
<1>3. /\ Caller(new) /\ new.pc = "last" /\ new.ask = me.ask /\ new.status = me.status
      /\ new.filed = me.filed /\ new.queue = me.queue /\ new.got = me.got
      /\ new.line = said /\ new.closed = me.closed /\ new.left = me.left
  <2> HIDE DEF me, said
  <2> QED BY <1>2 DEF Caller, Fields
<1>4. said = <<LastLine(me.ask)>>
  BY DEF LastLines
<1> HIDE DEF me, new, said
<1>5. StageInv(new)
  BY <1>1, <1>2, <1>3 DEF StageInv, CallerInv
<1>6. LinesInv(new)
  BY <1>2, <1>3, <1>4, EarlyIsTold DEF LinesInv
<1> QED BY <1>1, <1>3, <1>5, <1>6, OneCallerMoves DEF CallerInv

\* The stream of a caller that has gone ends.
LEMMA GoneInv ==
    ASSUME StreamInv, NEW c \in Riders, SendLine(c), saCaller[c].left
    PROVE  StreamInv'
<1> DEFINE me == saCaller[c]
           new == [me EXCEPT !.pc = "ended"]
<1>1. /\ me.pc \in {"progress", "last"} /\ CallerInv(me) /\ saRun' = saRun /\ me.left
      /\ saAttached' = saAttached \ {c} /\ Set(c, new)
  BY DEF SendLine, StreamInv, LetGo, Gone
<1>2. me.status = 200 /\ ~me.closed /\ Caller(me)
  BY <1>1 DEF CallerInv, StageInv
<1>3. /\ Caller(new) /\ new.pc = "ended" /\ new.ask = me.ask /\ new.status = me.status
      /\ new.filed = me.filed /\ new.queue = me.queue /\ new.got = me.got
      /\ new.line = me.line /\ new.closed = me.closed /\ new.left = me.left
  <2> HIDE DEF me
  <2> QED BY <1>2 DEF Caller, Fields
<1> HIDE DEF me, new
<1>4. StageInv(new)
  BY <1>1, <1>2, <1>3 DEF StageInv, CallerInv
<1>5. LinesInv(new)
  BY <1>1, <1>2, <1>3 DEF LinesInv, CallerInv
<1> QED BY <1>1, <1>3, <1>4, <1>5, OneCallerMoves DEF CallerInv

LEMMA SendLineInv ==
    ASSUME StreamInv, NEW c \in Riders, SendLine(c), ~saCaller[c].left
    PROVE  StreamInv'
<1> DEFINE me == saCaller[c]
           next == IF me.pc = "last" THEN "ended" ELSE "waiting"
           queue == me.queue \o me.line
           none == <<>>
           new == [me EXCEPT !.pc = next, !.queue = queue, !.line = none]
<1>1. /\ me.pc \in {"progress", "last"} /\ CallerInv(me) /\ saRun' = saRun /\ ~me.left
      /\ saAttached' = saAttached /\ Set(c, new)
      /\ Published \/ c \in saAttached
  BY DEF SendLine, StreamInv, WaitedForIsWanted, Rides, Is
<1>2. /\ me.status = 200 /\ ~me.closed /\ Caller(me)
      /\ me.got \in Seq(Early(me.ask)) /\ me.queue \in Seq(Early(me.ask))
      /\ me.pc = "progress" => me.line = <<ProgressFrame(me.ask)>>
      /\ me.pc = "last" => me.line = <<LastLine(me.ask)>> /\ Published
  BY <1>1 DEF CallerInv, StageInv, LinesInv
<1>3. /\ Caller(new) /\ new.pc = next /\ new.ask = me.ask /\ new.status = me.status
      /\ new.filed = me.filed /\ new.queue = queue /\ new.got = me.got
      /\ new.closed = me.closed /\ new.left = me.left
  <2> HIDE DEF me, next, queue, none
  <2> QED BY <1>2 DEF Caller, Fields
<1>4. /\ me.pc = "progress" => next = "waiting" /\ queue = me.queue \o <<ProgressFrame(me.ask)>>
      /\ me.pc = "last" => next = "ended" /\ queue = me.queue \o <<LastLine(me.ask)>>
  BY <1>2
<1>5. /\ ProgressFrame(me.ask) \in Early(me.ask) /\ ProgressFrame(me.ask) \in Told(me.ask)
      /\ me.pc = "last" => LastLine(me.ask) \in Told(me.ask)
  BY <1>2 DEF Told, Early
<1> HIDE DEF me, new, next, queue
<1>6. StageInv(new)
  BY <1>1, <1>2, <1>3, <1>4 DEF StageInv, CallerInv
<1>7. LinesInv(new)
  <2>1. me.got \in Seq(Told(me.ask)) /\ NoneAfterLast(me.got)
    BY <1>2, EarlyIsTold
  <2>2. CASE me.pc = "progress"
    <3>1. queue \in Seq(Early(me.ask)) /\ queue \in Seq(Told(me.ask)) /\ NoneAfterLast(queue)
      <4>1. PICK a, x : a = me.ask /\ x = ProgressFrame(a)
        OBVIOUS
      <4>2. me.queue \in Seq(Early(a)) /\ x \in Told(a) /\ x \in Early(a)
            /\ queue = me.queue \o <<x>>
        BY <1>2, <1>4, <1>5, <2>2, <4>1
      <4>3. queue \in Seq(Told(a)) /\ NoneAfterLast(queue) /\ queue \in Seq(Early(a))
        BY <4>2, OneMore
      <4> QED BY <4>1, <4>3
    <3> QED BY <1>2, <1>3, <1>4, <2>1, <2>2, <3>1 DEF LinesInv
  <2>3. CASE me.pc = "last"
    <3>1. queue \in Seq(Told(me.ask)) /\ NoneAfterLast(queue) /\ HasLast(queue)
      <4>1. PICK a, x : a = me.ask /\ x = LastLine(a)
        OBVIOUS
      <4>2. me.queue \in Seq(Early(a)) /\ x \in Told(a) /\ queue = me.queue \o <<x>>
        BY <1>2, <1>4, <1>5, <2>3, <4>1
      <4>3. x.kind # "progress"
        BY <4>1, LastLineIs
      <4>4. queue \in Seq(Told(a)) /\ NoneAfterLast(queue) /\ HasLast(queue)
        BY <4>2, <4>3, OneMore
      <4> QED BY <4>1, <4>4
    <3> QED BY <1>2, <1>3, <1>4, <2>1, <2>3, <3>1 DEF LinesInv
  <2> QED BY <1>1, <2>2, <2>3
<1> QED BY <1>1, <1>3, <1>6, <1>7, OneCallerMoves DEF CallerInv

LEMMA CallerLeavesInv ==
    ASSUME StreamInv, NEW c \in Riders, CallerLeaves(c)
    PROVE  StreamInv'
<1> DEFINE me == saCaller[c]
           next == IF me.pc = "grace" THEN "ended" ELSE me.pc
           yes == TRUE
           none == <<>>
           new == [me EXCEPT !.left = yes, !.queue = none, !.pc = next]
<1>1. /\ me.pc \notin {"new", "answered"} /\ CallerInv(me) /\ saRun' = saRun /\ ~me.closed
      /\ saAttached \ {c} \subseteq saAttached' /\ Set(c, new)
  BY DEF CallerLeaves, StreamInv, LetGo
<1>2. Caller(me) /\ next \notin {"new", "grace", "answered"} /\ none = <<>> /\ yes = TRUE
  BY <1>1 DEF CallerInv, StageInv
<1>3. /\ Caller(new) /\ new.pc = next /\ new.ask = me.ask /\ new.status = me.status
      /\ new.filed = me.filed /\ new.queue = none /\ new.got = me.got
      /\ new.line = me.line /\ new.closed = me.closed /\ new.left = yes
  <2> HIDE DEF me, next, none, yes
  <2> QED BY <1>2 DEF Caller, Fields
<1>4. next = me.pc \/ next = "ended"
  OBVIOUS
<1>5. me.pc \in {"waiting", "progress", "last"} \/ next = "ended"
  BY <1>1 DEF CallerInv, StageInv
<1> HIDE DEF me, new, next, none, yes
<1>6. StageInv(new)
  BY <1>1, <1>2, <1>3, <1>4, <1>5 DEF StageInv, CallerInv
<1>7. LinesInv(new)
  BY <1>1, <1>2, <1>3, <1>4, NothingIsSaid DEF LinesInv, CallerInv
<1> QED BY <1>1, <1>2, <1>3, <1>6, <1>7, OneCallerMoves DEF CallerInv

\* The first of the lines on their way, and those after it.
LEMMA FirstLine ==
    ASSUME NEW S, NEW s \in Seq(S), s # <<>>
    PROVE  /\ Head(s) \in S /\ Head(s) = s[1] /\ Tail(s) \in Seq(S)
           /\ Len(s) \in Nat \ {0} /\ Len(Tail(s)) = Len(s) - 1
           /\ \A i \in 1..Len(s) - 1 : Tail(s)[i] = s[i + 1]
<1>1. Head(s) \in S /\ Tail(s) \in Seq(S) /\ Len(Tail(s)) = Len(s) - 1
      /\ \A i \in 1..Len(Tail(s)) : Tail(s)[i] = s[i + 1]
  BY HeadTailProperties
<1>2. Head(s) = s[1]
  OBVIOUS
<1>3. Len(s) \in Nat \ {0}
  BY LenProperties, EmptySeq
<1> QED BY <1>1, <1>2, <1>3

LEMMA ReadLineInv ==
    ASSUME StreamInv, NEW c \in Riders, ReadLine(c), saCaller[c].queue # <<>>
    PROVE  StreamInv'
<1> DEFINE me == saCaller[c]
           line == Head(me.queue)
           rest == Tail(me.queue)
           again == me.got # <<>> /\ line.kind = "progress" /\ Last(me.got).kind = "progress"
           got == IF again THEN me.got ELSE Append(me.got, line)
           new == [me EXCEPT !.queue = rest, !.got = got]
<1>1. /\ me.status = 200 /\ ~me.left /\ ~me.closed /\ me.queue # <<>>
      /\ CallerInv(me) /\ saRun' = saRun /\ saAttached' = saAttached /\ Set(c, new)
      /\ me.pc # "new" /\ (Published \/ c \in saAttached)
  BY DEF ReadLine, StreamInv, StageInv, CallerInv, WaitedForIsWanted, Rides, Is
<1>2. Caller(me) /\ StageInv(me) /\ LinesInv(me)
  BY <1>1 DEF CallerInv, StageInv
<1>3. /\ Caller(new) /\ new.pc = me.pc /\ new.ask = me.ask /\ new.status = me.status
      /\ new.filed = me.filed /\ new.queue = rest /\ new.got = got
      /\ new.line = me.line /\ new.closed = me.closed /\ new.left = me.left
  <2> HIDE DEF me, rest, got
  <2> QED BY <1>2 DEF Caller, Fields
<1>4. PICK a : a = me.ask
  OBVIOUS
<1>5. /\ me.got \in Seq(Early(a)) /\ me.queue \in Seq(Told(a)) /\ NoneAfterLast(me.queue)
      /\ me.pc # "answered"
      /\ me.pc \in {"waiting", "progress", "last"} => me.queue \in Seq(Early(a))
      /\ me.pc = "ended" => HasLast(me.queue)
  BY <1>1, <1>2, <1>4 DEF LinesInv
<1>6. PICK n : n = Len(me.queue)
  OBVIOUS
<1>7. /\ line \in Told(a) /\ line = me.queue[1] /\ rest \in Seq(Told(a)) /\ n \in Nat \ {0}
      /\ Len(rest) = n - 1 /\ \A i \in 1..n - 1 : rest[i] = me.queue[i + 1]
  BY <1>1, <1>5, <1>6, FirstLine
<1>8. me.queue \in Seq(Early(a)) => line \in Early(a) /\ rest \in Seq(Early(a))
  BY <1>1, FirstLine
<1>9. Append(me.got, line) = me.got \o <<line>>
  <2>1. me.got \in Seq(Told(a)) /\ line \in Told(a)
    BY <1>5, <1>7, EarlyIsTold
  <2> HIDE DEF line
  <2> QED BY <2>1, AppendIsConcat
<1>10. /\ got = me.got \/ got = me.got \o <<line>>
       /\ line.kind # "progress" => got = me.got \o <<line>>
  BY <1>9
<1>11. line.kind = "progress" => line \in Early(a)
  BY <1>7, LastLineIs DEF Told, Early
<1> HIDE DEF me, line, rest, got, new
<1>12. NoneAfterLast(rest)
  <2> SUFFICES ASSUME NEW i \in 1..(n - 1) - 1 PROVE rest[i].kind = "progress"
    BY <1>7 DEF NoneAfterLast
  <2>1. i + 1 \in 1..n - 1 /\ i \in 1..n - 1
    BY <1>7
  <2>2. me.queue[i + 1].kind = "progress"
    BY <1>5, <1>6, <2>1 DEF NoneAfterLast
  <2> QED BY <1>7, <2>1, <2>2
<1>13. rest # <<>> => n > 1 /\ line \in Early(a)
  BY <1>5, <1>6, <1>7, <1>11, EmptySeq DEF NoneAfterLast
<1>14. got \in Seq(Told(a)) /\ NoneAfterLast(got)
       /\ (line \in Early(a) => got \in Seq(Early(a)))
  <2>1. CASE got = me.got
    BY <1>5, <2>1, EarlyIsTold
  <2>2. CASE got = me.got \o <<line>>
    BY <1>5, <1>7, <2>2, OneMore
  <2> QED BY <1>10, <2>1, <2>2
<1>15. HasLast(me.queue) => HasLast(rest) \/ (rest = <<>> /\ HasLast(got))
  <2>1. CASE rest = <<>>
    <3>1. n = 1 BY <1>7, <2>1, EmptySeq
    <3> QED BY <1>5, <1>6, <1>7, <1>10, <2>1, <3>1, OneMore DEF HasLast
  <2>2. CASE rest # <<>>
    BY <1>6, <1>7, <1>13, <2>2 DEF HasLast
  <2> QED BY <2>1, <2>2
<1>16. StageInv(new)
  BY <1>1, <1>2, <1>3 DEF StageInv
<1>17. LinesInv(new)
  BY <1>1, <1>2, <1>3, <1>4, <1>5, <1>7, <1>8, <1>12, <1>13, <1>14, <1>15 DEF LinesInv
<1> QED BY <1>1, <1>3, <1>16, <1>17, OneCallerMoves DEF CallerInv

LEMMA ReadEndInv ==
    ASSUME StreamInv, NEW c \in Riders, ReadLine(c), saCaller[c].queue = <<>>
    PROVE  StreamInv'
<1> DEFINE me == saCaller[c]
           yes == TRUE
           new == [me EXCEPT !.closed = yes]
<1>1. /\ me.status = 200 /\ ~me.left /\ me.queue = <<>> /\ me.pc \in {"ended", "answered"}
      /\ CallerInv(me) /\ saRun' = saRun /\ saAttached' = saAttached /\ Set(c, new)
  BY DEF ReadLine, StreamInv
<1>2. /\ Caller(me) /\ StageInv(me) /\ LinesInv(me) /\ yes = TRUE /\ Published
      /\ me.pc = "answered" => saRun = Report
  BY <1>1 DEF CallerInv, StageInv, Report
<1>3. HasLast(me.got)
  BY <1>1, <1>2 DEF LinesInv, HasLast
<1>4. /\ Caller(new) /\ new.pc = me.pc /\ new.ask = me.ask /\ new.status = me.status
      /\ new.filed = me.filed /\ new.queue = me.queue /\ new.got = me.got
      /\ new.line = me.line /\ new.closed = yes /\ new.left = me.left
  <2> HIDE DEF me, yes
  <2> QED BY <1>2 DEF Caller, Fields
<1> HIDE DEF me, new, yes
<1>5. StageInv(new)
  BY <1>1, <1>2, <1>4 DEF StageInv
<1>6. LinesInv(new)
  BY <1>1, <1>2, <1>3, <1>4 DEF LinesInv
<1> QED BY <1>1, <1>2, <1>4, <1>5, <1>6, OneCallerMoves DEF CallerInv

LEMMA StreamStep == StreamInv /\ [StreamNext]_streamVars => StreamInv'
<1> SUFFICES ASSUME StreamInv, [StreamNext]_streamVars PROVE StreamInv'
  OBVIOUS
<1>1. ASSUME NEW outcome \in Statuses, RunEnds(outcome) PROVE StreamInv'
  BY <1>1, RunEndsInv
<1>2. ASSUME NEW c \in Riders, NEW n \in Names, NEW f \in BOOLEAN,
             Ride(c, [name |-> n, full |-> f])
      PROVE  StreamInv'
  <2> DEFINE a == [name |-> n, full |-> f]
  <2>1. Ride(c, a) BY <1>2
  <2> HIDE DEF a
  <2> QED BY <2>1, RideInv
<1>3. ASSUME NEW c \in Riders, Serve(c) PROVE StreamInv'
  <2>1. AnsweredInGrace(c) \/ Streamed(c) \/ Progress(c) \/ Lands(c) \/ SendLine(c)
    BY <1>3 DEF Serve
  <2> QED BY <2>1, AnsweredInGraceInv, StreamedInv, ProgressInv, LandsInv, SendLineInv, GoneInv
<1>4. ASSUME NEW c \in Riders, ReadLine(c) PROVE StreamInv'
  BY <1>4, ReadLineInv, ReadEndInv
<1>5. ASSUME NEW c \in Riders, CallerLeaves(c) PROVE StreamInv'
  BY <1>5, CallerLeavesInv
<1>6. CASE UNCHANGED streamVars
  <2>1. saRun' = saRun /\ saCaller' = saCaller /\ saAttached' = saAttached
    BY <1>6 DEF streamVars
  <2>2. ASSUME NEW c \in Riders PROVE CallerInv(saCaller[c])'
    <3>1. PICK me : me = saCaller[c] /\ me = saCaller'[c]
      BY <2>1
    <3>2. CallerInv(me) /\ (CallerInv(me)' <=> CallerInv(me))
      BY <2>1, <3>1, SameRun DEF StreamInv
    <3> QED BY <3>1, <3>2
        DEF CallerInv, StageInv, LinesInv, Told, Early, Published, LastLine
  <2> QED BY <2>1, <2>2 DEF StreamInv, WaitedForIsWanted, Rides, Is, Published
<1>7. CASE StreamNext
  BY <1>1, <1>2, <1>3, <1>4, <1>5, <1>7 DEF StreamNext
<1> QED BY <1>6, <1>7

LEMMA StreamStart == StreamInit => StreamInv
<1> SUFFICES ASSUME StreamInit PROVE StreamInv
  OBVIOUS
<1>1. PICK new : new = NewCaller
  OBVIOUS
<1>2. Caller(new)
  BY <1>1 DEF Caller, Fields, NewCaller
<1>3. /\ new.pc = "new" /\ new.status = 0 /\ new.queue = <<>> /\ new.got = <<>>
      /\ ~new.closed /\ ~new.left /\ new.closed \in BOOLEAN /\ new.left \in BOOLEAN
  BY <1>1 DEF NewCaller
<1>4. StageInv(new)
  BY <1>2, <1>3 DEF StageInv
<1>5. LinesInv(new)
  BY <1>3, NothingIsSaid DEF LinesInv
<1>6. \A c \in Riders : saCaller[c] = new
  BY <1>1 DEF StreamInit
<1> QED BY <1>3, <1>4, <1>5, <1>6
    DEF StreamInv, StreamInit, WaitedForIsWanted, Rides, Is, CallerInv

\* What was said, in what a caller has read and is yet to read.
LEMMA WhatWasSaid ==
    ASSUME NEW me, LinesInv(me)
    PROVE  LET said == me.got \o me.queue IN
           /\ \A i \in 1..Len(said) : said[i] \in Told(me.ask)
           /\ \A i \in 1..Len(said) - 1 : said[i].kind = "progress"
<1> DEFINE got == me.got
           queue == me.queue
           said == got \o queue
<1>1. PICK a : a = me.ask
  OBVIOUS
<1>2. /\ got \in Seq(Told(a)) /\ queue \in Seq(Told(a))
      /\ NoneAfterLast(got) /\ NoneAfterLast(queue)
      /\ queue # <<>> => got \in Seq(Early(a))
  BY <1>1 DEF LinesInv
<1>3. /\ said \in Seq(Told(a)) /\ Len(said) = Len(got) + Len(queue)
      /\ \A i \in 1..Len(got) + Len(queue) :
           said[i] = IF i <= Len(got) THEN got[i] ELSE queue[i - Len(got)]
  BY <1>2, ConcatProperties
<1> HIDE DEF got, queue, said
<1>4. \A i \in 1..Len(said) : said[i] \in Told(a)
  BY <1>3, ElementOfSeq
<1>5. Len(got) \in Nat /\ Len(queue) \in Nat /\ (queue = <<>> => Len(queue) = 0)
  BY <1>2, LenProperties, EmptySeq
<1>6. \A i \in 1..Len(said) - 1 : said[i].kind = "progress"
  <2>1. CASE queue = <<>>
    BY <1>2, <1>3, <1>5, <2>1 DEF NoneAfterLast
  <2>2. CASE queue # <<>>
    <3>1. \A i \in 1..Len(got) : got[i].kind = "progress"
      BY <1>2, <2>2, ElementOfSeq, LastLineIs DEF Early
    <3>2. PICK n \in Nat, m \in Nat : n = Len(got) /\ m = Len(queue)
      BY <1>5
    <3>3. /\ \A i \in 1..n : got[i].kind = "progress"
          /\ \A i \in 1..m - 1 : queue[i].kind = "progress"
          /\ \A i \in 1..n + m : said[i] = IF i <= n THEN got[i] ELSE queue[i - n]
      BY <1>2, <1>3, <3>1, <3>2 DEF NoneAfterLast
    <3>4. SUFFICES ASSUME NEW i \in 1..n + m - 1 PROVE said[i].kind = "progress"
      BY <1>3, <3>2
    <3>5. CASE i <= n
      BY <3>3, <3>5
    <3>6. CASE i > n
      <4>1. i - n \in 1..m - 1 BY <3>6
      <4> QED BY <3>3, <3>6, <4>1
    <3> QED BY <3>5, <3>6
  <2> QED BY <2>1, <2>2
<1> QED BY <1>1, <1>4, <1>6 DEF said, got, queue

LEMMA EndsWithTheLast ==
    ASSUME NEW me, LinesInv(me), me.closed
    PROVE  /\ me.got # <<>> /\ Last(me.got).kind # "progress"
           /\ Last(me.got) = LastLine(me.ask)
<1>1. /\ me.got # <<>> /\ me.got[Len(me.got)].kind # "progress"
      /\ me.got \in Seq(Told(me.ask))
  BY DEF LinesInv, HasLast
<1>2. Len(me.got) \in 1..Len(me.got)
  BY <1>1, LenProperties, EmptySeq
<1>3. me.got[Len(me.got)] \in Told(me.ask)
  BY <1>1, <1>2, ElementOfSeq
<1>4. me.got[Len(me.got)] = LastLine(me.ask)
  BY <1>1, <1>3, LastLineIs DEF Told, Early
<1> QED BY <1>1, <1>4 DEF Last

LEMMA FaithfulStreams == StreamInv => StreamIsFaithful
<1> SUFFICES ASSUME StreamInv PROVE StreamIsFaithful
  OBVIOUS
<1>1. \A c \in Riders : LinesInv(saCaller[c]) /\ StageInv(saCaller[c])
  BY DEF StreamInv, CallerInv
<1>2. ASSUME NEW c \in Riders
      PROVE  /\ \A i \in 1..Len(LinesOf(c)) : LinesOf(c)[i] \in Told(saCaller[c].ask)
             /\ \A i \in 1..Len(LinesOf(c)) - 1 : LinesOf(c)[i].kind = "progress"
  BY <1>1, WhatWasSaid DEF LinesOf
<1>3. OneLastLine
  BY <1>1, <1>2, EndsWithTheLast DEF OneLastLine
<1>4. RefusalDecidesNothing
  <2>1. ASSUME saRun = 429, NEW a, NEW x \in Told(a)
        PROVE  x.kind \in {"progress", "refused"}
    BY <2>1, LastLineIs DEF Told, Early
  <2> QED BY <1>1, <1>2, <2>1 DEF RefusalDecidesNothing, StageInv, Is
<1>5. OneFailureForAll
  <2> SUFFICES ASSUME NEW c \in Riders, NEW d \in Riders, Is(c, "answered"),
                      saCaller[d].closed, saRun \notin {Report, 429}
               PROVE  /\ saCaller[c].status \in {413, 422}
                           <=> Last(saCaller[d].got).reason # "none"
                      /\ saCaller[c].status = 422
                           <=> Last(saCaller[d].got).reason = "unretrievable"
    BY DEF OneFailureForAll
  <2>1. saCaller[c].status = saRun
    BY <1>1 DEF StageInv, Is
  <2>2. Last(saCaller[d].got) = LastLine(saCaller[d].ask)
    BY <1>1, EndsWithTheLast
  <2>3. Last(saCaller[d].got).reason = ReasonOf(saRun)
    BY <2>2, LastLineIs
  <2>4. saRun \in {0, 200, 413, 422, 429, 500}
    BY DEF StreamInv, Statuses, Report
  <2> QED BY <2>1, <2>3, <2>4 DEF ReasonOf
<1>6. OneKeyManySpellings
  <2>1. ASSUME NEW a, NEW x \in Told(a)
        PROVE  x.name \in {a.name.asked, "null"}
    BY <2>1, LastLineIs DEF Told, Early
  <2> QED BY <1>1, <1>2, <2>1 DEF OneKeyManySpellings, StageInv, FiledUnder
<1>7. WaitedForIsWanted
  BY DEF StreamInv
<1> QED BY <1>3, <1>4, <1>5, <1>6, <1>7 DEF StreamIsFaithful

\* In every reachable state, of whatever callers under whatever names, a stream is
\* progress and then at most one last line, whichever way the timer, the outcome, a slow
\* reader and a caller that leaves come round.
THEOREM StreamInvariant == StreamSpec => []StreamInv
BY StreamStart, StreamStep, PTL DEF StreamSpec

\* Callers of one run hear the same of it, each whole and under its own key and spelling,
\* and a caller that waits keeps the run wanted (answer, outcome_response, streamed).
THEOREM StreamsAreFaithful == StreamSpec => []StreamIsFaithful
BY StreamInvariant, FaithfulStreams, PTL
=============================================================================
