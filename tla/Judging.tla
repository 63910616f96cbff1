------------------------------ MODULE Judging ------------------------------
(***************************************************************************)
(* What a report says once the engines are through: the verdict folded     *)
(* from what scan and isomer concluded, the judges it credits, and the     *)
(* sentence it quotes.  report, reason and band_level of                   *)
(* src/src/judge.rs, combine.rs, engine.rs and the levels of report.rs.    *)
(*                                                                         *)
(* Bands are ordered numbers.  A level is the budget a file fires at, or   *)
(* what the wire has for no budget; what the engines concluded is external *)
(* and any combination of theirs is an input.                              *)
(***************************************************************************)
EXTENDS Integers, FiniteSets

CONSTANTS
    Concluded,    \* what scan may conclude: [severity, level]
    BudgetsRead,  \* the budgets of those who read the report
    Placed        \* [Bands -> [BOOLEAN -> levels]]: scan's synthesized_level

Benign == 0
Suspicious == 1
Hostile == 2
Bands == Benign .. Hostile

\* Level::Never as it is serialized, and a level no calibrated budget applies to.
Never == -1
Uncalibrated == -2

FiringLevels == {Never, Uncalibrated} \cup Nat

\* No band, of a judge that did not report, and no grade of isomer's.
NoBand == -1
Absent == "absent"

JudgeIds == {"cleave", "ml", "llm", "diff", "diff_llm"}

ASSUME JudgingAssumption ==
    /\ BudgetsRead \subseteq Nat
    /\ Concluded \subseteq [severity : Bands, level : FiringLevels]
    /\ Placed \in [Bands -> [BOOLEAN -> FiringLevels]]

VARIABLES
    jgAnalysis,   \* the engines' results; isomer's count when it `compared`
    jgReport      \* NotYet, or the report

judgingVars == <<jgAnalysis, jgReport>>

----------------------------------------------------------------------------
(* The fold                                                                *)

\* Mutation: the numbers are compared as numbers.
LooserLevel(a, b) == IF a <= b THEN a ELSE b

\* Level::worse_of, and the measured one of two where one is not: to fire anywhere is
\* worse than never, and the tighter budget is the worse one.
WorseLevel(a, b) ==
    IF a = Uncalibrated THEN b
    ELSE IF b = Uncalibrated THEN a
    ELSE IF a = Never THEN b
    ELSE IF b = Never THEN a
    ELSE IF a <= b THEN a ELSE b

\* Outcome::worse_of.
WorseOf(o, p) ==
    IF o.severity > p.severity THEN o
    ELSE IF o.severity < p.severity THEN p
    ELSE [severity |-> o.severity, level |-> WorseLevel(o.level, p.level)]

\* isomer_severity: isomer's five grades in three bands.
BandOf(grade) ==
    CASE grade = "critical" -> Hostile [] grade = "high" -> Suspicious [] OTHER -> Benign

\* band_level: a differential verdict is placed inside its band; an alarm of scan's
\* corroborates it.
IsomerOutcome(a) ==
    LET band == BandOf(a.isomer.severity) IN
    [severity |-> band, level |-> Placed[band][a.scan.severity > Benign]]

\* combine::verdict: scan always reports, isomer when there was a release to compare with.
Folded(a) == IF ~a.compared THEN a.scan ELSE WorseOf(a.scan, IsomerOutcome(a))

----------------------------------------------------------------------------
(* The judges and the sentence                                             *)

Interpreted(a) == a.compared /\ a.isomer.opinion # Absent

\* The band each judge reported, or none: a floor that says nothing reads benign, and a
\* call without a grade has no band.
BandsOf(a) ==
    [id \in JudgeIds |->
        CASE id = "cleave" -> IF a.floor = NoBand THEN Benign ELSE a.floor
          [] id = "ml" -> a.ml
          [] id = "llm" -> a.llm.grade
          [] id = "diff" -> IF a.compared THEN BandOf(a.isomer.deterministic) ELSE NoBand
          [] id = "diff_llm" -> IF Interpreted(a) THEN BandOf(a.isomer.opinion) ELSE NoBand]

\* decided_by.
DecidedBy(a) == {id \in JudgeIds : BandsOf(a)[id] = Folded(a).severity}

\* A sentence of scan's interpreter, and of isomer's; an empty one is none.
FromScan(a) == a.llm.grade # NoBand /\ a.llm.says
FromIsomer(a) == Interpreted(a) /\ a.isomer.says

\* Whether scan's interpreter is asked for the sentence before isomer's.
ScansAhead(a) == ~("diff_llm" \in DecidedBy(a) /\ "llm" \notin DecidedBy(a))

\* reason: whose sentence is quoted.
Quoted(a) ==
    LET first == IF ScansAhead(a) THEN "llm" ELSE "diff_llm"
        says == (IF FromScan(a) THEN {"llm"} ELSE {})
                    \cup (IF FromIsomer(a) THEN {"diff_llm"} ELSE {})
    IN IF first \in says THEN first
       ELSE IF says # {} THEN CHOOSE id \in says : TRUE ELSE "nobody"

\* Why there was no comparison: with a baseline, isomer was not to be had.
NoComparison(a) ==
    IF a.compared THEN "compared" ELSE IF a.baseline THEN "unavailable" ELSE "no_baseline"

Grades == {"critical", "high", "none"}

\* What isomer measured, what it made of that and of its interpreter's opinion.
Isomers ==
    [deterministic : Grades, severity : Grades, opinion : Grades \cup {Absent}, says : BOOLEAN]

NoIsomer ==
    [deterministic |-> "none", severity |-> "none", opinion |-> Absent, says |-> FALSE]

\* What the engines may hand over.
Analyses ==
    {a \in [scan : Concluded, floor : {NoBand, Suspicious, Hostile}, ml : Bands,
            llm : [grade : Bands \cup {NoBand}, says : BOOLEAN],
            compared : BOOLEAN, isomer : Isomers, baseline : BOOLEAN] :
        /\ a.llm.grade = NoBand => ~a.llm.says
        /\ a.isomer.opinion = Absent => ~a.isomer.says
        /\ IF a.compared THEN a.baseline ELSE a.isomer = NoIsomer}

NotYet == [state |-> "not_yet"]

JudgingInit == jgAnalysis = NotYet /\ jgReport = NotYet

Judge(a) ==
    /\ jgAnalysis' = a
    /\ jgReport' = [state |-> "written", verdict |-> Folded(a), decided |-> DecidedBy(a),
                    quoted |-> Quoted(a), skipped |-> NoComparison(a)]

JudgingNext == jgReport = NotYet /\ \E a \in Analyses : Judge(a)

JudgingSpec == JudgingInit /\ [][JudgingNext]_judgingVars

----------------------------------------------------------------------------
(* Properties                                                              *)

Written == jgReport.state = "written"

\* An artifact is blocked for a caller whose budget reaches its level (decision.rs).
BlocksAt(level, budget) == level \notin {Never, Uncalibrated} /\ level <= budget

\* A level that lies in its band: every hostile one is tighter than every suspicious one,
\* and a benign outcome fires at no budget a suspicious one does not.
InBand(o, p) == o.severity > p.severity /\ p.level \in Nat => o.level \in Nat /\ o.level <= p.level

\* "A consumer that only reads a number still sees the combined verdict" (DESIGN.md):
\* the fold blocks for the callers for whom one of the two engines would have, and for
\* nobody else, provided the engines' levels lie in their bands.
FoldBlocksAsEither ==
    Written /\ jgAnalysis.compared =>
        LET s == jgAnalysis.scan
            i == IsomerOutcome(jgAnalysis)
        IN InBand(s, i) /\ InBand(i, s) =>
           \A b \in BudgetsRead :
              BlocksAt(jgReport.verdict.level, b) <=> BlocksAt(s.level, b) \/ BlocksAt(i.level, b)

\* The sentence is not one of an interpreter that did not reach the verdict while
\* another that did has one (reason).
QuotedReachedIt ==
    Written => \A id \in {"llm", "diff_llm"} :
        /\ id \in jgReport.decided /\ jgReport.quoted \notin jgReport.decided
        => IF id = "llm" THEN ~FromScan(jgAnalysis) ELSE ~FromIsomer(jgAnalysis)

\* The number and the sentence of a report are those of the engines that earned it.
ReportIsEarned == FoldBlocksAsEither /\ QuotedReachedIt
=============================================================================
