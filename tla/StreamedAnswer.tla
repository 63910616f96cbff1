--------------------------- MODULE StreamedAnswer ---------------------------
(***************************************************************************)
(* How the callers that ride one run of /v1/analyze are answered: within   *)
(* the grace window as an ordinary response, after it as a stream of       *)
(* progress frames and one last frame.  answer, outcome_response, streamed *)
(* and v1_send of src/src/server/v1.rs, with Named and V1Framing.          *)
(*                                                                         *)
(* The callers come with names of their own for what is one run, and ask   *)
(* for the decision or the whole report.  What a decision says of a report *)
(* at a caller's budget is LookupAnswer's; the run is AnalysisFlights's.   *)
(***************************************************************************)
EXTENDS Naturals, Sequences, SequencesExt

CONSTANTS
    Riders,      \* callers
    Names,       \* what they may call the artifact: [field, key, asked]
    NoKey,       \* the key of an upload without a coordinate
    Lines        \* capacity of a stream's channel

ASSUME StreamAssumption == Lines \in Nat \ {0}

VARIABLES
    saRun,       \* 0 while the run goes on, then the status of what it has published
    saAttached,  \* callers whose attachment keeps the run wanted
    saCaller     \* a caller: see NewCaller

streamVars == <<saRun, saAttached, saCaller>>

\* A run ends with a report, or with a refusal that has a status.
Report == 200
Statuses == {Report, 413, 422, 429, 500}
Published == saRun # 0

\* Where its request is, what it asks, its status once there is one, the key its answer is filed
\* under, lines on the way to it and read by it, the line being sent, and whether the
\* body has ended for it or it has left.
NewCaller ==
    [pc |-> "new", ask |-> NoKey, status |-> 0, filed |-> NoKey, queue |-> <<>>, got |-> <<>>,
     line |-> <<>>, closed |-> FALSE, left |-> FALSE]

StreamInit ==
    /\ saRun = 0 /\ saAttached = {}
    /\ saCaller = [c \in Riders |-> NewCaller]

Is(c, pc) == saCaller[c].pc = pc
Set(c, caller) == saCaller' = [saCaller EXCEPT ![c] = caller]
LetGo(c) == saAttached' = saAttached \ {c}

----------------------------------------------------------------------------
(* The lines                                                               *)

Frame(kind, name, reason) == [kind |-> kind, name |-> name, reason |-> reason]

\* Named::locator names it in a frame, the digest if need be; a decision has no digest
\* for a name.
InDecision(n) == IF n.field = "sha256" THEN "null" ELSE n.asked

ProgressFrame(a) == Frame("progress", a.name.asked, "none")

\* A decision about a report, or the report.
OfReport(a) ==
    IF a.full THEN Frame("report", "null", "none")
    ELSE Frame("decision", InDecision(a.name), "none")

\* unretrievable_reason: what is a fact about the artifact.
ReasonOf(status) ==
    CASE status = 422 -> "unretrievable" [] status = 413 -> "too_large" [] OTHER -> "none"

Unanswered(a, status) ==
    Frame("unavailable", InDecision(a.name), ReasonOf(status))

\* What a stream ends with.  At capacity, the artifact was never looked at.
LastLine(a) ==
    IF saRun = Report THEN OfReport(a)
    ELSE IF saRun = 429 THEN Frame("refused", a.name.asked, "none")
    ELSE Unanswered(a, saRun)

----------------------------------------------------------------------------
(* The request                                                             *)

RunEnds(outcome) ==
    /\ ~Published /\ saRun' = outcome
    /\ UNCHANGED <<saAttached, saCaller>>

Ride(c, a) ==
    /\ Is(c, "new") /\ Set(c, [saCaller[c] EXCEPT !.pc = "grace", !.ask = a])
    /\ saAttached' = saAttached \cup {c}
    /\ UNCHANGED saRun

\* X-Scan-Purl, in a response and on a stream: one entry per artifact.
FiledUnder(a) == a.name.key

\* outcome_response: a report is 200, a refusal keeps its status and has no decision.
AnsweredInGrace(c) ==
    /\ Is(c, "grace") /\ Published
    /\ LET a == saCaller[c].ask IN
       Set(c, [saCaller[c] EXCEPT !.pc = "answered", !.filed = FiledUnder(a),
               !.status = saRun,
               !.got = IF saRun = Report THEN <<OfReport(a)>> ELSE <<>>])
    /\ LetGo(c) /\ UNCHANGED saRun

\* Mutation: the stream's task leaves the attachment with the handler.
AttachedStreamDrops(c) == saAttached \ {c}

AttachedStream(c) == saAttached

\* The window is over: 200 goes out before the outcome is known.
Streamed(c) ==
    /\ Is(c, "grace") /\ ~Published
    /\ Set(c, [saCaller[c] EXCEPT !.pc = "waiting", !.status = 200,
                                  !.filed = FiledUnder(saCaller[c].ask)])
    /\ saAttached' = AttachedStream(c) /\ UNCHANGED saRun

\* The timer, which may fire beside the outcome.
Progress(c) ==
    /\ Is(c, "waiting")
    /\ Set(c, [saCaller[c] EXCEPT !.pc = "progress", !.line = <<ProgressFrame(saCaller[c].ask)>>])
    /\ UNCHANGED <<saRun, saAttached>>

\* What is sent once the outcome is there.
LastLines(a) == <<LastLine(a)>>

\* The outcome; the attachment goes before the last line is sent.
Lands(c) ==
    /\ Is(c, "waiting") /\ Published
    /\ Set(c, [saCaller[c] EXCEPT !.pc = "last", !.line = LastLines(saCaller[c].ask)])
    /\ LetGo(c) /\ UNCHANGED saRun

\* A caller that has gone ends the stream; the run goes on.
Gone == "ended"

\* v1_send waits for room in the channel, and fails when nobody reads it any more.
SendLine(c) ==
    LET me == saCaller[c] IN
    /\ me.pc \in {"progress", "last"}
    /\ IF me.left
       THEN LET next == IF me.pc = "last" THEN "ended" ELSE Gone IN
            Set(c, [me EXCEPT !.pc = next])
            /\ IF next = "ended" THEN LetGo(c) ELSE UNCHANGED saAttached
       ELSE /\ Len(me.queue) < Lines
            /\ Set(c, [me EXCEPT !.pc = IF me.pc = "last" THEN "ended" ELSE "waiting",
                                 !.queue = me.queue \o me.line, !.line = <<>>])
            /\ UNCHANGED saAttached
    /\ UNCHANGED saRun

\* ChannelStream: the caller reads a line, or finds the end.  Of progress lines one
\* after the other only the last is kept.
ReadLine(c) ==
    LET me == saCaller[c]
        line == Head(me.queue)
        again == me.got # <<>> /\ line.kind = "progress" /\ Last(me.got).kind = "progress"
    IN
    /\ me.status = 200 /\ ~me.left /\ ~me.closed
    /\ \/ /\ me.queue # <<>>
          /\ Set(c, [me EXCEPT !.queue = Tail(me.queue),
                               !.got = IF again THEN me.got ELSE Append(me.got, line)])
       \/ /\ me.queue = <<>> /\ me.pc \in {"ended", "answered"}
          /\ Set(c, [me EXCEPT !.closed = TRUE])
    /\ UNCHANGED <<saRun, saAttached>>

\* Inside the window the handler goes with its connection.
CallerLeaves(c) ==
    LET me == saCaller[c] IN
    /\ me.pc \notin {"new", "answered"} /\ ~me.left /\ ~me.closed
    /\ Set(c, [me EXCEPT !.left = TRUE, !.queue = <<>>,
                         !.pc = IF me.pc = "grace" THEN "ended" ELSE me.pc])
    /\ IF me.pc = "grace" THEN LetGo(c) ELSE UNCHANGED saAttached
    /\ UNCHANGED saRun

Serve(c) == AnsweredInGrace(c) \/ Streamed(c) \/ Progress(c) \/ Lands(c) \/ SendLine(c)

StreamNext ==
    \/ \E outcome \in Statuses : RunEnds(outcome)
    \/ \E c \in Riders :
        \/ \E n \in Names, f \in BOOLEAN : Ride(c, [name |-> n, full |-> f])
        \/ Serve(c) \/ ReadLine(c) \/ CallerLeaves(c)

StreamSpec == StreamInit /\ [][StreamNext]_streamVars

\* The runtime polls a request's tasks and its timer comes round.  Nothing is assumed of
\* the callers or of the run.
StreamFairness == \A c \in Riders : WF_streamVars(Serve(c))

----------------------------------------------------------------------------
(* Properties                                                              *)

Rides(c) == ~Is(c, "new")
Streams(c) == saCaller[c].pc \in {"waiting", "progress", "last", "ended"} /\ saCaller[c].status = 200
LinesOf(c) == saCaller[c].got \o saCaller[c].queue

\* A stream is progress and then one last line, whatever the run came to and however
\* slowly the caller reads; a body that has ended was not cut off before it (streamed).
OneLastLine ==
    \A c \in Riders :
        /\ \A i \in 1 .. Len(LinesOf(c)) - 1 : LinesOf(c)[i].kind = "progress"
        /\ saCaller[c].closed => /\ saCaller[c].got # <<>>
                                 /\ Last(saCaller[c].got).kind # "progress"

\* A run refused for want of room is a decision for nobody: 429 for those within the
\* grace window, and a line without a decision for those on a stream.
RefusalDecidesNothing ==
    saRun = 429 => \A c \in Riders :
        /\ \A i \in 1 .. Len(LinesOf(c)) : LinesOf(c)[i].kind \in {"progress", "refused"}
        /\ Is(c, "answered") => saCaller[c].status = 429

\* Callers of one run are told the same of whose failure it was: the streamed ones by
\* the reason, the others by the status.
OneFailureForAll ==
    \A c, d \in Riders :
        /\ Is(c, "answered") /\ saCaller[d].closed /\ Streams(d)
        /\ saRun \notin {Report, 429}
        => /\ saCaller[c].status \in {413, 422} <=> Last(saCaller[d].got).reason # "none"
           /\ saCaller[c].status = 422 <=> Last(saCaller[d].got).reason = "unretrievable"

\* A run is not abandoned while a connected caller waits for it: its attachment is
\* held from the join to the outcome, through the change to a stream.
WaitedForIsWanted ==
    \A c \in Riders :
        Rides(c) /\ ~saCaller[c].left /\ ~Published => c \in saAttached

\* Two spellings of one coordinate are filed under one key, in a response and on a
\* stream alike, and each is answered in its own.
OneKeyManySpellings ==
    \A c, d \in Riders :
        /\ saCaller[c].status = 200 /\ saCaller[d].status = 200
        /\ saCaller[c].ask.name.key = saCaller[d].ask.name.key
        => /\ saCaller[c].filed = saCaller[d].filed
           /\ \A i \in 1 .. Len(LinesOf(c)) :
                 LinesOf(c)[i].name \in {saCaller[c].ask.name.asked, "null"}

\* A caller that leaves is let go, though the run never ends and nobody reads what is
\* on the way to it.
GoneIsLetGo == \A c \in Riders : saCaller[c].left ~> c \notin saAttached

\* Callers of one run hear the same of it, each whole, under the key and in the
\* spelling of their own, and the run goes on for as long as one of them listens.
StreamIsFaithful ==
    /\ OneLastLine /\ RefusalDecidesNothing /\ OneFailureForAll
    /\ WaitedForIsWanted /\ OneKeyManySpellings
=============================================================================
