--------------------------- MODULE MCServerParts ---------------------------
(* The server's smaller components on small instances, side by side: a     *)
(* behaviour picks one of them and takes steps of that one only, so that   *)
(* the states are the sum of theirs and each behaves as it does alone.     *)
EXTENDS AnalyzeRequest, RequestEdge, ServerReadiness, ServiceTimes, StreamedAnswer,
        Judging, MCMemoryAdmission, TLC

CONSTANTS
    r1, r2, s1, s2, p1, p2, p3, u1, bad

MCSymmetry == Permutations({r1, r2})

MCNetworks == {
    [family |-> "v4", addr |-> 5, prefix |-> 2],
    [family |-> "v6", addr |-> 1, prefix |-> 1],
    [family |-> "v6", addr |-> 7, prefix |-> 3]}

Asked(shas, purls, urls) == [sha |-> shas, purl |-> purls, url |-> urls]
Nothing == Asked(<<>>, <<>>, <<>>)

\* By one name, by two names of one artifact, by two artifacts, by more than
\* MaxKeys, by nothing, and by one that does not parse.
MCQuestions == {
    Asked(<<s1>>, <<>>, <<>>), Asked(<<s1>>, <<p1>>, <<>>), Asked(<<>>, <<p1>>, <<u1>>),
    Asked(<<>>, <<>>, <<u1>>), Asked(<<>>, <<p1, p2, p3>>, <<>>), Asked(<<s1, s2>>, <<>>, <<>>),
    Asked(<<>>, <<p1, p2, p3, p1>>, <<>>), Asked(<<s1, s2>>, <<p1>>, <<>>),
    Asked(<<>>, <<p1, bad>>, <<>>), Asked(<<>>, <<>>, <<u1, u1>>), Nothing}

Sent(question, flags, body) == Ask(question, flags, body, TRUE, TRUE)

MCAsks == {
    Sent(Nothing, {}, s1), Sent(Nothing, {"force"}, s1), Sent(Nothing, {}, "too_large"),
    Sent(Nothing, {}, "stalled"), Sent(Nothing, {}, "broken"), Sent(Nothing, {}, "none"),
    Ask(Nothing, {}, s1, FALSE, TRUE), Ask(Nothing, {}, s1, TRUE, FALSE),
    Sent(Asked(<<>>, <<p1>>, <<>>), {}, s1), Sent(Asked(<<>>, <<p1>>, <<>>), {"fresh"}, s1),
    Sent(Asked(<<>>, <<p1>>, <<>>), {}, "none"), Sent(Asked(<<>>, <<p2>>, <<>>), {"full"}, "none"),
    Sent(Asked(<<>>, <<>>, <<u1>>), {}, "none"), Sent(Asked(<<>>, <<>>, <<u1>>), {}, s1),
    Sent(Asked(<<s1>>, <<>>, <<>>), {"refresh"}, "none"),
    Sent(Asked(<<s1>>, <<>>, <<>>), {"refresh", "full"}, "none"),
    Sent(Asked(<<s1>>, <<>>, <<>>), {"refresh"}, s1),
    Sent(Asked(<<s1>>, <<>>, <<>>), {}, "none"),
    Sent(Asked(<<s1>>, <<p1>>, <<>>), {}, "none"),
    Sent(Asked(<<>>, <<bad>>, <<>>), {}, "none")}

\* One package in two spellings, and its bytes without a coordinate.
MCNames ==
    {[field |-> "purl", key |-> "normalized", asked |-> name] : name \in {"typed", "other"}}
        \cup {[field |-> "sha256", key |-> NoKey, asked |-> "digest"]}

Concludes(severity, level) == [severity |-> severity, level |-> level]

\* With calibrated levels, and under manual thresholds.
MCConcluded == {
    Concludes(Benign, Never), Concludes(Suspicious, 500), Concludes(Hostile, 10),
    Concludes(Suspicious, Uncalibrated), Concludes(Hostile, Uncalibrated)}

\* Inside its band, and tighter with scan's alarm beside it.
MCPlaced ==
    [band \in Bands |-> [corroborated \in BOOLEAN |->
        CASE band = Benign -> Never
          [] band = Suspicious -> IF corroborated THEN 400 ELSE 2000
          [] band = Hostile -> IF corroborated THEN 5 ELSE 25]]

VARIABLE part

partVars ==
    <<lookupVars, analyzeVars, edgeVars, readinessVars, serviceVars, streamVars, judgingVars,
      admissionVars, part>>

PartsInit ==
    /\ part \in {"lookup", "analyze", "edge", "requests", "cpu", "latency", "bucket", "stream",
                 "judging", "admission"}
    /\ LookupInit /\ AnalyzeInit /\ EdgeInit /\ ReadinessInit /\ ServiceInit
    /\ StreamInit /\ JudgingInit /\ AdmissionInit
    /\ part # "admission" => ceiling = 0

\* The request's own parts, and those beside it.
Asking  == UNCHANGED <<lookupVars, analyzeVars, edgeVars>>
Serving == UNCHANGED <<streamVars, judgingVars, admissionVars>>

PartsNext ==
    /\ UNCHANGED part
    /\ \/ /\ part = "lookup" /\ LookupNext
          /\ UNCHANGED <<analyzeVars, edgeVars, readinessVars, serviceVars>> /\ Serving
       \/ /\ part = "analyze" /\ AnalyzeNext
          /\ UNCHANGED <<lookupVars, edgeVars, readinessVars, serviceVars>> /\ Serving
       \/ /\ part = "edge" /\ EdgeNext
          /\ UNCHANGED <<lookupVars, analyzeVars, readinessVars, serviceVars>> /\ Serving
       \/ part = "requests" /\ RequestNext /\ Asking /\ UNCHANGED <<cbVars, serviceVars>> /\ Serving
       \/ part = "cpu" /\ CpuNext /\ Asking /\ UNCHANGED <<rdVars, serviceVars>> /\ Serving
       \/ part = "latency" /\ LatencyNext /\ Asking /\ UNCHANGED <<readinessVars, jbVars>> /\ Serving
       \/ part = "bucket" /\ BucketNext /\ Asking /\ UNCHANGED <<readinessVars, lwVars>> /\ Serving
       \/ /\ part = "stream" /\ StreamNext /\ Asking
          /\ UNCHANGED <<readinessVars, serviceVars, judgingVars, admissionVars>>
       \/ /\ part = "judging" /\ JudgingNext /\ Asking
          /\ UNCHANGED <<readinessVars, serviceVars, streamVars, admissionVars>>
       \/ /\ part = "admission" /\ AdmissionNext /\ Asking
          /\ UNCHANGED <<readinessVars, serviceVars, streamVars, judgingVars>>

PartsSpec == PartsInit /\ [][PartsNext]_partVars
=============================================================================
