--------------------------- MODULE AnalyzeRequest ---------------------------
(***************************************************************************)
(* POST /v1/analyze up to the run it joins: what is refused before the     *)
(* body is read, how the request is routed, what it may be answered from   *)
(* without an analysis, when it is admitted, and the repair of a missing   *)
(* hopper row.  V1Analyze::parse, v1_analyze, read_body, analyze_bytes,    *)
(* repair, refresh, analyze_url and analyze_purl of src/src/server/v1.rs.  *)
(*                                                                         *)
(* What decide answers is LookupAnswer's.  The readiness of the server and *)
(* its memory are ServerReadiness's and move freely here; the run itself   *)
(* is AnalysisFlights's.  Several requests share the repair permits.       *)
(***************************************************************************)
EXTENDS LookupAnswer

CONSTANTS
    Uploads,     \* requests
    Asks,        \* what they may ask: see Ask
    MaxRepairs   \* MAX_REPAIRS

\* What a request has for a body when it has no bytes of a digest.
NoBytes == {"none", "too_large", "stalled", "broken"}

\* An ask is what Ask makes of a question of names.
ASSUME AnalyzeAssumption ==
    /\ MaxRepairs \in Nat \ {0}
    /\ \A ask \in Asks :
         /\ ask = [q |-> ask.q, flags |-> ask.flags, body |-> ask.body, budget |-> ask.budget,
                  follow |-> ask.follow]
         /\ ask.q = [sha |-> ask.q.sha, purl |-> ask.q.purl, url |-> ask.q.url]
         /\ ask.q.sha \in Seq(Shas \cup Invalid)
         /\ ask.body \in Shas \cup NoBytes
    /\ Shas \cap NoBytes = {}

VARIABLES
    arReq,      \* arReq[r]: [pc, ask, end, d, follow, sample, probed]
    arRepair,   \* the requests whose bytes a repair task holds, with a permit or not
    arPermits,  \* AppState::repairs, the permits left
    arServer    \* [startup, over, corpus]: readiness, memory over its ceiling, --hopper

analyzeVars == <<arReq, arRepair, arPermits, arServer>>

\* A question: the names of LookupAnswer's, its flags, the body (none, bytes of some
\* digest, or one that cannot be read), and whether its budget
\* and its follow selection are acceptable.
Ask(q, flags, body, budget, follow) ==
    [q |-> q, flags |-> flags, body |-> body, budget |-> budget, follow |-> follow]

NoDecision == Unavailable([sha |-> NoName, purl |-> NoName, url |-> NoName], "none")
Idle(r)    == arReq[r].pc = "new"

AnalyzeInit ==
    /\ arReq = [r \in Uploads |-> [pc |-> "new", end |-> "none"]]
    /\ arRepair = {} /\ arPermits = MaxRepairs
    /\ arServer = [startup |-> "starting", over |-> FALSE, corpus |-> FALSE]

Move(r, pc) == arReq' = [arReq EXCEPT ![r].pc = pc]

\* The request ends; `follow` says whether the response names its follow policy.
Respond(r, end, d, follow) ==
    arReq' = [arReq EXCEPT ![r] = [@ EXCEPT !.pc = "done", !.end = end, !.d = d,
                                            !.follow = follow]]

Refuse(r, end) == Respond(r, end, NoDecision, FALSE)

Rest == UNCHANGED <<arRepair, arPermits, arServer>>

----------------------------------------------------------------------------
(* The server around it                                                    *)

ServerMoves ==
    /\ \/ /\ arServer.startup = "starting"
          /\ \E s \in {"ready", "failed"} : arServer' = [arServer EXCEPT !.startup = s]
       \/ arServer' = [arServer EXCEPT !.over = ~@]
       \/ /\ \A r \in Uploads : Idle(r)
          /\ arServer' = [arServer EXCEPT !.corpus = TRUE]
    /\ UNCHANGED <<arReq, arRepair, arPermits>>

----------------------------------------------------------------------------
(* The query and the body                                                  *)

Has(ask, flag) == flag \in ask.flags

\* V1Analyze::parse.
Accepted(ask) ==
    LET q == ask.q
        locators == {n \in {"purl", "url", "sha"} : q[n] # <<>>}
    IN /\ Cardinality(locators) <= 1 /\ Len(q.sha) <= 1
       /\ Parses(q.sha) /\ Parses(q.url) /\ Parses(q.purl)
       /\ Has(ask, "refresh") <=> q.sha # <<>>
       /\ ask.budget /\ ask.follow
       /\ Len(q.url) <= 1 /\ Len(q.purl) <= 1

Receive(r, ask) ==
    /\ arReq[r].pc = "new"
    /\ arReq' = [arReq EXCEPT ![r] =
         [pc |-> IF Accepted(ask) THEN "memory" ELSE "done", ask |-> ask,
          end |-> IF Accepted(ask) THEN "none" ELSE "bad_request", d |-> NoDecision,
          follow |-> FALSE, run |-> NoName, current |-> FALSE, probed |-> FALSE]]
    /\ Rest

\* check_memory, before a body is read; a refresh waits until it has to analyze.
CheckRoom(r) ==
    /\ arReq[r].pc = "memory"
    /\ IF ~Has(arReq[r].ask, "refresh") /\ arReq[r].ask.body # "none" /\ arServer.over
       THEN Refuse(r, "over_memory")
       ELSE Move(r, "body")
    /\ Rest

\* The bytes are the artifact; a name for another one may not come along.
RefusedWithBytes(ask) == Has(ask, "refresh") \/ ask.q.url # <<>>

\* read_body, and the route its outcome decides.
ReadAndRoute(r) ==
    /\ arReq[r].pc = "body"
    /\ LET ask == arReq[r].ask
           q == ask.q
       IN CASE ask.body = "too_large" -> Refuse(r, "too_large")
            [] ask.body = "stalled" -> Refuse(r, "timeout")
            [] ask.body = "broken" -> Refuse(r, "bad_request")
            [] ask.body \in Shas ->
                 IF RefusedWithBytes(ask) THEN Refuse(r, "bad_request") ELSE Move(r, "bytes")
            [] ask.body = "none" ->
                 CASE q.sha # <<>> -> Move(r, "refresh")
                   [] q.url # <<>> -> Move(r, "url")
                   [] q.purl # <<>> -> Move(r, "purl")
                   [] OTHER -> Refuse(r, "bad_request")
    /\ Rest

----------------------------------------------------------------------------
(* Answered from what is already known                                     *)

\* What decide may answer about a key.
MayDecide(key, fresh, corpus) ==
    (IF NeedsCorpus(key, corpus) THEN {}
     ELSE {Unavailable(key, "none")} \cup {Decided(key, v, "index", "index") : v \in HeldFor(key)})
    \cup UNION {
      IF BlessAnswers(key, bloom, corpus) \/ ~corpus
      THEN {FilterDecision(key, bloom, "bloom")}
      ELSE {Decided(key, v, "primary", "corpus") : v \in RecordsFor(key)}
             \cup {FilterDecision(key, bloom, "primary"),
                   UnreachableDecision(key, bloom, "none")}
      : bloom \in Opinions(fresh)}

\* Mutation: the PURL that came with the bytes is asked about too.
UploadKeyBoth(ask, sha) == [sha |-> sha, purl |-> Sole(ask.q.purl), url |-> NoName]

\* An upload is asked about by its digest alone: hopper answers on either key.
UploadKey(ask, sha) == [sha |-> sha, purl |-> NoName, url |-> NoName]

KeyOf(r) ==
    LET ask == arReq[r].ask IN
    CASE arReq[r].pc = "bytes" -> UploadKey(ask, ask.body)
      [] arReq[r].pc = "url" -> [sha |-> NoName, purl |-> NoName, url |-> Sole(ask.q.url)]
      [] arReq[r].pc = "purl" -> [sha |-> NoName, purl |-> Sole(ask.q.purl), url |-> NoName]

\* V1Decision::is_answerable.
IsAnswerable(d) == d.decision \notin {"unanalyzed", "unavailable"} /\ d.lvl # Manual

TakePermit == arPermits' = arPermits - 1

\* repair: the bytes are offered to hopper again, if a permit is left.
Repair(r) ==
    IF arReq[r].pc = "bytes" /\ arPermits > 0
    THEN arRepair' = arRepair \cup {r} /\ TakePermit
    ELSE UNCHANGED <<arRepair, arPermits>>

Probes(r) == arReq[r].ask.flags \cap {"full", "force", "refresh"} = {}

\* The preflight of analyze_bytes, analyze_url and analyze_purl.
Preflight(r, d) ==
    /\ arReq[r].pc \in {"bytes", "url", "purl"}
    /\ IF Probes(r)
       THEN /\ d \in MayDecide(KeyOf(r), Has(arReq[r].ask, "fresh"), arServer.corpus)
            /\ IF IsAnswerable(d)
               THEN Respond(r, "known", d, FALSE) /\ Repair(r)
               ELSE /\ arReq' = [arReq EXCEPT ![r].pc = "admit", ![r].probed = TRUE,
                                              ![r].run = arReq[r].pc]
                    /\ UNCHANGED <<arRepair, arPermits>>
       ELSE /\ d = NoDecision
            /\ arReq' = [arReq EXCEPT ![r].pc = "admit", ![r].run = arReq[r].pc]
            /\ UNCHANGED <<arRepair, arPermits>>
    /\ UNCHANGED arServer

\* The repair task stages its bytes, or fails to.
Repaired(r) ==
    /\ r \in arRepair
    /\ arRepair' = arRepair \ {r}
    /\ arPermits' = IF arPermits < MaxRepairs THEN arPermits + 1 ELSE arPermits
    /\ UNCHANGED <<arReq, arServer>>

----------------------------------------------------------------------------
(* A refresh                                                               *)

RefreshSha(r) == Sole(arReq[r].ask.q.sha)

\* The local index is of the loaded traits.
RefreshLocal(r, held) ==
    /\ arReq[r].pc = "refresh"
    /\ IF ~Has(arReq[r].ask, "full") /\ held # NoVerdict
       THEN /\ held \in {v \in Verdicts : v.sha = RefreshSha(r)}
            /\ arReq' = [arReq EXCEPT ![r] =
                 [@ EXCEPT !.pc = "done", !.end = "known", !.current = TRUE, !.follow = FALSE,
                  !.d = Decided([sha |-> held.sha, purl |-> NoName, url |-> NoName],
                                held, "index", "index")]]
       ELSE /\ held = NoVerdict
            /\ IF arServer.corpus THEN Move(r, "reconcile") ELSE Refuse(r, "unavailable")
    /\ Rest

\* same_analyzer: classified, by these traits; blank matches nothing.
SameAnalyzer(v, traits) == v.lvl # Manual /\ traits = "ours"

\* Hopper's record answers if these traits made it.
Reconcile(r, v, traits) ==
    /\ arReq[r].pc = "reconcile"
    /\ IF ~Has(arReq[r].ask, "full") /\ v # NoVerdict /\ SameAnalyzer(v, traits)
       THEN arReq' = [arReq EXCEPT ![r] =
              [@ EXCEPT !.pc = "done", !.end = "known", !.current = traits = "ours",
               !.follow = TRUE,
               !.d = Decided([sha |-> RefreshSha(r), purl |-> NoName, url |-> NoName],
                             v, "primary", "corpus")]]
       ELSE Move(r, "sample")
    /\ Rest

RightBytes(r, sha) == sha = RefreshSha(r)

\* The sample is fetched, or not; then the request is admitted, and analyzed as bytes.
FetchSample(r, sha) ==
    /\ arReq[r].pc = "sample"
    /\ CASE sha = NoName -> Refuse(r, "unavailable")
         [] sha # NoName /\ ~RightBytes(r, sha) -> Refuse(r, "bad_gateway")
         [] sha # NoName /\ RightBytes(r, sha) ->
              IF arServer.startup = "failed" \/ arServer.over THEN Refuse(r, "not_admitted")
              ELSE arReq' = [arReq EXCEPT ![r] =
                     [@ EXCEPT !.pc = "bytes", !.ask = [arReq[r].ask EXCEPT !.body = sha]]]
    /\ Rest

----------------------------------------------------------------------------
(* Admission                                                               *)

\* refused() adds the policy to a refusal; analyze_url answers the refusal as it is.
RefusalNamesFollow(r) == arReq[r].run # "url"

\* admit_request, and the run: from there AnalysisFlights.
AdmitAnalysis(r) ==
    /\ arReq[r].pc = "admit"
    /\ IF arServer.startup = "failed" \/ arServer.over
       THEN Respond(r, "not_admitted", NoDecision, RefusalNamesFollow(r))
       ELSE Respond(r, "run", NoDecision, TRUE)
    /\ Rest

AnalyzeNext ==
    \/ ServerMoves
    \/ \E r \in Uploads :
         \/ \E ask \in Asks : Receive(r, ask)
         \/ CheckRoom(r) \/ ReadAndRoute(r) \/ AdmitAnalysis(r) \/ Repaired(r)
         \/ /\ arReq[r].pc \in {"bytes", "url", "purl"}
            /\ \E d \in MayDecide(KeyOf(r), Has(arReq[r].ask, "fresh"), arServer.corpus)
                          \cup {NoDecision} : Preflight(r, d)
         \/ \E v \in Verdicts \cup {NoVerdict} :
              \/ RefreshLocal(r, v)
              \/ /\ arReq[r].pc = "reconcile" /\ (v = NoVerdict \/ v.sha = RefreshSha(r))
                 /\ \E traits \in {"ours", "others"} : Reconcile(r, v, traits)
         \/ \E sha \in Shas \cup {NoName} : FetchSample(r, sha)

AnalyzeSpec == AnalyzeInit /\ [][AnalyzeNext]_analyzeVars

----------------------------------------------------------------------------
(* Properties                                                              *)

Ended(r, end) == arReq[r].pc = "done" /\ arReq[r].end = end

\* A repair's permit is out exactly while its task holds the bytes: at most MaxRepairs
\* uploads are kept in memory for hopper's sake.
RepairsBounded ==
    /\ Cardinality(arRepair) <= MaxRepairs
    /\ arPermits = MaxRepairs - Cardinality(arRepair)

\* An upload answered without an analysis is answered about its own bytes, whatever
\* PURL came with them: bytes cannot borrow a package's verdict.
UploadJudgedByItsDigest ==
    \A r \in Uploads :
        Ended(r, "known") /\ arReq[r].ask.body \in Shas
            => arReq[r].d.sha = arReq[r].ask.body

\* Only an answer stands in for a run: an outage, or an artifact nobody has analyzed,
\* is never reported as one.  (A refresh takes whatever its local index holds, a
\* verdict no level table applies to included.)
OnlyAnswersStandIn ==
    \A r \in Uploads :
        Ended(r, "known") =>
            \/ arReq[r].d.decision \in {"block", "allow"}
            \/ Has(arReq[r].ask, "refresh") /\ arReq[r].d.by = "index"

\* A server that cannot analyze still answers what it knows: a request is refused
\* admission only after nothing was found, or when it asked for a run.
RefusedOnlyForWork ==
    \A r \in Uploads :
        Ended(r, "not_admitted") =>
            \/ arReq[r].probed
            \/ arReq[r].ask.flags \cap {"full", "force", "refresh"} # {}

\* A refresh answered without a run rests on a verdict of the loaded traits, and the
\* run it starts is over the bytes it named.
RefreshIsCurrent ==
    \A r \in Uploads :
        arReq[r].pc = "done" /\ arReq[r].end \in {"known", "run"}
          /\ Has(arReq[r].ask, "refresh") =>
            IF arReq[r].end = "known" THEN arReq[r].current
            ELSE arReq[r].ask.body = RefreshSha(r)

\* A request names one artifact: what runs is never one of two it could have meant.
OneArtifactRuns ==
    \A r \in Uploads :
        Ended(r, "run") =>
            /\ arReq[r].run = "bytes" => arReq[r].ask.q.url = <<>>
            /\ arReq[r].run # "bytes" => arReq[r].ask.body = "none"

\* The text over refused(): every analyze answer names the follow policy it ran or
\* would have run under, refusals of admission included.
EveryAnswerNamesFollow ==
    \A r \in Uploads :
        arReq[r].pc = "done" /\ arReq[r].end \in {"known", "not_admitted", "run"}
            => arReq[r].follow

\* What an analyze request is told, refused for or run over is about the artifact it
\* named, and nothing it leaves behind piles up.
AnswersAreAboutTheAsked ==
    /\ UploadJudgedByItsDigest /\ OnlyAnswersStandIn /\ RefreshIsCurrent
    /\ OneArtifactRuns /\ RefusedOnlyForWork
    /\ RepairsBounded
=============================================================================
