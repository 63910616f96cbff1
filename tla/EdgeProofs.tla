----------------------------- MODULE EdgeProofs ----------------------------
(***************************************************************************)
(* That the edge of the server is sound for addresses of any width, any    *)
(* networks and any number of requests.  The peer gate compares masked     *)
(* numbers; the lemmas on masks show that this is the comparison of        *)
(* prefixes that PeerGateIsThePrefix states.  The rest is an invariant of  *)
(* each request on its own, strengthened with what every step of it has    *)
(* settled: who the peer is, what the token was worth, why it failed.      *)
(*                                                                         *)
(* And that a lookup of the corpus behind it claims no more than it heard, *)
(* for any addresses, readers and times.  A word about the lag is dated    *)
(* before its question, so the replica has been within its bounds since;   *)
(* what was tried and what is left to try are all the addresses.           *)
(***************************************************************************)
EXTENDS RequestEdge, CorpusReads, FiniteSetTheorems, SequenceTheorems, TLAPS

Auths  == {"no_peer", "peer_denied", "none", "open", "token", "anon"} \cup Creds
Levels == {"none", "error", "warn", "info", "debug"}
NoFailure == [kind |-> "none"]

\* A request that has arrived.
Arrived == [pc : {"wait", "handler", "answered", "logged"}, peer : Peers, cred : Creds,
            health : BOOLEAN, at : Nat, auth : Auths, trusted : BOOLEAN, status : Nat,
            fail : Failures \cup {NoFailure}, level : Levels]

PeerLetIn(req) == Normalize(req.peer) # NoPeer /\ PeerAdmitted(Normalize(req.peer))

\* What went wrong decides the status, and no failure is answered as a refusal.
FailureAnswered(req) ==
    /\ req.fail.kind = "chain" => (req.status \in {413, 415, 422} <=> req.fail.cause # "plain")
    /\ req.fail.kind = "fetch" =>
          (req.status \in {413, 415, 422} <=> req.fail.outcome \in {"too_large", "gone"})
    /\ req.fail.kind = "whale" => req.status \notin {413, 415, 422}

\* What is known of a request that has arrived, under a configuration with or without a token.
Sound(req, token) ==
    /\ req \in Arrived
    /\ req.auth \in {"no_peer", "peer_denied"} <=> ~PeerLetIn(req)
    /\ req.pc = "wait" => req.auth = "none" /\ req.fail = NoFailure
    /\ req.trusted <=> req.auth \in {"token", "open"}
    /\ req.trusted => req.cred = "right" \/ ~token
    /\ req.pc = "handler" =>
          (req.trusted \/ req.health) /\ ~Denied(req.auth) /\ req.fail = NoFailure
    /\ req.pc \in {"answered", "logged"} =>
          /\ FailureAnswered(req)
          /\ req.status \in {401, 403} => Denied(req.auth)
    /\ req.pc = "logged" => req.level = Level(req)

EdgeInv ==
    /\ edNow \in Nat /\ edToken \in BOOLEAN
    /\ edReq \in [Callers -> {[pc |-> "new"]} \cup Arrived]
    /\ \A c \in Callers : edReq[c].pc # "new" => Sound(edReq[c], edToken)

\* An arrived request is not a new one.
LEMMA ArrivedIsNotNew == \A req \in Arrived : req.pc # "new" /\ req # [pc |-> "new"]
<1> SUFFICES ASSUME NEW req \in Arrived PROVE req.pc # "new" /\ req # [pc |-> "new"]
  OBVIOUS
<1>1. req.pc \in {"wait", "handler", "answered", "logged"}
  BY DEF Arrived
<1> QED
  BY <1>1

\* Each failure is answered for its kind.
LEMMA FailureIsAnswered ==
    ASSUME NEW f \in Failures
    PROVE  /\ FromAnalysis(f) \in {413, 415, 422, 429, 500, 503}
           /\ f.kind = "chain" => (FromAnalysis(f) \in {413, 415, 422} <=> f.cause # "plain")
           /\ f.kind = "fetch" =>
                 (FromAnalysis(f) \in {413, 415, 422} <=> f.outcome \in {"too_large", "gone"})
           /\ f.kind = "whale" => FromAnalysis(f) \notin {413, 415, 422}
<1>1. CASE f.kind = "whale"
  BY <1>1 DEF FromAnalysis
<1>2. CASE f.kind = "fetch"
  <2>1. f.outcome \in Outcomes
    BY <1>2 DEF Failures
  <2>2. FromAnalysis(f) = IF Infrastructure(f.outcome) THEN 503
                          ELSE IF f.outcome = "too_large" THEN 413 ELSE 422
    BY <1>2 DEF FromAnalysis
  <2> QED
    BY <1>2, <2>1, <2>2 DEF Outcomes, Infrastructure
<1>3. CASE f.kind = "chain"
  <2>1. f.cause \in Words
    BY <1>3 DEF Failures
  <2>2. FromAnalysis(f) = Classified({f.cause})
    BY <1>3 DEF FromAnalysis, Causes
  <2> QED
    BY <1>3, <2>1, <2>2 DEF Words, Classified
<1>4. f.kind \in {"whale", "fetch", "chain"}
  BY DEF Failures
<1> QED
  BY <1>1, <1>2, <1>3, <1>4

\* The gate decides on the arrived request, at once or after the delay.
LEMMA AdmittedIsSound ==
    ASSUME NEW req \in Arrived, req.auth = "none", req.fail = NoFailure,
           PeerLetIn(req), NEW token \in BOOLEAN, edToken = token
    PROVE  LET q == Admitted(req, AuthOf(Normalize(req.peer), req.cred, req.health))
           IN  Sound(q, token) /\ q.pc \in {"handler", "answered"} /\ q.at = req.at /\ q.cred = req.cred
<1> DEFINE auth == AuthOf(Normalize(req.peer), req.cred, req.health)
           q == Admitted(req, auth)
<1>1. auth \in {"open", "token", "anon", "wrong", "malformed", "none"}
  BY DEF AuthOf, Arrived, Creds
<1>2. Denied(auth) \in BOOLEAN /\ Trusts(auth) \in BOOLEAN
  BY DEF Denied, Trusts
<1>3. /\ q.pc = (IF Denied(auth) THEN "answered" ELSE "handler") /\ q.auth = auth
      /\ q.trusted = Trusts(auth) /\ q.status = (IF Denied(auth) THEN 401 ELSE 0)
      /\ q.peer = req.peer /\ q.cred = req.cred /\ q.health = req.health /\ q.at = req.at
      /\ q.fail = req.fail /\ q.level = req.level
  BY DEF Admitted, Arrived
<1>4. q \in Arrived
  <2> DEFINE pc == IF Denied(auth) THEN "answered" ELSE "handler"
             status == IF Denied(auth) THEN 401 ELSE 0
  <2>1. pc \in {"wait", "handler", "answered", "logged"} /\ status \in Nat /\ auth \in Auths
    BY <1>1 DEF Auths, Creds
  <2>2. q = [req EXCEPT !.pc = pc, !.auth = auth, !.trusted = Trusts(auth), !.status = status]
    BY DEF Admitted
  <2> HIDE DEF q, auth, pc, status
  <2> QED
    BY <1>2, <2>1, <2>2 DEF Arrived
<1>5. PeerLetIn(q)
  BY <1>3 DEF PeerLetIn
<1>6. Trusts(auth) => req.cred = "right" \/ ~token
  BY DEF Trusts, AuthOf, Arrived, Creds
<1>7. ~Denied(auth) => Trusts(auth) \/ req.health
  BY DEF Denied, Trusts, AuthOf, Arrived, Creds
<1>8. FailureAnswered(q)
  BY <1>3 DEF FailureAnswered, NoFailure
<1> HIDE DEF q, auth
<1>9. Sound(q, token)
  <2>1. q.auth \notin {"no_peer", "peer_denied"} /\ q.pc \in {"handler", "answered"}
    BY <1>1, <1>3
  <2>2. (q.trusted <=> q.auth \in {"token", "open"}) /\ (q.trusted => q.cred = "right" \/ ~token)
    BY <1>3, <1>6 DEF Trusts
  <2>3. q.pc = "handler" => (q.trusted \/ q.health) /\ ~Denied(q.auth) /\ q.fail = NoFailure
    BY <1>3, <1>7
  <2>4. q.status \in {401, 403} => Denied(q.auth)
    BY <1>3
  <2> QED
    BY <1>4, <1>5, <1>8, <2>1, <2>2, <2>3, <2>4 DEF Sound
<1> QED
  BY <1>3, <1>9 DEF q, auth

\* A peer that is not let in is refused, whatever else it sent.
LEMMA RefusedIsSound ==
    ASSUME NEW req \in Arrived, req.auth = "none", req.fail = NoFailure, ~req.trusted,
           ~PeerLetIn(req), NEW token \in BOOLEAN, NEW auth \in {"no_peer", "peer_denied"}
    PROVE  LET q == Refused(req, auth, 403)
           IN  /\ Sound(q, token) /\ q.pc = "answered" /\ q.auth = auth
               /\ q.at = req.at /\ q.cred = req.cred
<1> DEFINE q == Refused(req, auth, 403)
<1>1. /\ q.pc = "answered" /\ q.auth = auth /\ q.status = 403
      /\ q.trusted = req.trusted /\ q.peer = req.peer /\ q.fail = req.fail
      /\ q.at = req.at /\ q.cred = req.cred
  BY DEF Refused, Arrived
<1>2. q \in Arrived
  <2>1. auth \in Auths /\ 403 \in Nat /\ "answered" \in {"wait", "handler", "answered", "logged"}
    BY DEF Auths
  <2> DEFINE over == [req EXCEPT !.pc = "answered"]
             told == [over EXCEPT !.auth = auth]
  <2>2. over \in Arrived
    BY DEF Arrived
  <2>3. told \in Arrived
    <3> HIDE DEF over
    <3> QED
      BY <2>1, <2>2 DEF Arrived
  <2>4. q = [told EXCEPT !.status = 403]
    BY DEF Refused
  <2> HIDE DEF told, q
  <2> QED
    BY <2>3, <2>4 DEF Arrived
<1>3. ~PeerLetIn(q) /\ FailureAnswered(q)
  BY <1>1 DEF PeerLetIn, FailureAnswered, NoFailure
<1> HIDE DEF q
<1>4. Sound(q, token)
  <2>1. ~q.trusted /\ q.auth \notin {"token", "open"} /\ Denied(q.auth)
    BY <1>1 DEF Denied
  <2>2. (q.trusted <=> q.auth \in {"token", "open"})
    BY <2>1
  <2> QED
    BY <1>1, <1>2, <1>3, <2>1, <2>2 DEF Sound
<1> QED
  BY <1>1, <1>4 DEF q

\* The handler's answer.
Handled(req, f, status) == [req EXCEPT !.pc = "answered", !.fail = f, !.status = status]

LEMMA HandledIsSound ==
    ASSUME NEW req, NEW token \in BOOLEAN, Sound(req, token), req.pc = "handler",
           NEW f \in Failures \cup {NoFailure}, NEW status \in Nat \ {401, 403},
           /\ f.kind = "chain" => (status \in {413, 415, 422} <=> f.cause # "plain")
           /\ f.kind = "fetch" => (status \in {413, 415, 422} <=> f.outcome \in {"too_large", "gone"})
           /\ f.kind = "whale" => status \notin {413, 415, 422}
    PROVE  Sound(Handled(req, f, status), token)
<1> DEFINE q == [req EXCEPT !.pc = "answered", !.fail = f, !.status = status]
<1>1. req \in Arrived
  BY DEF Sound
<1>2. /\ q.pc = "answered" /\ q.auth = req.auth /\ q.status = status /\ q.fail = f
      /\ q.trusted = req.trusted /\ q.peer = req.peer /\ q.cred = req.cred
  BY <1>1 DEF Arrived
<1>3. q \in Arrived
  <2>1. status \in Nat /\ "answered" \in {"wait", "handler", "answered", "logged"}
    OBVIOUS
  <2> DEFINE over == [req EXCEPT !.pc = "answered"]
             told == [over EXCEPT !.fail = f]
  <2>2. over \in Arrived
    BY <1>1 DEF Arrived
  <2>3. told \in Arrived
    <3> HIDE DEF over
    <3> QED
      BY <2>2 DEF Arrived
  <2>4. q = [told EXCEPT !.status = status]
    OBVIOUS
  <2> HIDE DEF told, q
  <2> QED
    BY <2>1, <2>3, <2>4 DEF Arrived
<1>4. PeerLetIn(q) <=> PeerLetIn(req)
  BY <1>2 DEF PeerLetIn
<1>5. FailureAnswered(q)
  BY <1>2 DEF FailureAnswered
<1> HIDE DEF q
<1>6. Sound(q, token)
  BY <1>2, <1>3, <1>4, <1>5 DEF Sound
<1> QED
  BY <1>6 DEF q, Handled

\* The access line.
LEMMA LoggedIsSound ==
    ASSUME NEW req, NEW token \in BOOLEAN, Sound(req, token), req.pc = "answered"
    PROVE  Sound([req EXCEPT !.pc = "logged", !.level = Level(req)], token)
<1> DEFINE q == [req EXCEPT !.pc = "logged", !.level = Level(req)]
<1>1. req \in Arrived /\ Level(req) \in Levels
  BY DEF Sound, Level, Levels
<1>2. /\ q.pc = "logged" /\ q.auth = req.auth /\ q.status = req.status /\ q.fail = req.fail
      /\ q.trusted = req.trusted /\ q.peer = req.peer /\ q.cred = req.cred
      /\ q.health = req.health /\ q.level = Level(req)
  BY <1>1 DEF Arrived
<1>3. q \in Arrived
  BY <1>1 DEF Arrived
<1>4. (PeerLetIn(q) <=> PeerLetIn(req)) /\ (FailureAnswered(q) <=> FailureAnswered(req))
  BY <1>2 DEF PeerLetIn, FailureAnswered
<1>5. Level(q) = Level(req)
  BY <1>2 DEF Level
<1> HIDE DEF q
<1>6. Sound(q, token)
  BY <1>2, <1>3, <1>4, <1>5 DEF Sound
<1> QED
  BY <1>6 DEF q

\* What acl makes of a request on arrival: it waits, or its gate has decided.
LEMMA ArrivesIsSound ==
    ASSUME EdgeInv, NEW c \in Callers, NEW raw \in Peers, NEW cred \in Creds,
           NEW health \in BOOLEAN, Arrives(c, raw, cred, health)
    PROVE  /\ Sound(edReq'[c], edToken)
           /\ edToken /\ cred = "wrong" /\ edReq'[c].auth \notin {"no_peer", "peer_denied"}
                => edReq'[c].pc = "wait"
           /\ edReq'[c].cred = cred /\ edReq'[c].at = edNow
           /\ edReq' = [edReq EXCEPT ![c] = edReq'[c]]
<1> DEFINE req == [pc |-> "wait", peer |-> raw, cred |-> cred, health |-> health, at |-> edNow,
                   auth |-> "none", trusted |-> FALSE, status |-> 0, fail |-> [kind |-> "none"],
                   level |-> "none"]
           peer == Normalize(raw)
           q == IF peer = NoPeer THEN Refused(req, "no_peer", 403)
                ELSE IF ~PeerAdmitted(peer) THEN Refused(req, "peer_denied", 403)
                ELSE IF edToken /\ Waits(cred, health) THEN req
                ELSE Admitted(req, AuthOf(peer, cred, health))
<1>1. edReq' = [edReq EXCEPT ![c] = q]
  BY DEF Arrives
<1>2. edReq'[c] = q /\ edReq' = [edReq EXCEPT ![c] = edReq'[c]]
  BY <1>1 DEF EdgeInv
<1>3. req \in Arrived
  BY DEF EdgeInv, Arrived, Auths, Levels, NoFailure
<1>4. req.auth = "none" /\ req.fail = NoFailure /\ ~req.trusted /\ req.peer = raw /\ req.cred = cred
  BY DEF NoFailure
<1>5. edToken \in BOOLEAN
  BY DEF EdgeInv
<1>6. CASE peer = NoPeer
  <2>1. ~PeerLetIn(req)
    BY <1>6 DEF PeerLetIn
  <2> DEFINE refused == Refused(req, "no_peer", 403)
  <2>2. edReq'[c] = refused /\ req.at = edNow
    BY <1>2, <1>6
  <2> HIDE DEF req
  <2>3. /\ Sound(refused, edToken) /\ refused.auth = "no_peer"
        /\ refused.at = req.at /\ refused.cred = req.cred
    BY <1>3, <1>4, <1>5, <2>1, RefusedIsSound
  <2> HIDE DEF refused
  <2> QED
    BY <1>2, <1>4, <2>2, <2>3
<1>7. CASE peer # NoPeer /\ ~PeerAdmitted(peer)
  <2>1. ~PeerLetIn(req)
    BY <1>7 DEF PeerLetIn
  <2> DEFINE refused == Refused(req, "peer_denied", 403)
  <2>2. edReq'[c] = refused /\ req.at = edNow
    BY <1>2, <1>7
  <2> HIDE DEF req
  <2>3. /\ Sound(refused, edToken) /\ refused.auth = "peer_denied"
        /\ refused.at = req.at /\ refused.cred = req.cred
    BY <1>3, <1>4, <1>5, <2>1, RefusedIsSound
  <2> HIDE DEF refused
  <2> QED
    BY <1>2, <1>4, <2>2, <2>3
<1>8. CASE peer # NoPeer /\ PeerAdmitted(peer) /\ edToken /\ Waits(cred, health)
  <2>1. PeerLetIn(req)
    BY <1>8 DEF PeerLetIn
  <2>2. Sound(req, edToken)
    <3>1. req.pc = "wait" /\ req.auth \notin {"no_peer", "peer_denied", "token", "open"}
      OBVIOUS
    <3> HIDE DEF req
    <3>2. req.trusted <=> req.auth \in {"token", "open"}
      BY <1>4, <3>1
    <3> QED
      BY <1>3, <1>4, <2>1, <3>1, <3>2 DEF Sound
  <2>3. edReq'[c] = req
    BY <1>2, <1>8
  <2>4. req.pc = "wait" /\ req.cred = cred /\ req.at = edNow
    OBVIOUS
  <2> HIDE DEF req
  <2> QED
    BY <1>2, <2>2, <2>3, <2>4
<1>9. CASE peer # NoPeer /\ PeerAdmitted(peer) /\ ~(edToken /\ Waits(cred, health))
  <2>1. PeerLetIn(req)
    BY <1>9 DEF PeerLetIn
  <2>2. edReq'[c] = Admitted(req, AuthOf(Normalize(req.peer), req.cred, req.health))
    BY <1>2, <1>9
  <2> HIDE DEF req
  <2>3. Sound(edReq'[c], edToken) /\ edReq'[c].at = req.at /\ edReq'[c].cred = req.cred
    BY <1>3, <1>4, <1>5, <2>1, <2>2, AdmittedIsSound
  <2> QED
    BY <1>2, <1>9, <2>3 DEF Waits, req
<1> QED
  BY <1>6, <1>7, <1>8, <1>9

LEMMA EdgeInitInv == EdgeInit => EdgeInv
<1> SUFFICES ASSUME EdgeInit PROVE EdgeInv
  OBVIOUS
<1>1. edNow \in Nat /\ edToken \in BOOLEAN
  BY DEF EdgeInit
<1>2. edReq \in [Callers -> {[pc |-> "new"]} \cup Arrived]
  BY DEF EdgeInit
<1>3. \A c \in Callers : edReq[c].pc = "new"
  BY DEF EdgeInit
<1> QED
  BY <1>1, <1>2, <1>3 DEF EdgeInv

\* A step that changes one request, and leaves it sound, keeps the invariant.
LEMMA EdgeOneRequest ==
    ASSUME EdgeInv, NEW c \in Callers, NEW q, Sound(q, edToken),
           edReq' = [edReq EXCEPT ![c] = q], UNCHANGED <<edNow, edToken>>
    PROVE  EdgeInv'
<1>1. q \in Arrived
  BY DEF Sound
<1>2. edReq' \in [Callers -> {[pc |-> "new"]} \cup Arrived]
  BY <1>1 DEF EdgeInv
<1>3. ASSUME NEW d \in Callers, edReq'[d].pc # "new" PROVE Sound(edReq'[d], edToken)
  BY <1>3 DEF EdgeInv
<1>4. ASSUME NEW d \in Callers, edReq'[d].pc # "new" PROVE Sound(edReq'[d], edToken')
  BY <1>3, <1>4
<1> QED
  BY <1>2, <1>4 DEF EdgeInv

LEMMA EdgeStepInv == EdgeInv /\ [EdgeNext]_edgeVars => EdgeInv'
<1> SUFFICES ASSUME EdgeInv, [EdgeNext]_edgeVars PROVE EdgeInv'
  OBVIOUS
<1>1. edToken \in BOOLEAN /\ edNow \in Nat
  BY DEF EdgeInv
<1>2. CASE Configure
  BY <1>2 DEF Configure, EdgeInv
<1>3. CASE EdTick
  BY <1>3 DEF EdTick, EdgeInv
<1>4. ASSUME NEW c \in Callers, NEW raw \in Peers, NEW cred \in Creds, NEW health \in BOOLEAN,
             Arrives(c, raw, cred, health)
      PROVE  EdgeInv'
  <2>1. Sound(edReq'[c], edToken) /\ edReq' = [edReq EXCEPT ![c] = edReq'[c]]
    BY <1>4, ArrivesIsSound
  <2>2. UNCHANGED <<edNow, edToken>>
    BY <1>4 DEF Arrives
  <2> QED
    BY <2>1, <2>2, EdgeOneRequest
<1>5. ASSUME NEW c \in Callers, edReq[c].pc # "new" PROVE Sound(edReq[c], edToken)
  BY <1>5 DEF EdgeInv
<1>6. ASSUME NEW c \in Callers, Waited(c) PROVE EdgeInv'
  <2> DEFINE req == edReq[c]
             q == Admitted(req, AuthOf(Normalize(req.peer), req.cred, req.health))
  <2>1. Sound(req, edToken) /\ req.pc = "wait"
    BY <1>5, <1>6 DEF Waited
  <2>2. req \in Arrived /\ req.auth = "none" /\ req.fail = NoFailure /\ PeerLetIn(req)
    BY <2>1 DEF Sound
  <2>3. Sound(q, edToken)
    BY <1>1, <2>2, AdmittedIsSound
  <2>4. edReq' = [edReq EXCEPT ![c] = q] /\ UNCHANGED <<edNow, edToken>>
    BY <1>6 DEF Waited
  <2> QED
    BY <2>3, <2>4, EdgeOneRequest
<1>7. ASSUME NEW c \in Callers, Handle(c) PROVE EdgeInv'
  <2> DEFINE req == edReq[c]
             plain(status) == [edReq EXCEPT ![c] = [@ EXCEPT !.pc = "answered",
                                                             !.status = status]]
             failing(f) == [edReq EXCEPT ![c] = [@ EXCEPT !.pc = "answered", !.fail = f,
                                                          !.status = FromAnalysis(f)]]
  <2>1. Sound(req, edToken) /\ req.pc = "handler"
    BY <1>5, <1>7 DEF Handle
  <2>2. UNCHANGED <<edNow, edToken>>
    BY <1>7 DEF Handle
  <2>3. ASSUME NEW status \in {200, 500},
               edReq' = plain(status)
        PROVE  EdgeInv'
    <3> DEFINE q == Handled(req, NoFailure, status)
    <3>1. Sound(q, edToken)
      <4>1. NoFailure.kind = "none" /\ NoFailure \in Failures \cup {NoFailure}
        BY DEF NoFailure
      <4>2. NoFailure.kind # "chain" /\ NoFailure.kind # "fetch" /\ NoFailure.kind # "whale"
        BY <4>1
      <4>3. status \in Nat \ {401, 403}
        OBVIOUS
      <4> QED
        BY <1>1, <2>1, <4>1, <4>2, <4>3, HandledIsSound
    <3>2. [req EXCEPT !.pc = "answered", !.status = status] = q
      <4>1. req.fail = NoFailure /\ req \in Arrived
        BY <2>1 DEF Sound
      <4> QED
        BY <4>1 DEF Arrived, Handled
    <3>3. edReq' = [edReq EXCEPT ![c] = q]
      BY <2>3, <3>2
    <3> QED
      BY <2>2, <3>1, <3>3, EdgeOneRequest
  <2>4. ASSUME NEW f \in Failures,
               edReq' = failing(f)
        PROVE  EdgeInv'
    <3> DEFINE q == Handled(req, f, FromAnalysis(f))
    <3>1. FromAnalysis(f) \in Nat \ {401, 403}
      BY FailureIsAnswered
    <3>2. Sound(q, edToken)
      <4>1. f \in Failures \cup {NoFailure}
        OBVIOUS
      <4> QED
        BY <1>1, <2>1, <3>1, <4>1, FailureIsAnswered, HandledIsSound
    <3>3. edReq' = [edReq EXCEPT ![c] = q]
      BY <2>4 DEF Handled
    <3> QED
      BY <2>2, <3>2, <3>3, EdgeOneRequest
  <2>5. CASE \E status \in {200, 500} : edReq' = plain(status)
    <3> HIDE DEF req, plain
    <3> QED
      BY <2>3, <2>5
  <2>6. CASE \E f \in Failures : edReq' = failing(f)
    <3> HIDE DEF req, failing
    <3> QED
      BY <2>4, <2>6
  <2> HIDE DEF req
  <2> QED
    BY <1>7, <2>5, <2>6, Zenon DEF Handle
<1>8. ASSUME NEW c \in Callers, LogLine(c) PROVE EdgeInv'
  <2> DEFINE req == edReq[c]
             q == [req EXCEPT !.pc = "logged", !.level = Level(req)]
  <2>1. Sound(req, edToken) /\ req.pc = "answered"
    BY <1>5, <1>8 DEF LogLine
  <2>2. Sound(q, edToken)
    BY <1>1, <2>1, LoggedIsSound
  <2>3. edReq' = [edReq EXCEPT ![c] = q] /\ UNCHANGED <<edNow, edToken>>
    BY <1>8 DEF LogLine
  <2> QED
    BY <2>2, <2>3, EdgeOneRequest
<1>9. CASE UNCHANGED edgeVars
  BY <1>9 DEF edgeVars, EdgeInv
<1> QED
  BY <1>2, <1>3, <1>4, <1>6, <1>7, <1>8, <1>9 DEF EdgeNext

\* The invariant of the edge holds in every run.
THEOREM EdgeInvariant == EdgeSpec => []EdgeInv
BY EdgeInitInv, EdgeStepInv, PTL DEF EdgeSpec

\* Masking the tail of two addresses compares their quotients, whatever the size of a network.
LEMMA MaskIsQuotient ==
    ASSUME NEW x \in Nat, NEW y \in Nat, NEW m \in Nat \ {0}
    PROVE  x - (x % m) = y - (y % m) <=> x \div m = y \div m
OBVIOUS

LEMMA SmallQuotient == ASSUME NEW x \in Nat, NEW m \in Nat \ {0}, x < m PROVE x \div m = 0
OBVIOUS

\* contains masks, the property takes the leading bits: they agree, at prefix 0 too.
LEMMA ContainsIsThePrefix ==
    ASSUME NEW net \in Networks, NEW family, NEW addr \in Addrs
    PROVE  CidrContains(net, [family |-> family, addr |-> addr])
              <=> net.family = family /\ Top(net.addr, net.prefix) = Top(addr, net.prefix)
<1>1. net.addr \in Addrs /\ net.prefix \in 0 .. AddrBits /\ AddrBits \in Nat
  BY NetworksAssumption, EdgeAssumption
<1> DEFINE m == 2 ^ (AddrBits - net.prefix)
<1>2. m \in Nat \ {0} /\ 2 ^ AddrBits \in Nat \ {0}
  BY <1>1, PowersAssumption
<1>3. net.addr \in Nat /\ addr \in Nat /\ net.addr < 2 ^ AddrBits /\ addr < 2 ^ AddrBits
  BY <1>1, <1>2 DEF Addrs
<1>4. CASE net.prefix = 0
  <2>1. m = 2 ^ AddrBits
    BY <1>1, <1>4
  <2>2. net.addr \div m = 0 /\ addr \div m = 0
    BY <1>2, <1>3, <2>1, SmallQuotient
  <2> QED
    BY <1>4, <2>2 DEF CidrContains, Top
<1>5. CASE net.prefix # 0
  <2>1. net.addr - (net.addr % m) = addr - (addr % m) <=> net.addr \div m = addr \div m
    BY <1>2, <1>3, MaskIsQuotient
  <2> QED
    BY <1>5, <2>1 DEF CidrContains, Top, NetworkSize
<1> QED
  BY <1>4, <1>5

\* The gate of an arrived request, in the words of the property.
LEMMA GateOfPeer ==
    ASSUME NEW peer \in Peers
    PROVE  LET family == IF peer.family = "mapped" THEN "v4" ELSE peer.family
           IN  ~(Normalize(peer) # NoPeer /\ PeerAdmitted(Normalize(peer))) <=>
                 /\ ~(family = "v4" /\ peer.addr = Loopback)
                 /\ \A net \in Networks :
                      net.family = family => Top(net.addr, net.prefix) # Top(peer.addr, net.prefix)
<1> DEFINE family == IF peer.family = "mapped" THEN "v4" ELSE peer.family
           n == Normalize(peer)
<1>1. n = [family |-> family, addr |-> peer.addr] /\ n.family = family /\ n.addr = peer.addr
  BY DEF Normalize, Peers, NoPeer
<1>2. CASE peer = NoPeer
  <2>1. family = "none" /\ n = NoPeer
    BY <1>1, <1>2 DEF NoPeer
  <2>2. \A net \in Networks : net.family # "none"
    BY NetworksAssumption
  <2> QED
    BY <2>1, <2>2
<1>3. CASE peer # NoPeer
  <2>1. peer.addr \in Addrs /\ peer.family \in {"v4", "v6", "mapped"}
    BY <1>3 DEF Peers
  <2>2. n # NoPeer
    BY <1>1, <2>1 DEF NoPeer
  <2>3. \A net \in Networks :
           CidrContains(net, n)
             <=> net.family = family /\ Top(net.addr, net.prefix) = Top(peer.addr, net.prefix)
    BY <1>1, <2>1, ContainsIsThePrefix
  <2>4. IsLoopback(n) <=> family = "v4" /\ peer.addr = Loopback
    BY <1>1 DEF IsLoopback
  <2> HIDE DEF n, family
  <2> QED
    BY <2>2, <2>3, <2>4 DEF PeerAdmitted, n, family
<1> QED
  BY <1>2, <1>3

\* What the invariant says of settled, trusted, refused and failed requests.
LEMMA EdgeInvIsSound ==
    EdgeInv => PeerGateIsThePrefix /\ TrustIsTheToken /\ RefusalsStandOut /\ FailureNamesItsCause
<1> SUFFICES ASSUME EdgeInv
             PROVE  PeerGateIsThePrefix /\ TrustIsTheToken /\ RefusalsStandOut /\ FailureNamesItsCause
  OBVIOUS
<1>1. ASSUME NEW c \in Callers, edReq[c].pc # "new"
      PROVE  Sound(edReq[c], edToken) /\ edReq[c] \in Arrived
  BY <1>1 DEF EdgeInv, Sound
<1>2. PeerGateIsThePrefix
  <2> SUFFICES ASSUME NEW c \in Settled
               PROVE  LET req == edReq[c]
                          family == IF req.peer.family = "mapped" THEN "v4" ELSE req.peer.family
                      IN req.auth \in {"no_peer", "peer_denied"} <=>
                           /\ ~(family = "v4" /\ req.peer.addr = Loopback)
                           /\ \A net \in Networks : net.family = family =>
                                Top(net.addr, net.prefix) # Top(req.peer.addr, net.prefix)
    BY DEF PeerGateIsThePrefix
  <2>1. c \in Callers /\ edReq[c].pc # "new"
    BY DEF Settled
  <2>2. Sound(edReq[c], edToken) /\ edReq[c].peer \in Peers
    BY <1>1, <2>1 DEF Arrived
  <2>3. edReq[c].auth \in {"no_peer", "peer_denied"} <=> ~PeerLetIn(edReq[c])
    BY <2>2 DEF Sound
  <2> QED
    BY <2>2, <2>3, GateOfPeer DEF PeerLetIn
<1>3. TrustIsTheToken
  <2> SUFFICES ASSUME NEW c \in Callers, edReq[c].pc \in {"handler", "answered", "logged"}
               PROVE  /\ edReq[c].trusted = (edReq[c].auth \in {"token", "open"})
                      /\ edReq[c].trusted => (edReq[c].cred = "right" \/ ~edToken)
                      /\ edReq[c].pc = "handler" => (edReq[c].trusted \/ edReq[c].health)
    BY DEF TrustIsTheToken
  <2>1. Sound(edReq[c], edToken) /\ edReq[c].trusted \in BOOLEAN
    BY <1>1 DEF Arrived
  <2>2. edReq[c].trusted <=> edReq[c].auth \in {"token", "open"}
    BY <2>1 DEF Sound
  <2>3. edReq[c].trusted = (edReq[c].auth \in {"token", "open"})
    BY <2>1, <2>2
  <2> QED
    BY <2>1, <2>3 DEF Sound
<1>4. RefusalsStandOut
  BY <1>1 DEF RefusalsStandOut, Sound, Level
<1>5. FailureNamesItsCause
  <2> SUFFICES ASSUME NEW c \in Callers
               PROVE  LET f == IF edReq[c].pc \in {"answered", "logged"} THEN edReq[c].fail
                               ELSE [kind |-> "none"]
                          aboutThePackage == edReq[c].status \in {413, 415, 422}
                      IN /\ f.kind = "chain" => (aboutThePackage <=> f.cause # "plain")
                         /\ f.kind = "fetch" =>
                               (aboutThePackage <=> f.outcome \in {"too_large", "gone"})
                         /\ f.kind = "whale" => ~aboutThePackage
    BY DEF FailureNamesItsCause
  <2>1. CASE edReq[c].pc \in {"answered", "logged"}
    <3>1. FailureAnswered(edReq[c])
      BY <1>1, <2>1 DEF Sound
    <3> QED
      BY <2>1, <3>1 DEF FailureAnswered
  <2>2. CASE edReq[c].pc \notin {"answered", "logged"}
    BY <2>2
  <2> QED
    BY <2>1, <2>2
<1> QED
  BY <1>2, <1>3, <1>4, <1>5

\* One step and a wrong token.
LEMMA WrongTokenStep ==
    ASSUME EdgeInv, [EdgeNext]_edgeVars, NEW c \in Callers, edToken,
           edReq[c].pc \in {"new", "wait"}, edReq'[c].pc \in {"handler", "answered"},
           edReq'[c].cred = "wrong", edReq'[c].auth \notin {"no_peer", "peer_denied"}
    PROVE  edNow >= edReq'[c].at + TokenDelay /\ edReq[c].pc = "wait"
<1>1. edReq'[c] # edReq[c]
  OBVIOUS
<1>2. ASSUME NEW raw \in Peers, NEW cred \in Creds, NEW health \in BOOLEAN,
             Arrives(c, raw, cred, health)
      PROVE  FALSE
  <2>1. edToken /\ cred = "wrong" /\ edReq'[c].auth \notin {"no_peer", "peer_denied"}
            => edReq'[c].pc = "wait"
    BY <1>2, ArrivesIsSound
  <2>2. edReq'[c].cred = cred
    BY <1>2, ArrivesIsSound, ZenonT(30)
  <2> QED
    BY <2>1, <2>2
<1>3. ASSUME NEW d \in Callers, NEW raw \in Peers, NEW cred \in Creds, NEW health \in BOOLEAN,
             Arrives(d, raw, cred, health)
      PROVE  d = c
  <2>1. edReq' = [edReq EXCEPT ![d] = edReq'[d]]
    BY <1>3, ArrivesIsSound, ZenonT(30)
  <2> QED
    BY <1>1, <2>1 DEF EdgeInv
<1>4. ASSUME NEW d \in Callers, Handle(d) \/ LogLine(d) PROVE FALSE
  <2>1. edReq[d].pc \in {"handler", "answered"}
    BY <1>4 DEF Handle, LogLine
  <2>2. edReq' = [edReq EXCEPT ![d] = edReq'[d]]
    BY <1>4, ZenonT(30) DEF Handle, LogLine, EdgeInv
  <2>3. d = c
    BY <1>1, <2>2 DEF EdgeInv
  <2> QED
    BY <2>1, <2>3
<1>5. ASSUME Configure \/ EdTick \/ UNCHANGED edgeVars PROVE FALSE
  BY <1>1, <1>5 DEF Configure, EdTick, edgeVars
<1>6. PICK d \in Callers : Waited(d)
  BY <1>2, <1>3, <1>4, <1>5 DEF EdgeNext
<1> DEFINE req == edReq[d]
           q == Admitted(req, AuthOf(Normalize(req.peer), req.cred, req.health))
<1>7. edReq' = [edReq EXCEPT ![d] = q] /\ edNow >= req.at + TokenDelay /\ req.pc = "wait"
  BY <1>6 DEF Waited
<1>8. d = c
  BY <1>1, <1>7
<1>9. Sound(req, edToken) /\ edToken \in BOOLEAN
  BY <1>7 DEF EdgeInv
<1>10. req \in Arrived /\ req.auth = "none" /\ req.fail = NoFailure /\ PeerLetIn(req)
  BY <1>7, <1>9 DEF Sound
<1>11. q.at = req.at
  BY <1>9, <1>10, AdmittedIsSound
<1>12. edReq'[c] = q
  BY <1>7, <1>8 DEF EdgeInv
<1> QED
  BY <1>7, <1>8, <1>11, <1>12

\* The edge is sound for addresses of any width, any networks and any number of requests: the
\* peer gate admits exactly the allowed prefixes and this host, trust is the token, refusals
\* stand out, a failure is answered for its cause and a wrong token always waits (acl,
\* Cidr::contains, access_log and ApiError::from_analysis).
THEOREM EdgeStaysSound == EdgeSpec => EdgeIsSound
<1>1. EdgeSpec =>
        [](PeerGateIsThePrefix /\ TrustIsTheToken /\ RefusalsStandOut /\ FailureNamesItsCause)
  BY EdgeInvIsSound, EdgeInvariant, PTL
<1>2. EdgeInv /\ [EdgeNext]_edgeVars =>
        \A c \in Callers :
           /\ edToken
           /\ edReq[c].pc \in {"new", "wait"} /\ edReq'[c].pc \in {"handler", "answered"}
           /\ edReq'[c].cred = "wrong" /\ edReq'[c].auth \notin {"no_peer", "peer_denied"}
           => edNow >= edReq'[c].at + TokenDelay /\ edReq[c].pc = "wait"
  BY WrongTokenStep
<1>3. EdgeSpec => WrongTokenWaits
  BY <1>2, EdgeInvariant, PTL DEF EdgeSpec, WrongTokenWaits
<1> QED
  BY <1>1, <1>3 DEF EdgeIsSound

----------------------------------------------------------------------------
(* The corpus                                                             *)

\* Everyone of the addresses.
Known == ToSet(Addresses)

ReadFields == {"pc", "asked", "said", "trust", "old", "rest", "tries", "heard", "tried",
               "body", "out"}
Read(me) == DOMAIN me = ReadFields /\ me = [field \in DOMAIN me |-> me[field]]

\* While an answer about the lag is waited for; what it said was so since the question.
AskingInv(me, now, okAt) ==
    /\ me.asked \in 1..now /\ now <= me.asked + ReadTimeout
    /\ me.said \in Readings \cup {"none"}
    /\ me.pc = "told" => me.said \in Readings
    /\ me.said = "current" => me.asked <= okAt

\* What has been tried, and what is left to try.
OnTheWay(me) ==
    /\ me.rest \in Seq(Known) /\ me.rest # <<>> /\ me.tried \cup ToSet(me.rest) = Known
    /\ me.pc \in {"ask", "get"} => me.body = <<>>
    /\ me.pc = "body" => me.body \in Seq({Head(me.rest)}) /\ Len(me.body) <= MaxBytes

\* What an end rests on.
EndedWell(me) ==
    /\ me.out = "nothing" => \/ me.heard \cap {"absent", "refused"} # {}
                             \/ "busy" \in me.heard /\ me.tries = ReadRetries
    /\ me.out \in {"unreachable", "error"} /\ {"garbled", "long"} \cap me.heard = {} =>
         me.tried = Known
    /\ me.out = "sample" =>
         /\ "end" \in me.heard /\ Len(me.body) \in 1..MaxBytes
         /\ \E b \in me.tried : ToSet(me.body) = {b}

ReadInv(me, now, okAt) ==
    /\ Read(me) /\ me.tries \in 0..ReadRetries
    /\ me.pc \in {"new", "lag", "told", "ask", "get", "body", "done"}
    /\ me.out \in {"none", "nokey", "record", "nothing", "unreachable", "sample", "error"}
    /\ me.trust = "told" => ~me.old
    /\ me.pc \in {"lag", "told"} => AskingInv(me, now, okAt)
    /\ IF me.pc \in {"ask", "get", "body"} THEN OnTheWay(me) ELSE me.rest = <<>>
    /\ IF me.pc = "done" THEN EndedWell(me) ELSE me.out = "none"

\* The replica was within bounds when it was last seen so; a reading is of the past.
ClockInv ==
    /\ crNow \in 1..MaxNow /\ crOkAt \in 1..crNow /\ crBehind \in BOOLEAN
    /\ ~crBehind => crOkAt = crNow
    /\ crLag # NoReading =>
         /\ crLag.said \in Readings /\ crLag.at \in 1..crNow
         /\ crLag.said = "current" => crLag.at <= crOkAt

\* The head rests from its failure on.
RestInv ==
    /\ crFailed \in 0..crNow
    /\ crRested = IF crFailed = 0 THEN 0 ELSE crFailed + RestTime

ReadersInv ==
    /\ crRead = [r \in Readers |-> crRead[r]]
    /\ \A r \in Readers : ReadInv(crRead[r], crNow, crOkAt)

CorpusInv == ClockInv /\ RestInv /\ ReadersInv

----------------------------------------------------------------------------
\* The addresses are tried in some order of all of them.
LEMMA Ordering ==
    /\ Addresses \in Seq(Known) /\ Addresses # <<>>
    /\ \A now : OrderAt(now) \in Seq(Known) /\ OrderAt(now) # <<>> /\ ToSet(OrderAt(now)) = Known
<1>1. Addresses \in Seq(Known) /\ Addresses # <<>> /\ Len(Addresses) \in Nat \ {0}
  BY CorpusAssumption, EmptySeq, LenProperties DEF Known
<1>2. Head0 \in Known /\ Tail(Addresses) \in Seq(Known)
  BY <1>1, HeadTailProperties DEF Head0, Known, ToSet
<1> DEFINE turned == Append(Tail(Addresses), Head0)
<1>3. turned \in Seq(Known) /\ turned # <<>>
  BY <1>2, AppendProperties
<1>4. Len(Tail(Addresses)) = Len(Addresses) - 1 /\ Len(turned) = Len(Addresses)
      /\ \A i \in 1 .. Len(Addresses) - 1 : turned[i] = Addresses[i + 1]
  BY <1>1, <1>2, HeadTailProperties, AppendProperties
<1>5. turned[Len(Addresses)] = Addresses[1]
  BY <1>1, <1>2, <1>4, AppendProperties DEF Head0
<1>6. DOMAIN turned = 1 .. Len(Addresses) /\ DOMAIN Addresses = 1 .. Len(Addresses)
  BY <1>1, <1>3, <1>4, LenProperties
<1>7. ToSet(turned) = Known
  <2>1. ASSUME NEW i \in 1 .. Len(Addresses) PROVE turned[i] \in Known
    BY <1>3, <1>4, <1>6, ElementOfSeq
  <2>2. ASSUME NEW i \in 1 .. Len(Addresses)
        PROVE \E k \in 1 .. Len(Addresses) : turned[k] = Addresses[i]
    <3>1. CASE i = 1
      BY <1>1, <1>5, <3>1
    <3>2. CASE i # 1
      <4>1. i - 1 \in 1 .. Len(Addresses) - 1 /\ i - 1 \in 1 .. Len(Addresses)
        BY <1>1, <2>2, <3>2
      <4>2. turned[i - 1] = Addresses[i]
        BY <1>4, <4>1
      <4> QED
        BY <4>1, <4>2
    <3> QED
      BY <3>1, <3>2
  <2> QED
    BY <1>6, <2>1, <2>2 DEF ToSet, Known
<1> QED
  BY <1>1, <1>3, <1>7 DEF OrderAt, Known

\* The address at the head of the rest has been tried, once it is off it.
LEMMA OffTheRest ==
    ASSUME NEW rest \in Seq(Known), rest # <<>>
    PROVE  /\ Len(rest) \in Nat \ {0} /\ Head(rest) \in Known
           /\ Tail(rest) \in Seq(Known) /\ ToSet(rest) = {Head(rest)} \cup ToSet(Tail(rest))
           /\ Len(rest) # 1 => Tail(rest) # <<>>
           /\ Len(rest) = 1 => ToSet(rest) = {Head(rest)}
<1>1. Len(rest) \in Nat \ {0} /\ Head(rest) \in Known /\ Head(rest) = rest[1]
  BY EmptySeq, LenProperties, HeadTailProperties
<1>2. Tail(rest) \in Seq(Known) /\ Len(Tail(rest)) = Len(rest) - 1
      /\ \A i \in 1 .. Len(rest) - 1 : Tail(rest)[i] = rest[i + 1]
  BY <1>1, HeadTailProperties
<1>3. DOMAIN rest = 1 .. Len(rest) /\ DOMAIN Tail(rest) = 1 .. Len(rest) - 1
  BY <1>1, <1>2, LenProperties
<1>4. ToSet(rest) = {Head(rest)} \cup ToSet(Tail(rest))
  <2>1. ASSUME NEW i \in 1 .. Len(rest)
        PROVE rest[i] = Head(rest) \/ \E k \in 1 .. Len(rest) - 1 : Tail(rest)[k] = rest[i]
    <3>1. CASE i = 1
      BY <1>1, <3>1
    <3>2. CASE i # 1
      <4>1. i - 1 \in 1 .. Len(rest) - 1
        BY <1>1, <2>1, <3>2
      <4>2. Tail(rest)[i - 1] = rest[i]
        BY <1>2, <4>1
      <4> QED
        BY <4>1, <4>2
    <3> QED
      BY <3>1, <3>2
  <2>2. ASSUME NEW i \in 1 .. Len(rest) - 1 PROVE \E k \in 1 .. Len(rest) : rest[k] = Tail(rest)[i]
    <3>1. i + 1 \in 1 .. Len(rest)
      BY <1>1, <2>2
    <3> QED
      BY <1>2, <2>2, <3>1
  <2>3. 1 \in 1 .. Len(rest)
    BY <1>1
  <2>4. Head(rest) \in ToSet(rest)
    BY <1>1, <1>3, <2>3 DEF ToSet
  <2>5. ToSet(Tail(rest)) \subseteq ToSet(rest)
    BY <1>3, <2>2 DEF ToSet
  <2>6. ToSet(rest) \subseteq {Head(rest)} \cup ToSet(Tail(rest))
    BY <1>3, <2>1 DEF ToSet
  <2> QED
    BY <2>4, <2>5, <2>6
<1>5. Len(rest) = 1 => DOMAIN rest = {1}
  BY <1>3
<1>6. Len(rest) # 1 => Tail(rest) # <<>>
  <2>1. Len(rest) # 1 => Len(Tail(rest)) # 0
    BY <1>1, <1>2
  <2> QED
    BY <2>1, EmptySeq
<1> QED
  BY <1>1, <1>2, <1>4, <1>5, <1>6 DEF ToSet

----------------------------------------------------------------------------
\* The records a read becomes.
LEMMA FreshIs ==
    /\ Read(Fresh) /\ Fresh.pc = "new" /\ Fresh.rest = <<>> /\ Fresh.out = "none"
    /\ Fresh.tries = 0 /\ Fresh.trust = "none" /\ Fresh.body = <<>> /\ Fresh.tried = {}
    /\ Fresh.heard = {} /\ Fresh.said = "none"
BY DEF Fresh, Read, ReadFields

LEMMA OrderedIs ==
    ASSUME NEW trust
    PROVE  LET me == Ordered(trust) IN
           /\ Read(me) /\ me.pc = "ask" /\ me.trust = trust /\ me.old = TooOld
           /\ me.rest = OrderAt(crNow) /\ me.tries = 0 /\ me.out = "none"
           /\ me.body = <<>> /\ me.tried = {}
<1> DEFINE old == TooOld
           rest == OrderAt(crNow)
<1> HIDE DEF old, rest
<1>1. Ordered(trust) = [Fresh EXCEPT !.pc = "ask", !.trust = trust, !.old = old, !.rest = rest]
  BY DEF Ordered, old, rest
<1>2. PICK fresh : fresh = Fresh
  OBVIOUS
<1>3. Read(fresh) /\ fresh.tries = 0 /\ fresh.out = "none" /\ fresh.body = <<>> /\ fresh.tried = {}
  BY <1>2, FreshIs
<1>4. PICK me : me = Ordered(trust)
  OBVIOUS
<1>5. me = [fresh EXCEPT !.pc = "ask", !.trust = trust, !.old = old, !.rest = rest]
  BY <1>1, <1>2, <1>4
<1>6. /\ Read(me) /\ me.pc = "ask" /\ me.trust = trust /\ me.old = old /\ me.rest = rest
      /\ me.tries = fresh.tries /\ me.out = fresh.out /\ me.body = fresh.body
      /\ me.tried = fresh.tried
  BY <1>3, <1>5 DEF Read, ReadFields
<1> QED
  BY <1>3, <1>4, <1>6 DEF old, rest

LEMMA DoneIs ==
    ASSUME NEW rec, NEW out, NEW a
    PROVE  LET me == Done(rec, out, a) IN
           /\ Read(me) /\ me.pc = "done" /\ me.out = out /\ me.heard = rec.heard \cup {a}
           /\ me.tried = rec.tried \cup {Head(rec.rest)} /\ me.body = rec.body
           /\ me.rest = <<>> /\ me.tries = rec.tries /\ me.trust = "none"
<1> DEFINE heard == rec.heard \cup {a}
           tried == rec.tried \cup {Head(rec.rest)}
           tries == rec.tries
           body == rec.body
<1> HIDE DEF heard, tried, tries, body
<1>1. Done(rec, out, a) = [Fresh EXCEPT !.pc = "done", !.out = out, !.heard = heard, !.tries = tries,
                                        !.tried = tried, !.body = body]
  BY DEF Done, heard, tried, tries, body
<1>2. PICK fresh : fresh = Fresh
  OBVIOUS
<1>3. Read(fresh) /\ fresh.tries = 0 /\ fresh.rest = <<>> /\ fresh.trust = "none"
  BY <1>2, FreshIs
<1>4. PICK me : me = Done(rec, out, a)
  OBVIOUS
<1>5. me = [fresh EXCEPT !.pc = "done", !.out = out, !.heard = heard, !.tries = tries,
                         !.tried = tried, !.body = body]
  BY <1>1, <1>2, <1>4
<1>6. /\ Read(me) /\ me.pc = "done" /\ me.out = out /\ me.heard = heard /\ me.tried = tried
      /\ me.body = body /\ me.rest = fresh.rest /\ me.tries = tries
      /\ me.trust = fresh.trust
  BY <1>3, <1>5 DEF Read, ReadFields
<1> QED
  BY <1>3, <1>4, <1>6 DEF heard, tried, tries, body

LEMMA OnwardIs ==
    ASSUME NEW rec, Read(rec), NEW a
    PROVE  LET me == Onward(rec, a) IN
           /\ Read(me) /\ me.pc = rec.pc /\ me.rest = Tail(rec.rest) /\ me.tries = 0
           /\ me.tried = rec.tried \cup {Head(rec.rest)} /\ me.body = <<>>
           /\ me.out = rec.out /\ me.trust = rec.trust /\ me.old = rec.old
<1> DEFINE heard == rec.heard \cup {a}
           tried == rec.tried \cup {Head(rec.rest)}
           body == <<>>
           rest == Tail(rec.rest)
           tries == 0
<1>1. Onward(rec, a) = [rec EXCEPT !.rest = rest, !.tries = tries, !.heard = heard,
                                   !.tried = tried, !.body = body]
  BY DEF Onward
<1> HIDE DEF heard, tried, body, rest, tries
<1>2. PICK me : me = Onward(rec, a)
  OBVIOUS
<1>3. /\ Read(me) /\ me.pc = rec.pc /\ me.rest = rest /\ me.tries = tries /\ me.tried = tried
      /\ me.body = body /\ me.out = rec.out /\ me.trust = rec.trust /\ me.old = rec.old
  BY <1>1, <1>2 DEF Read, ReadFields
<1> QED
  BY <1>2, <1>3 DEF heard, tried, body, rest, tries

----------------------------------------------------------------------------
\* One reader moves, and the clock does not.
LEMMA OneReaderMoves ==
    ASSUME ReadersInv, NEW r \in Readers, NEW me, ReadInv(me, crNow, crOkAt), Go(r, me),
           crNow' = crNow, crOkAt' = crOkAt
    PROVE  ReadersInv'
<1>1. crRead' = [k \in Readers |-> IF k = r THEN me ELSE crRead[k]]
  BY DEF Go, ReadersInv
<1>2. \A k \in Readers : ReadInv(crRead'[k], crNow, crOkAt)
  BY <1>1 DEF ReadersInv
<1> QED
  BY <1>1, <1>2 DEF ReadersInv

LEMMA SameClock ==
    ASSUME ClockInv, UNCHANGED <<crNow, crOkAt, crBehind, crLag>>
    PROVE  ClockInv'
BY DEF ClockInv

LEMMA SameRest ==
    ASSUME RestInv, UNCHANGED <<crNow, crRested, crFailed>>
    PROVE  RestInv'
BY DEF RestInv

LEMMA NoteKeepsRest ==
    ASSUME ClockInv, RestInv, NEW base, NEW reachable \in BOOLEAN, NoteAt(base, reachable),
           crNow' = crNow
    PROVE  RestInv'
BY CorpusAssumption DEF ClockInv, RestInv, NoteAt

\* A read that is ordered now believes the replica only if its word is young.
LEMMA OrderedInv ==
    ASSUME NEW trust, trust = "told" => ~TooOld
    PROVE  ReadInv(Ordered(trust), crNow, crOkAt)
<1>1. PICK me : me = Ordered(trust)
  OBVIOUS
<1>2. /\ Read(me) /\ me.pc = "ask" /\ me.trust = trust /\ me.old = TooOld
      /\ me.rest = OrderAt(crNow) /\ me.tries = 0 /\ me.out = "none"
      /\ me.body = <<>> /\ me.tried = {}
  BY <1>1, OrderedIs
<1>3. OnTheWay(me)
  BY <1>2, Ordering DEF OnTheWay
<1>4. me.tries \in 0 .. ReadRetries
  BY <1>2, CorpusAssumption
<1> QED
  BY <1>1, <1>2, <1>3, <1>4 DEF ReadInv

LEMMA SampleStartInv ==
    ASSUME NEW r \in Readers, CorpusInv, Sample(r)
    PROVE  CorpusInv'
<1>1. PICK ordered : ordered = Ordered("sample")
  OBVIOUS
<1>2. PICK me : me = [ordered EXCEPT !.pc = "get"]
  OBVIOUS
<1>3. ReadInv(ordered, crNow, crOkAt) /\ ordered.pc = "ask"
  BY <1>1, OrderedInv, OrderedIs
<1>4. /\ Read(me) /\ me.pc = "get" /\ me.trust = ordered.trust /\ me.old = ordered.old
      /\ me.rest = ordered.rest /\ me.tries = ordered.tries /\ me.out = ordered.out
      /\ me.body = ordered.body /\ me.tried = ordered.tried
  BY <1>2, <1>3 DEF ReadInv, Read, ReadFields
<1>5. ReadInv(me, crNow, crOkAt)
  BY <1>3, <1>4 DEF ReadInv, OnTheWay
<1>6. Go(r, me)
  BY <1>1, <1>2 DEF Sample
<1> QED
  BY <1>5, <1>6, OneReaderMoves, SameClock, SameRest DEF CorpusInv, Sample

LEMMA TickInv ==
    ASSUME CorpusInv, Tick
    PROVE  CorpusInv'
<1>1. crNow \in 1 .. MaxNow /\ crOkAt \in 1 .. crNow /\ crNow' \in 1 .. MaxNow /\ crNow' = crNow + 1
  BY CorpusAssumption DEF CorpusInv, ClockInv, Tick
<1>2. crOkAt' \in crOkAt .. crNow' /\ (~crBehind' => crOkAt' = crNow')
  BY <1>1 DEF CorpusInv, ClockInv, Tick
<1>3. ClockInv'
  <2>1. crOkAt' \in 1 .. crNow' /\ crBehind' \in BOOLEAN
    BY <1>1, <1>2 DEF CorpusInv, ClockInv, Tick
  <2>2. ASSUME crLag # NoReading
        PROVE  /\ crLag.said \in Readings /\ crLag.at \in 1 .. crNow'
               /\ crLag.said = "current" => crLag.at <= crOkAt'
    BY <1>1, <1>2, <2>2 DEF CorpusInv, ClockInv
  <2>3. crLag' = crLag
    BY DEF Tick
  <2> QED
    BY <1>1, <1>2, <2>1, <2>2, <2>3 DEF ClockInv
<1>4. RestInv'
  BY <1>1 DEF CorpusInv, RestInv, Tick
<1>5. ASSUME NEW r \in Readers PROVE ReadInv(crRead[r], crNow', crOkAt')
  <2>1. PICK me : me = crRead[r]
    OBVIOUS
  <2>2. ReadInv(me, crNow, crOkAt)
    BY <2>1 DEF CorpusInv, ReadersInv
  <2>3. CASE me.pc \in {"lag", "told"}
    <3>1. crNow < me.asked + ReadTimeout /\ AskingInv(me, crNow, crOkAt)
      BY <2>1, <2>2, <2>3 DEF Tick, Waiting, ReadInv
    <3>2. AskingInv(me, crNow', crOkAt')
      BY <1>1, <1>2, <3>1, CorpusAssumption DEF AskingInv
    <3> QED
      BY <2>1, <2>2, <3>2 DEF ReadInv
  <2>4. CASE me.pc \notin {"lag", "told"}
    BY <2>1, <2>2, <2>4 DEF ReadInv
  <2> QED
    BY <2>3, <2>4
<1>6. ReadersInv'
  BY <1>5 DEF CorpusInv, ReadersInv, Tick
<1> QED
  BY <1>3, <1>4, <1>6 DEF CorpusInv

LEMMA ReplicateInv ==
    ASSUME CorpusInv, Replicate
    PROVE  CorpusInv'
<1>1. crNow \in 1 .. MaxNow /\ crOkAt \in 1 .. crNow /\ crNow' = crNow /\ crOkAt' = crNow
  BY DEF CorpusInv, ClockInv, Replicate
<1>2. ClockInv' /\ RestInv'
  BY <1>1, CorpusAssumption DEF CorpusInv, ClockInv, RestInv, Replicate
<1>3. ASSUME NEW r \in Readers PROVE ReadInv(crRead[r], crNow', crOkAt')
  <2>1. PICK me : me = crRead[r]
    OBVIOUS
  <2>2. ReadInv(me, crNow, crOkAt)
    BY <2>1 DEF CorpusInv, ReadersInv
  <2>3. AskingInv(me, crNow, crOkAt) => AskingInv(me, crNow', crOkAt')
    BY <1>1 DEF AskingInv
  <2> QED
    BY <2>1, <2>2, <2>3 DEF ReadInv
<1>4. ReadersInv'
  BY <1>3 DEF CorpusInv, ReadersInv, Replicate
<1> QED
  BY <1>2, <1>4 DEF CorpusInv

\* The word of the replica is not too old while its reading is not.
LEMMA YoungWord ==
    ASSUME ClockInv, NEW at \in 1 .. crNow, at <= crOkAt,
           crNow < at + Ttl \/ crNow <= at + ReadTimeout
    PROVE  ~TooOld
BY CorpusAssumption DEF ClockInv, TooOld

LEMMA LookupInv ==
    ASSUME NEW r \in Readers, CorpusInv, Lookup(r)
    PROVE  CorpusInv'
<1> SUFFICES ASSUME NEW me, Go(r, me),
                    \/ me = [Fresh EXCEPT !.pc = "done", !.out = "nokey"]
                    \/ me = Ordered("fresh") \/ me = Ordered("single")
                    \/ /\ crLag # NoReading /\ crNow < crLag.at + Ttl
                       /\ me = Ordered(Trust(crLag.said))
                    \/ me = [Fresh EXCEPT !.pc = "lag", !.asked = crNow]
             PROVE  ReadInv(me, crNow, crOkAt)
  BY OneReaderMoves, SameClock, SameRest DEF CorpusInv, Lookup
<1>1. PICK fresh : fresh = Fresh
  OBVIOUS
<1>2. /\ Read(fresh) /\ fresh.rest = <<>> /\ fresh.out = "none" /\ fresh.tries = 0
      /\ fresh.trust = "none" /\ fresh.said = "none"
  BY <1>1, FreshIs
<1>3. fresh.tries \in 0 .. ReadRetries
  BY <1>2, CorpusAssumption
<1>4. CASE me = [Fresh EXCEPT !.pc = "done", !.out = "nokey"]
  <2>1. me = [fresh EXCEPT !.pc = "done", !.out = "nokey"]
    BY <1>1, <1>4
  <2>2. /\ Read(me) /\ me.pc = "done" /\ me.out = "nokey" /\ me.rest = fresh.rest
        /\ me.tries = fresh.tries /\ me.trust = fresh.trust
    BY <1>2, <2>1 DEF Read, ReadFields
  <2> QED
    BY <1>2, <1>3, <2>2 DEF ReadInv, EndedWell
<1>5. CASE me = Ordered("fresh") \/ me = Ordered("single")
  BY <1>5, OrderedInv
<1>6. CASE crLag # NoReading /\ crNow < crLag.at + Ttl /\ me = Ordered(Trust(crLag.said))
  <2>1. Trust(crLag.said) = "told" => crLag.said = "current"
    BY <1>6 DEF CorpusInv, ClockInv, Trust, Readings
  <2>2. crLag.said = "current" => ~TooOld
    BY <1>6, YoungWord DEF CorpusInv, ClockInv
  <2> QED
    BY <1>6, <2>1, <2>2, OrderedInv
<1>7. CASE me = [Fresh EXCEPT !.pc = "lag", !.asked = crNow]
  <2> DEFINE now == crNow
  <2>1. now \in 1 .. MaxNow /\ now <= now + ReadTimeout /\ now \in 1 .. now
    BY CorpusAssumption DEF CorpusInv, ClockInv
  <2>2. me = [fresh EXCEPT !.pc = "lag", !.asked = now]
    BY <1>1, <1>7
  <2> HIDE DEF now
  <2>3. /\ Read(me) /\ me.pc = "lag" /\ me.asked = now /\ me.rest = fresh.rest
        /\ me.tries = fresh.tries /\ me.trust = fresh.trust /\ me.out = fresh.out
        /\ me.said = fresh.said
    BY <1>2, <2>2 DEF Read, ReadFields
  <2>4. AskingInv(me, crNow, crOkAt)
    BY <1>2, <2>1, <2>3 DEF AskingInv, now
  <2> QED
    BY <1>2, <1>3, <2>3, <2>4 DEF ReadInv
<1> QED
  BY <1>4, <1>5, <1>6, <1>7

LEMMA SampledInv ==
    ASSUME NEW r \in Readers, CorpusInv, Sampled(r)
    PROVE  CorpusInv'
<1>1. PICK was : was = crRead[r]
  OBVIOUS
<1>2. was.pc = "lag" /\ ReadInv(was, crNow, crOkAt)
  BY <1>1 DEF CorpusInv, ReadersInv, Sampled
<1>3. PICK said \in {IF crBehind THEN "behind" ELSE "current", "silent"} :
         Go(r, [was EXCEPT !.pc = "told", !.said = said])
  BY <1>1 DEF Sampled
<1>4. PICK me : me = [was EXCEPT !.pc = "told", !.said = said]
  OBVIOUS
<1>5. /\ Read(me) /\ me.pc = "told" /\ me.said = said /\ me.asked = was.asked
      /\ me.rest = was.rest /\ me.tries = was.tries /\ me.trust = was.trust
      /\ me.old = was.old /\ me.out = was.out
  BY <1>2, <1>4 DEF ReadInv, Read, ReadFields
<1>6. said \in Readings /\ (said = "current" => crOkAt = crNow)
  BY <1>3 DEF Readings, CorpusInv, ClockInv
<1>7. AskingInv(me, crNow, crOkAt)
  BY <1>2, <1>5, <1>6 DEF ReadInv, AskingInv
<1>8. ReadInv(me, crNow, crOkAt)
  BY <1>2, <1>5, <1>7 DEF ReadInv
<1> QED
  BY <1>3, <1>4, <1>8, OneReaderMoves, SameClock, SameRest DEF CorpusInv, Sampled

LEMMA LagStoredInv ==
    ASSUME NEW r \in Readers, CorpusInv, LagStored(r)
    PROVE  CorpusInv'
<1>1. PICK was : was = crRead[r]
  OBVIOUS
<1>2. was.pc = "told" /\ AskingInv(was, crNow, crOkAt) /\ was.said \in Readings
  BY <1>1 DEF CorpusInv, ReadersInv, LagStored, ReadInv, AskingInv
<1>3. crLag' = [at |-> was.asked, said |-> was.said] /\ Go(r, Ordered(Trust(was.said)))
  BY <1>1 DEF LagStored, Stamped
<1>4. was.said = "current" => ~TooOld
  BY <1>2, YoungWord DEF AskingInv, CorpusInv
<1>5. Trust(was.said) = "told" => was.said = "current"
  BY <1>2 DEF Trust, Readings
<1>6. ClockInv'
  <2>1. PICK at : at = was.asked
    OBVIOUS
  <2>2. PICK said : said = was.said
    OBVIOUS
  <2>3. crLag'.at = at /\ crLag'.said = said
    BY <1>3, <2>1, <2>2
  <2>4. at \in 1 .. crNow /\ said \in Readings /\ (said = "current" => at <= crOkAt)
    BY <1>2, <2>1, <2>2 DEF AskingInv
  <2> QED
    BY <2>3, <2>4 DEF CorpusInv, ClockInv, LagStored
<1> QED
  BY <1>3, <1>4, <1>5, <1>6, OrderedInv, OneReaderMoves, SameRest DEF CorpusInv, LagStored

\* A read goes on to the next address, or has heard them all.
LEMMA GoesOnward ==
    ASSUME NEW me, NEW now, NEW okAt, ReadInv(me, now, okAt), me.pc \in {"ask", "get", "body"},
           Len(me.rest) # 1, NEW a
    PROVE  LET to == Onward(me, a) IN
           /\ Read(to) /\ to.pc = me.pc /\ to.tries \in 0 .. ReadRetries
           /\ to.trust = me.trust /\ to.old = me.old /\ to.out = "none"
           /\ to.rest \in Seq(Known) /\ to.rest # <<>> /\ to.tried \cup ToSet(to.rest) = Known
           /\ to.body = <<>>
<1>1. Read(me) /\ OnTheWay(me) /\ me.out = "none"
  BY DEF ReadInv
<1>2. PICK to : to = Onward(me, a)
  OBVIOUS
<1>3. /\ Read(to) /\ to.pc = me.pc /\ to.rest = Tail(me.rest) /\ to.tries = 0
      /\ to.tried = me.tried \cup {Head(me.rest)} /\ to.body = <<>>
      /\ to.out = me.out /\ to.trust = me.trust /\ to.old = me.old
  BY <1>1, <1>2, OnwardIs
<1>4. PICK rest : rest = me.rest
  OBVIOUS
<1>5. rest \in Seq(Known) /\ rest # <<>> /\ Len(rest) # 1 /\ me.tried \cup ToSet(rest) = Known
  BY <1>1, <1>4 DEF OnTheWay
<1>6. /\ Tail(rest) \in Seq(Known) /\ Tail(rest) # <<>>
      /\ ToSet(rest) = {Head(rest)} \cup ToSet(Tail(rest))
  BY <1>5, OffTheRest
<1>7. to.tries \in 0 .. ReadRetries
  BY <1>3, CorpusAssumption
<1> QED
  BY <1>1, <1>2, <1>3, <1>4, <1>5, <1>6, <1>7

LEMMA OnwardInv ==
    ASSUME NEW me, NEW now, NEW okAt, ReadInv(me, now, okAt), me.pc = "ask", Len(me.rest) # 1, NEW a
    PROVE  ReadInv(Onward(me, a), now, okAt)
<1>1. PICK to : to = Onward(me, a)
  OBVIOUS
<1>2. /\ Read(to) /\ to.pc = "ask" /\ to.tries \in 0 .. ReadRetries
      /\ to.trust = me.trust /\ to.old = me.old /\ to.out = "none"
      /\ to.rest \in Seq(Known) /\ to.rest # <<>> /\ to.tried \cup ToSet(to.rest) = Known
      /\ to.body = <<>>
  BY <1>1, GoesOnward
<1>3. OnTheWay(to)
  BY <1>2 DEF OnTheWay
<1> QED
  BY <1>1, <1>2, <1>3 DEF ReadInv

\* A read ends well if what it says follows from what it heard; the last address has been
\* tried with the others.
LEMMA DoneInv ==
    ASSUME NEW me, NEW now, NEW okAt, ReadInv(me, now, okAt), me.pc \in {"ask", "get", "body"},
           NEW rec, rec.tried = me.tried, rec.rest = me.rest, rec.heard = me.heard,
           rec.tries = me.tries, NEW a,
           NEW out \in {"record", "nothing", "unreachable", "sample", "error"},
           out = "nothing" => a \in {"absent", "refused"} \/ (a = "busy" /\ me.tries = ReadRetries),
           out \in {"unreachable", "error"} => Len(me.rest) = 1 \/ a \in {"garbled", "long"},
           out = "sample" => a = "end" /\ rec.body \in Seq({Head(me.rest)})
                             /\ Len(rec.body) \in 1 .. MaxBytes
    PROVE  ReadInv(Done(rec, out, a), now, okAt)
<1>1. PICK to : to = Done(rec, out, a)
  OBVIOUS
<1>2. /\ Read(to) /\ to.pc = "done" /\ to.out = out /\ to.heard = rec.heard \cup {a}
      /\ to.tried = rec.tried \cup {Head(rec.rest)} /\ to.body = rec.body
      /\ to.rest = <<>> /\ to.tries = rec.tries /\ to.trust = "none"
  BY <1>1, DoneIs
<1>3. PICK rest : rest = me.rest
  OBVIOUS
<1>4. rest \in Seq(Known) /\ rest # <<>> /\ me.tried \cup ToSet(rest) = Known
  BY <1>3 DEF ReadInv, OnTheWay
<1>5. Len(rest) = 1 => ToSet(rest) = {Head(rest)}
  BY <1>4, OffTheRest
<1>6. ASSUME out \in {"unreachable", "error"}, {"garbled", "long"} \cap to.heard = {}
      PROVE  to.tried = Known
  <2>1. a \in to.heard
    BY <1>2
  <2>2. Len(rest) = 1
    BY <1>3, <1>6, <2>1
  <2> QED
    BY <1>2, <1>3, <1>4, <1>5, <2>2
<1>7. ASSUME out = "sample" PROVE \E b \in to.tried : ToSet(to.body) = {b}
  <2>1. PICK body : body = rec.body
    OBVIOUS
  <2>2. PICK b : b = Head(me.rest)
    OBVIOUS
  <2>3. body \in Seq({b}) /\ Len(body) \in 1 .. MaxBytes
    BY <1>7, <2>1, <2>2
  <2>4. DOMAIN body = 1 .. Len(body) /\ 1 \in DOMAIN body
    BY <2>3, LenProperties, CorpusAssumption
  <2>5. \A i \in DOMAIN body : body[i] = b
    BY <2>3, <2>4, ElementOfSeq
  <2>6. ToSet(body) = {b}
    BY <2>4, <2>5 DEF ToSet
  <2> QED
    BY <1>2, <2>1, <2>2, <2>6
<1>8. EndedWell(to)
  BY <1>2, <1>6, <1>7 DEF EndedWell
<1>9. to.tries \in 0 .. ReadRetries
  BY <1>2 DEF ReadInv
<1> QED
  BY <1>1, <1>2, <1>8, <1>9 DEF ReadInv

LEMMA AttemptInv ==
    ASSUME NEW r \in Readers, NEW a \in Attempts, CorpusInv, Attempt(r, a)
    PROVE  CorpusInv'
<1>1. PICK me : me = crRead[r]
  OBVIOUS
<1>2. me.pc = "ask" /\ ReadInv(me, crNow, crOkAt) /\ Read(me) /\ OnTheWay(me)
  BY <1>1 DEF CorpusInv, ReadersInv, Attempt, ReadInv
<1> DEFINE v == Verdict(a)
<1>3. ClockInv' /\ crNow' = crNow /\ crOkAt' = crOkAt
  BY SameClock DEF Attempt, CorpusInv
<1>4. /\ v \in {"record", "nothing", "unreachable", "none"}
      /\ v = "nothing" => a \in {"absent", "refused", "busy"}
      /\ v = "unreachable" => a = "garbled"
  BY DEF Verdict, Attempts
<1>5. CASE /\ MayRetry(me.tries) /\ Go(r, [me EXCEPT !.tries = @ + 1])
           /\ UNCHANGED <<crRested, crFailed, crCounts>>
  <2>1. PICK tries : tries = me.tries + 1
    OBVIOUS
  <2>2. tries \in 0 .. ReadRetries
    BY <1>2, <1>5, <2>1, CorpusAssumption DEF MayRetry, ReadInv
  <2>3. PICK to : to = [me EXCEPT !.tries = tries]
    OBVIOUS
  <2>4. /\ Read(to) /\ to.pc = me.pc /\ to.tries = tries /\ to.trust = me.trust
        /\ to.old = me.old /\ to.rest = me.rest /\ to.out = me.out /\ to.body = me.body
        /\ to.tried = me.tried
    BY <1>2, <2>3 DEF Read, ReadFields
  <2>5. ReadInv(to, crNow, crOkAt)
    BY <1>2, <2>2, <2>4 DEF ReadInv, OnTheWay
  <2>6. Go(r, to)
    BY <1>5, <2>1, <2>3
  <2> QED
    BY <1>3, <1>5, <2>5, <2>6, OneReaderMoves, SameRest DEF CorpusInv
<1>6. CASE /\ NoteAt(Head(me.rest), v # "none") /\ v = "none" /\ Len(me.rest) > 1
           /\ Go(r, Onward(me, a))
  <2> HIDE DEF v
  <2>1. PICK rest : rest = me.rest
    OBVIOUS
  <2>2. rest \in Seq(Known) /\ rest # <<>>
    BY <1>2, <2>1 DEF OnTheWay
  <2>3. Len(rest) \in Nat \ {0}
    BY <2>2, OffTheRest
  <2>4. \A n \in Nat : n > 1 => n # 1
    OBVIOUS
  <2>5. Len(me.rest) # 1
    BY <1>6, <2>1, <2>3, <2>4
  <2>6. ReadInv(Onward(me, a), crNow, crOkAt)
    BY <1>2, <2>5, OnwardInv
  <2> QED
    BY <1>3, <1>6, <2>6, OneReaderMoves, NoteKeepsRest DEF CorpusInv
<1>7. CASE /\ NoteAt(Head(me.rest), v # "none") /\ ~(v = "none" /\ Len(me.rest) > 1)
           /\ Transient(a) => ~MayRetry(me.tries)
           /\ Go(r, Done(me, IF v = "none" THEN "unreachable" ELSE v, a))
  <2>1. PICK out : out = IF v = "none" THEN "unreachable" ELSE v
    OBVIOUS
  <2>2. out \in {"record", "nothing", "unreachable"} /\ (out = "nothing" => v = "nothing")
        /\ (out = "unreachable" => v \in {"none", "unreachable"})
    BY <1>4, <2>1
  <2>3. PICK rest : rest = me.rest
    OBVIOUS
  <2>4. rest \in Seq(Known) /\ rest # <<>>
    BY <1>2, <2>3 DEF OnTheWay
  <2>5. Len(rest) \in Nat \ {0}
    BY <2>4, OffTheRest
  <2>6. v = "none" => Len(me.rest) = 1
    <3> HIDE DEF v
    <3>1. v = "none" => ~(Len(rest) > 1)
      BY <1>7, <2>3
    <3>2. ~(Len(rest) > 1) => Len(rest) = 1
      BY <2>5
    <3> QED
      BY <2>3, <3>1, <3>2
  <2>7. ReadInv(Done(me, out, a), crNow, crOkAt)
    <3>0. a = "busy" => me.tries = ReadRetries
      BY <1>2, <1>7, CorpusAssumption DEF Transient, MayRetry, ReadInv
    <3>1. out = "nothing" => a \in {"absent", "refused"} \/ (a = "busy" /\ me.tries = ReadRetries)
      BY <1>4, <2>2, <3>0
    <3>2. out \in {"unreachable", "error"} => Len(me.rest) = 1 \/ a \in {"garbled", "long"}
      BY <1>4, <2>2, <2>6
    <3> HIDE DEF v
    <3> QED
      BY <1>2, <2>2, <3>1, <3>2, DoneInv
  <2>8. Go(r, Done(me, out, a))
    BY <1>7, <2>1
  <2> QED
    BY <1>3, <1>7, <2>7, <2>8, OneReaderMoves, NoteKeepsRest DEF CorpusInv
<1> QED
  BY <1>1, <1>5, <1>6, <1>7 DEF Attempt

\* The next address, or the last error.
LEMMA NextBaseInv ==
    ASSUME CorpusInv, NEW r \in Readers, crRead[r].pc \in {"get", "body"}, NEW why,
           NextBase(r, why), crNow' = crNow, crOkAt' = crOkAt
    PROVE  ReadersInv'
<1>1. PICK me : me = crRead[r]
  OBVIOUS
<1>2. me.pc \in {"get", "body"} /\ ReadInv(me, crNow, crOkAt) /\ Read(me)
  BY <1>1 DEF CorpusInv, ReadersInv, ReadInv
<1>3. CASE Len(me.rest) = 1
  <2>1. PICK none : none = <<>>
    OBVIOUS
  <2>2. PICK rec : rec = [me EXCEPT !.body = none]
    OBVIOUS
  <2>3. rec.tried = me.tried /\ rec.rest = me.rest /\ rec.heard = me.heard /\ rec.tries = me.tries
    BY <1>2, <2>2 DEF Read, ReadFields
  <2>4. ReadInv(Done(rec, "error", why), crNow, crOkAt)
    BY <1>2, <1>3, <2>3, DoneInv
  <2>5. Go(r, Done(rec, "error", why))
    BY <1>1, <1>3, <2>1, <2>2 DEF NextBase
  <2> QED
    BY <2>4, <2>5, OneReaderMoves DEF CorpusInv
<1>4. CASE Len(me.rest) # 1
  <2>1. PICK on : on = Onward(me, why)
    OBVIOUS
  <2>2. /\ Read(on) /\ on.tries \in 0 .. ReadRetries
        /\ on.trust = me.trust /\ on.old = me.old /\ on.out = "none"
        /\ on.rest \in Seq(Known) /\ on.rest # <<>> /\ on.tried \cup ToSet(on.rest) = Known
        /\ on.body = <<>>
    BY <1>2, <1>4, <2>1, GoesOnward
  <2>3. PICK to : to = [on EXCEPT !.pc = "get"]
    OBVIOUS
  <2>4. /\ Read(to) /\ to.pc = "get" /\ to.tries = on.tries /\ to.trust = on.trust
        /\ to.old = on.old /\ to.out = on.out /\ to.rest = on.rest /\ to.tried = on.tried
        /\ to.body = on.body
    BY <2>2, <2>3 DEF Read, ReadFields
  <2>5. OnTheWay(to)
    BY <2>2, <2>4 DEF OnTheWay
  <2>6. ReadInv(to, crNow, crOkAt)
    BY <1>2, <2>2, <2>4, <2>5 DEF ReadInv
  <2>7. Go(r, to)
    BY <1>1, <1>4, <2>1, <2>3 DEF NextBase
  <2> QED
    BY <2>6, <2>7, OneReaderMoves DEF CorpusInv
<1> QED
  BY <1>3, <1>4

LEMMA SampleHeadInv ==
    ASSUME NEW r \in Readers, NEW a, CorpusInv, SampleHead(r, a)
    PROVE  CorpusInv'
<1>1. PICK me : me = crRead[r]
  OBVIOUS
<1>2. me.pc = "get" /\ ReadInv(me, crNow, crOkAt) /\ Read(me) /\ OnTheWay(me)
  BY <1>1 DEF CorpusInv, ReadersInv, SampleHead, ReadInv
<1>3. ClockInv' /\ crNow' = crNow /\ crOkAt' = crOkAt
  BY SameClock DEF SampleHead, CorpusInv
<1>4. CASE NextBase(r, a) /\ a = "failed" /\ NoteAt(Head(crRead[r].rest), FALSE)
  <2>1. RestInv'
    BY <1>3, <1>4, NoteKeepsRest DEF CorpusInv
  <2> QED
    BY <1>1, <1>2, <1>3, <1>4, <2>1, NextBaseInv DEF CorpusInv
<1>5. CASE NextBase(r, a) /\ UNCHANGED <<crRested, crFailed>>
  BY <1>1, <1>2, <1>3, <1>5, NextBaseInv, SameRest DEF CorpusInv
<1>6. CASE a = "long" /\ Go(r, Done(crRead[r], "error", a)) /\ UNCHANGED <<crRested, crFailed>>
  <2>1. ReadInv(Done(me, "error", "long"), crNow, crOkAt)
    BY <1>2, DoneInv
  <2> QED
    BY <1>1, <1>3, <1>6, <2>1, OneReaderMoves, SameRest DEF CorpusInv
<1>7. CASE Go(r, [crRead[r] EXCEPT !.pc = "body"]) /\ UNCHANGED <<crRested, crFailed>>
  <2>1. PICK to : to = [me EXCEPT !.pc = "body"]
    OBVIOUS
  <2>2. /\ Read(to) /\ to.pc = "body" /\ to.tries = me.tries /\ to.trust = me.trust
        /\ to.old = me.old /\ to.out = me.out /\ to.rest = me.rest /\ to.tried = me.tried
        /\ to.body = me.body
    BY <1>2, <2>1 DEF Read, ReadFields
  <2>3. to.body = <<>>
    BY <1>2, <2>2 DEF OnTheWay
  <2>4. to.body \in Seq({Head(to.rest)}) /\ Len(to.body) <= MaxBytes
    BY <2>3, EmptySeq, CorpusAssumption
  <2>5. OnTheWay(to)
    BY <1>2, <2>2, <2>4 DEF OnTheWay
  <2>6. ReadInv(to, crNow, crOkAt)
    BY <1>2, <2>2, <2>5 DEF ReadInv
  <2> QED
    BY <1>1, <1>3, <1>7, <2>1, <2>6, OneReaderMoves, SameRest DEF CorpusInv
<1> QED
  BY <1>4, <1>5, <1>6, <1>7 DEF SampleHead

LEMMA SampleBodyInv ==
    ASSUME NEW r \in Readers, NEW end, CorpusInv, SampleBody(r, end)
    PROVE  CorpusInv'
<1>1. PICK me : me = crRead[r]
  OBVIOUS
<1>2. me.pc = "body" /\ ReadInv(me, crNow, crOkAt) /\ Read(me) /\ OnTheWay(me)
  BY <1>1 DEF CorpusInv, ReadersInv, SampleBody, ReadInv
<1>3. ClockInv' /\ crNow' = crNow /\ crOkAt' = crOkAt
  BY SameClock DEF SampleBody, CorpusInv
<1>4. PICK base : base = Head(me.rest)
  OBVIOUS
<1>5. PICK body : body = me.body
  OBVIOUS
<1>6. body \in Seq({base}) /\ Len(body) \in Nat /\ Len(body) <= MaxBytes
  BY <1>2, <1>4, <1>5, LenProperties DEF OnTheWay
<1>7. CASE Len(me.body) + 1 > MaxBytes /\ UNCHANGED <<crRested, crFailed>>
           /\ Go(r, Done([me EXCEPT !.body = <<>>], "error", "long"))
  <2>1. PICK none : none = <<>>
    OBVIOUS
  <2>2. PICK rec : rec = [me EXCEPT !.body = none]
    OBVIOUS
  <2>3. rec.tried = me.tried /\ rec.rest = me.rest /\ rec.heard = me.heard /\ rec.tries = me.tries
    BY <1>2, <2>2 DEF Read, ReadFields
  <2>4. ReadInv(Done(rec, "error", "long"), crNow, crOkAt)
    BY <1>2, <2>3, DoneInv
  <2> QED
    BY <1>3, <1>7, <2>1, <2>2, <2>4, OneReaderMoves, SameRest DEF CorpusInv
<1>8. CASE ~(Len(me.body) + 1 > MaxBytes) /\ UNCHANGED <<crRested, crFailed>>
           /\ Go(r, [me EXCEPT !.body = Append(@, base)])
  <2>1. PICK more : more = Append(body, base)
    OBVIOUS
  <2>2. more \in Seq({base}) /\ Len(more) <= MaxBytes
    BY <1>5, <1>6, <1>8, <2>1, AppendProperties, CorpusAssumption
  <2>3. PICK to : to = [me EXCEPT !.body = more]
    OBVIOUS
  <2>4. /\ Read(to) /\ to.pc = "body" /\ to.tries = me.tries /\ to.trust = me.trust
        /\ to.old = me.old /\ to.out = me.out /\ to.rest = me.rest /\ to.tried = me.tried
        /\ to.body = more
    BY <1>2, <2>3 DEF Read, ReadFields
  <2>5. OnTheWay(to)
    BY <1>2, <1>4, <2>2, <2>4 DEF OnTheWay
  <2>6. ReadInv(to, crNow, crOkAt)
    BY <1>2, <2>4, <2>5 DEF ReadInv
  <2>7. Go(r, to)
    BY <1>5, <1>8, <2>1, <2>3
  <2> QED
    BY <1>3, <1>8, <2>6, <2>7, OneReaderMoves, SameRest DEF CorpusInv
<1>9. CASE Complete(end) /\ me.body # <<>> /\ NoteAt(base, TRUE) /\ Go(r, Done(me, "sample", end))
  <2>1. end = "end" /\ body # <<>>
    BY <1>5, <1>9 DEF Complete
  <2>2. Len(body) \in 1 .. MaxBytes
    BY <1>6, <2>1, EmptySeq, CorpusAssumption
  <2>3. ReadInv(Done(me, "sample", end), crNow, crOkAt)
    BY <1>2, <1>4, <1>5, <1>6, <2>1, <2>2, DoneInv
  <2> QED
    BY <1>3, <1>9, <2>3, OneReaderMoves, NoteKeepsRest DEF CorpusInv
<1>10. CASE NextBase(r, end) /\ UNCHANGED <<crRested, crFailed>>
  BY <1>1, <1>2, <1>3, <1>10, NextBaseInv, SameRest DEF CorpusInv
<1> QED
  BY <1>1, <1>4, <1>7, <1>8, <1>9, <1>10 DEF SampleBody

----------------------------------------------------------------------------
LEMMA CorpusStart == CorpusInit => CorpusInv
<1> SUFFICES ASSUME CorpusInit PROVE CorpusInv
  OBVIOUS
<1>1. 1 \in 1 .. MaxNow /\ 1 \in 1 .. 1
  BY CorpusAssumption
<1>2. crNow = 1 /\ crOkAt = 1 /\ crBehind = FALSE /\ crLag = NoReading
  BY DEF CorpusInit
<1>3. ClockInv
  BY <1>1, <1>2 DEF ClockInv
<1>4. RestInv
  BY DEF CorpusInit, RestInv
<1>5. PICK fresh : fresh = Fresh
  OBVIOUS
<1>6. /\ Read(fresh) /\ fresh.pc = "new" /\ fresh.rest = <<>> /\ fresh.out = "none"
      /\ fresh.tries = 0 /\ fresh.trust = "none"
  BY <1>5, FreshIs
<1>7. fresh.tries \in 0 .. ReadRetries
  BY <1>6, CorpusAssumption
<1>8. ReadInv(fresh, crNow, crOkAt)
  BY <1>6, <1>7 DEF ReadInv
<1>9. ReadersInv
  BY <1>5, <1>8 DEF CorpusInit, ReadersInv
<1> QED
  BY <1>3, <1>9, <1>4 DEF CorpusInv

LEMMA CorpusStep == CorpusInv /\ [CorpusNext]_crVars => CorpusInv'
<1> SUFFICES ASSUME CorpusInv, [CorpusNext]_crVars PROVE CorpusInv'
  OBVIOUS
<1>1. CASE UNCHANGED crVars
  BY <1>1 DEF crVars, CorpusInv, ClockInv, RestInv, ReadersInv
<1>2. CASE CorpusNext
  BY <1>2, TickInv, ReplicateInv, LookupInv, SampledInv, LagStoredInv, SampleStartInv,
     AttemptInv, SampleHeadInv, SampleBodyInv DEF CorpusNext
<1> QED
  BY <1>1, <1>2

\* What a read claims follows from what is known of it.
LEMMA ReadsRestOnAnswers ==
    CorpusInv => CorpusTypeOK /\ AbsenceIsAnswered /\ FailureTriedAll /\ StaleTrustBounded
                 /\ SampleWhole
<1> SUFFICES ASSUME CorpusInv
             PROVE  CorpusTypeOK /\ AbsenceIsAnswered /\ FailureTriedAll /\ StaleTrustBounded
                    /\ SampleWhole
  OBVIOUS
<1>1. {crNow, crOkAt, crRested, crFailed} \subseteq 0 .. (MaxNow + RestTime)
  <2>1. MaxNow \in Nat /\ RestTime \in Nat
    BY CorpusAssumption
  <2>2. crNow \in 1 .. MaxNow /\ crOkAt \in 1 .. crNow /\ crFailed \in 0 .. crNow
    BY DEF CorpusInv, ClockInv, RestInv
  <2>3. crRested \in {0, crFailed + RestTime}
    BY DEF CorpusInv, RestInv
  <2> QED
    BY <2>1, <2>2, <2>3
<1>2. crLag = NoReading \/ (crLag.said \in Readings /\ crLag.at \in 1 .. MaxNow)
  <2>1. crNow \in 1 .. MaxNow /\ 1 .. crNow \subseteq 1 .. MaxNow
    BY CorpusAssumption DEF CorpusInv, ClockInv
  <2>2. crLag # NoReading => crLag.said \in Readings /\ crLag.at \in 1 .. crNow
    BY DEF CorpusInv, ClockInv
  <2> QED
    BY <2>1, <2>2
<1>3. ASSUME NEW r \in Readers
      PROVE  /\ crRead[r].out \in {"none", "nokey", "record", "nothing", "unreachable",
                                   "sample", "error"}
             /\ crRead[r].pc \in {"ask", "get", "body"} => crRead[r].rest # <<>>
             /\ crRead[r].tries <= ReadRetries
             /\ crRead[r].trust = "told" => ~crRead[r].old
             /\ crRead[r].out = "none" \/ EndedWell(crRead[r])
  <2>1. PICK me : me = crRead[r]
    OBVIOUS
  <2>2. ReadInv(me, crNow, crOkAt)
    BY <2>1 DEF CorpusInv, ReadersInv
  <2>3. me.tries <= ReadRetries /\ (me.pc \in {"ask", "get", "body"} => me.rest # <<>>)
    BY <2>2, CorpusAssumption DEF ReadInv, OnTheWay
  <2> QED
    BY <2>1, <2>2, <2>3 DEF ReadInv
<1>4. CorpusTypeOK
  BY <1>1, <1>2, <1>3 DEF CorpusTypeOK
<1>5. AbsenceIsAnswered /\ FailureTriedAll /\ StaleTrustBounded /\ SampleWhole
  BY <1>3 DEF AbsenceIsAnswered, FailureTriedAll, StaleTrustBounded, SampleWhole, EndedWell, Known
<1> QED
  BY <1>4, <1>5

\* Only a read that is ordered gets addresses, and it gets them as the head stands now.
LEMMA OrderIsOfNow ==
    ASSUME CorpusInv, [CorpusNext]_crVars, NEW r \in Readers, crRead[r].rest = <<>>,
           crRead'[r].rest # <<>>
    PROVE  crRead'[r].rest = OrderAt(crNow)
<1> USE DEF Go
<1>1. crRead = [k \in Readers |-> crRead[k]] /\ \A k \in Readers : ReadInv(crRead[k], crNow, crOkAt)
  BY DEF CorpusInv, ReadersInv
<1>2. crRead[r].pc \notin {"ask", "get", "body"}
  BY <1>1 DEF ReadInv, OnTheWay
<1>3. crRead' # crRead
  OBVIOUS
<1>4. PICK k \in Readers :
        \/ Lookup(k) \/ Sampled(k) \/ LagStored(k) \/ Sample(k)
        \/ \E a \in Attempts : Attempt(k, a)
        \/ \E a \in {"failed", "missing", "long", "ok"} : SampleHead(k, a)
        \/ \E e \in {"chunk", "end", "broken"} : SampleBody(k, e)
  BY <1>3 DEF CorpusNext, crVars, Tick, Replicate
<1>5. ASSUME NEW me, Go(k, me) PROVE k = r /\ crRead'[r] = me
  BY <1>1, <1>5
<1>6. /\ ~\E a \in Attempts : Attempt(k, a)
      /\ ~\E a \in {"failed", "missing", "long", "ok"} : SampleHead(k, a)
      /\ ~\E e \in {"chunk", "end", "broken"} : SampleBody(k, e)
  <2>1. ASSUME NEW a \in Attempts, Attempt(k, a) PROVE FALSE
    <3>1. k = r
      BY <1>5, <2>1 DEF Attempt
    <3> QED
      BY <1>2, <2>1, <3>1 DEF Attempt
  <2>2. ASSUME NEW a, SampleHead(k, a) PROVE FALSE
    <3>1. k = r
      BY <1>5, <2>2 DEF SampleHead, NextBase
    <3> QED
      BY <1>2, <2>2, <3>1 DEF SampleHead
  <2>3. ASSUME NEW e, SampleBody(k, e) PROVE FALSE
    <3>1. k = r
      BY <1>5, <2>3 DEF SampleBody, NextBase
    <3> QED
      BY <1>2, <2>3, <3>1 DEF SampleBody
  <2> QED
    BY <2>1, <2>2, <2>3
<1>7. CASE Lookup(k)
  <2>1. PICK me : Go(k, me) /\ (\/ me = [Fresh EXCEPT !.pc = "done", !.out = "nokey"]
                                \/ \E trust : me = Ordered(trust)
                                \/ me = [Fresh EXCEPT !.pc = "lag", !.asked = crNow])
    BY <1>7 DEF Lookup
  <2>2. crRead'[r] = me /\ me.rest # <<>>
    BY <1>5, <2>1
  <2>3. me # [Fresh EXCEPT !.pc = "done", !.out = "nokey"]
        /\ me # [Fresh EXCEPT !.pc = "lag", !.asked = crNow]
    BY <2>2 DEF Fresh
  <2> QED
    BY <2>1, <2>2, <2>3, OrderedIs
<1>8. CASE Sampled(k)
  <2>1. PICK said : Go(k, [crRead[k] EXCEPT !.pc = "told", !.said = said])
    BY <1>8 DEF Sampled
  <2>2. PICK was : was = crRead[r]
    OBVIOUS
  <2>3. Read(was)
    BY <1>1, <2>2 DEF ReadInv
  <2>4. [was EXCEPT !.pc = "told", !.said = said].rest = was.rest
    BY <2>3 DEF Read, ReadFields
  <2> QED
    BY <1>5, <2>1, <2>2, <2>4
<1>9. CASE LagStored(k)
  BY <1>5, <1>9, OrderedIs DEF LagStored
<1>10. CASE Sample(k)
  <2>1. PICK ordered : ordered = Ordered("sample")
    OBVIOUS
  <2>2. Read(ordered) /\ ordered.rest = OrderAt(crNow)
    BY <2>1, OrderedIs
  <2>3. [ordered EXCEPT !.pc = "get"].rest = ordered.rest
    BY <2>2 DEF Read, ReadFields
  <2> QED
    BY <1>5, <1>10, <2>1, <2>2, <2>3 DEF Sample
<1> QED
  BY <1>4, <1>6, <1>7, <1>8, <1>9, <1>10

LEMMA HeadRestsOnlyForAFailure ==
    ASSUME CorpusInv, Head(OrderAt(crNow)) # Head0
    PROVE  crFailed # 0 /\ crNow < crFailed + RestTime
<1>1. Head(Addresses) = Head0
  BY Ordering, HeadTailProperties DEF Head0
<1>2. crRested > crNow
  BY <1>1 DEF OrderAt
<1> QED
  BY <1>2, CorpusAssumption DEF CorpusInv, ClockInv, RestInv

LEMMA HeadStep ==
    CorpusInv /\ [CorpusNext]_crVars =>
        [\A r \in Readers :
          /\ crRead[r].rest = <<>> /\ crRead'[r].rest # <<>>
          /\ Head(crRead'[r].rest) # Head0
          => crFailed # 0 /\ crNow < crFailed + RestTime]_crVars
BY OrderIsOfNow, HeadRestsOnlyForAFailure

\* The clocks, the rest of the head and what each read has heard, at every step.
THEOREM CorpusInvariant == CorpusSpec => []CorpusInv
BY CorpusStart, CorpusStep, PTL DEF CorpusSpec

\* What a read of the corpus claims was said by an address it may believe, for any
\* addresses, readers and times: "nothing" was answered, an outage is one of every
\* address, the replica's word about its lag is young, a sample is whole, and the head is
\* passed over only while it rests.
THEOREM ReadsStayHonest == CorpusSpec => ReadsAreHonest
<1>1. CorpusSpec => [](CorpusTypeOK /\ AbsenceIsAnswered /\ FailureTriedAll
                       /\ StaleTrustBounded /\ SampleWhole)
  BY CorpusInvariant, ReadsRestOnAnswers, PTL
<1>2. CorpusSpec => HeadLeadsUnlessItFailed
  BY CorpusInvariant, HeadStep, PTL DEF CorpusSpec, HeadLeadsUnlessItFailed
<1> QED
  BY <1>1, <1>2 DEF ReadsAreHonest

=============================================================================
