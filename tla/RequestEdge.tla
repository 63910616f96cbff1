---------------------------- MODULE RequestEdge ----------------------------
(***************************************************************************)
(* The edge of the server: the access line, the peer gate and the bearer   *)
(* gate every request passes (access_log of src/src/server/access.rs, acl  *)
(* of acl.rs), and the answer an analysis failure becomes (error.rs).      *)
(*                                                                         *)
(* A request is let in or refused, waits if its token is wrong, runs its   *)
(* handler and leaves one access line at a level its outcome decides.      *)
(* Addresses are AddrBits bits wide; an address of family "mapped" is an IPv4 *)
(* one in IPv6 clothes.  A token is right, wrong, malformed or missing.    *)
(***************************************************************************)
EXTENDS Integers, Sequences, FiniteSets

CONSTANTS
    Callers,     \* requests
    AddrBits,    \* bits of an address: 32 and 128 in the code
    Networks,    \* --allow-cidr: [family, addr, prefix]
    TokenDelay,  \* BAD_TOKEN_DELAY in ticks
    MaxEdNow     \* bound: the clock

ASSUME EdgeAssumption == AddrBits \in Nat \ {0} /\ TokenDelay \in Nat /\ MaxEdNow \in Nat

VARIABLES
    edNow,    \* the clock
    edToken,  \* a --token-file is configured
    edReq     \* edReq[c]: [pc, peer, cred, health, at, auth, trusted, until, end, level]

edgeVars == <<edNow, edToken, edReq>>

Addrs    == 0 .. 2 ^ AddrBits - 1

\* Cidr::parse refuses a prefix longer than an address.
ASSUME NetworksAssumption ==
    Networks \subseteq [family : {"v4", "v6"}, addr : Addrs, prefix : 0 .. AddrBits]

\* Arithmetic that the provers have no rule for.
ASSUME PowersAssumption == \A n \in 0 .. AddrBits : 2 ^ n \in Nat \ {0}

\* Loopback: the top address of IPv4 here, whatever clothes it wears.
Loopback == 2 ^ AddrBits - 1
NoPeer   == [family |-> "none", addr |-> 0]
Peers    == {NoPeer} \cup [family : {"v4", "v6", "mapped"}, addr : Addrs]
Creds    == {"right", "wrong", "malformed", "none"}

EdgeInit ==
    /\ edNow = 0 /\ edToken = TRUE
    /\ edReq = [c \in Callers |-> [pc |-> "new"]]

----------------------------------------------------------------------------
(* The peer gate                                                           *)

\* How many addresses share a prefix's network: the mask of MAX << (AddrBits - prefix).
NetworkSize(prefix) == 2 ^ (AddrBits - prefix)

\* Cidr::contains: equal under the mask; prefix 0, where the shift would overflow, is
\* every address of the family.
CidrContains(net, peer) ==
    /\ net.family = peer.family
    /\ \/ net.prefix = 0
       \/ net.addr - (net.addr % NetworkSize(net.prefix))
            = peer.addr - (peer.addr % NetworkSize(net.prefix))

\* normalize: a mapped address is the IPv4 address it carries.
Normalize(peer) == IF peer.family = "mapped" THEN [peer EXCEPT !.family = "v4"] ELSE peer

IsLoopback(peer) == peer.family = "v4" /\ peer.addr = Loopback

PeerAdmitted(peer) == IsLoopback(peer) \/ \E net \in Networks : CidrContains(net, peer)

----------------------------------------------------------------------------
(* The bearer gate                                                         *)

\* Mutation: the probe route does not wait.
WaitsExceptHealth(cred, health) == cred = "wrong" /\ ~health

\* A presented, wrong token waits on every route.
Waits(cred, health) == cred = "wrong"

\* What acl decides once the peer is in: open without a token file, else the token;
\* the health route takes anyone.
AuthOf(peer, cred, health) ==
    IF ~edToken THEN "open"
    ELSE IF cred = "right" THEN "token"
    ELSE IF health THEN "anon" ELSE cred

Denied(auth) == auth \notin {"token", "open", "anon"}

Trusts(auth) == auth \in {"token", "open"}

----------------------------------------------------------------------------
(* What a failed analysis is answered                                      *)

\* A failure: the whale lane was taken, a fetch ended so, or a chain of causes, each
\* with the words of a class or none; the first is scan's context, which names the
\* caller's file.
Outcomes == {"budget", "transport", "timeout", "internal", "throttled", "too_large", "gone"}
Words    == {"unsupported", "malformed", "plain"}
Failures ==
    {[kind |-> "whale"]} \cup [kind : {"fetch"}, outcome : Outcomes]
      \cup [kind : {"chain"}, label : Words, cause : Words]

\* infrastructure_failure.
Infrastructure(outcome) ==
    outcome \in {"budget", "transport", "timeout", "internal", "throttled"}

\* from_analysis drops the context that names the caller's file.
Causes(f) == {f.cause}

\* classify_analysis_error.
Classified(words) ==
    IF "unsupported" \in words THEN 415 ELSE IF "malformed" \in words THEN 422 ELSE 500

\* ApiError::from_analysis.
FromAnalysis(f) ==
    CASE f.kind = "whale" -> 429
      [] f.kind = "fetch" ->
           IF Infrastructure(f.outcome) THEN 503
           ELSE IF f.outcome = "too_large" THEN 413 ELSE 422
      [] f.kind = "chain" -> Classified(Causes(f))

----------------------------------------------------------------------------
(* A request                                                               *)

Configure ==
    /\ \A c \in Callers : edReq[c].pc = "new"
    /\ edToken' = FALSE
    /\ UNCHANGED <<edNow, edReq>>

EdTick ==
    /\ edNow < MaxEdNow
    /\ edNow' = edNow + 1
    /\ UNCHANGED <<edToken, edReq>>

Refused(req, auth, status) == [req EXCEPT !.pc = "answered", !.auth = auth, !.status = status]

Admitted(req, auth) ==
    [req EXCEPT !.pc = IF Denied(auth) THEN "answered" ELSE "handler", !.auth = auth,
                !.trusted = Trusts(auth), !.status = IF Denied(auth) THEN 401 ELSE 0]

\* access_log hands the request to acl, which decides at once or waits.
Arrives(c, rawPeer, cred, health) ==
    /\ edReq[c].pc = "new"
    /\ LET peer == Normalize(rawPeer)
           req == [pc |-> "wait", peer |-> rawPeer, cred |-> cred, health |-> health, at |-> edNow,
                   auth |-> "none", trusted |-> FALSE, status |-> 0, fail |-> [kind |-> "none"],
                   level |-> "none"]
       IN edReq' = [edReq EXCEPT ![c] =
            IF peer = NoPeer THEN Refused(req, "no_peer", 403)
            ELSE IF ~PeerAdmitted(peer) THEN Refused(req, "peer_denied", 403)
            ELSE IF edToken /\ Waits(cred, health) THEN req
            ELSE Admitted(req, AuthOf(peer, cred, health))]
    /\ UNCHANGED <<edNow, edToken>>

\* tokio::time::sleep(BAD_TOKEN_DELAY) is over.
Waited(c) ==
    /\ edReq[c].pc = "wait" /\ edNow >= edReq[c].at + TokenDelay
    /\ edReq' = [edReq EXCEPT ![c] =
         Admitted(@, AuthOf(Normalize(@.peer), @.cred, @.health))]
    /\ UNCHANGED <<edNow, edToken>>

\* The handler answers: 200, a 500 of its own, or a failed analysis.
Handle(c) ==
    /\ edReq[c].pc = "handler"
    /\ \/ \E status \in {200, 500} :
            edReq' = [edReq EXCEPT ![c] = [@ EXCEPT !.pc = "answered", !.status = status]]
       \/ /\ ~edReq[c].health
          /\ \E f \in Failures :
               edReq' = [edReq EXCEPT ![c] = [@ EXCEPT !.pc = "answered", !.fail = f,
                                                       !.status = FromAnalysis(f)]]
    /\ UNCHANGED <<edNow, edToken>>

\* The level of the access line.
Level(req) ==
    IF req.auth = "no_peer" THEN "error"
    ELSE IF req.status >= 500 \/ Denied(req.auth) THEN "warn"
    ELSE IF req.health THEN "debug" ELSE "info"

\* access_log, after the response.
LogLine(c) ==
    /\ edReq[c].pc = "answered"
    /\ edReq' = [edReq EXCEPT ![c] = [@ EXCEPT !.pc = "logged", !.level = Level(edReq[c])]]
    /\ UNCHANGED <<edNow, edToken>>

EdgeNext ==
    \/ Configure \/ EdTick
    \/ \E c \in Callers :
         \/ \E peer \in Peers, cred \in Creds, health \in BOOLEAN : Arrives(c, peer, cred, health)
         \/ Waited(c) \/ Handle(c) \/ LogLine(c)

EdgeSpec == EdgeInit /\ [][EdgeNext]_edgeVars

----------------------------------------------------------------------------
(* Properties                                                              *)

Settled == {c \in Callers : edReq[c].pc \in {"answered", "logged"}}

\* The first `prefix` bits of an address.
Top(addr, prefix) == addr \div 2 ^ (AddrBits - prefix)

\* The peer gate lets in exactly the addresses whose leading bits are an allowed
\* network's, and this host, whether IPv4 came plain or mapped.
PeerGateIsThePrefix ==
    \A c \in Settled :
        LET req == edReq[c]
            family == IF req.peer.family = "mapped" THEN "v4" ELSE req.peer.family
        IN req.auth \in {"no_peer", "peer_denied"} <=>
             /\ ~(family = "v4" /\ req.peer.addr = Loopback)
             /\ \A net \in Networks :
                  net.family = family => Top(net.addr, net.prefix) # Top(req.peer.addr, net.prefix)

\* A wrong token is answered no sooner than the delay, on the health route too; its
\* body would otherwise tell a right token from a wrong one faster than any route.
WrongTokenWaits ==
    [][\A c \in Callers :
         /\ edToken
         /\ edReq[c].pc \in {"new", "wait"} /\ edReq'[c].pc \in {"handler", "answered"}
         /\ edReq'[c].cred = "wrong" /\ edReq'[c].auth \notin {"no_peer", "peer_denied"}
         => edNow >= edReq'[c].at + TokenDelay /\ edReq[c].pc = "wait"]_edgeVars

\* Privileged detail is for the holder of the token, or for everyone where there is
\* none; whoever else reaches a handler reaches the health route's.  Being on this
\* host is no credential: behind a tunnel every caller is.
TrustIsTheToken ==
    \A c \in Callers :
        edReq[c].pc \in {"handler", "answered", "logged"} =>
            /\ edReq[c].trusted = (edReq[c].auth \in {"token", "open"})
            /\ edReq[c].trusted => (edReq[c].cred = "right" \/ ~edToken)
            /\ edReq[c].pc = "handler" => (edReq[c].trusted \/ edReq[c].health)

\* A refusal and a fault stand out in the record, also on the probe route, which is
\* otherwise quiet.
RefusalsStandOut ==
    \A c \in Callers :
        edReq[c].pc = "logged" /\ (edReq[c].status \in {401, 403} \/ edReq[c].status >= 500)
            => edReq[c].level \in {"warn", "error"}

\* A failure is answered for what went wrong: the name of the caller's file never
\* chooses the status, and a source that could not be reached is never a fact about
\* the package (413, 415, 422).
FailureNamesItsCause ==
    \A c \in Callers :
        LET f == IF edReq[c].pc \in {"answered", "logged"} THEN edReq[c].fail ELSE [kind |-> "none"]
            aboutThePackage == edReq[c].status \in {413, 415, 422}
        IN /\ f.kind = "chain" => (aboutThePackage <=> f.cause # "plain")
           /\ f.kind = "fetch" => (aboutThePackage <=> f.outcome \in {"too_large", "gone"})
           /\ f.kind = "whale" => ~aboutThePackage

\* Who is let in, who is trusted, what the record and the answer say of a refusal or
\* a failure, and how soon a wrong token hears of it.
EdgeIsSound ==
    /\ [](PeerGateIsThePrefix /\ TrustIsTheToken /\ RefusalsStandOut /\ FailureNamesItsCause)
    /\ WrongTokenWaits
=============================================================================
