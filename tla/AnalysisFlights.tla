-------------------------- MODULE AnalysisFlights --------------------------
(***************************************************************************)
(* Single-flight analyses of the server: src/src/server/flight.rs (the     *)
(* registry of flights), analyze.rs (capacity, the leader's task, filing   *)
(* the verdict), RequestGuard of mod.rs (permits, timeout, orphaned        *)
(* threads), the request's side in v1.rs and GET /status in handlers.rs.   *)
(*                                                                         *)
(* A request looks its key up in the verdict index, then joins the flight  *)
(* registered for the key or registers one and leads it: it takes a slot   *)
(* and a core or publishes a refusal.  The leader's task is owned by the   *)
(* server; it runs the analysis on a blocking thread that cannot be        *)
(* stopped, files the verdict, retires the flight and publishes.  Requests *)
(* may hang up at any time.                                                *)
(*                                                                         *)
(* A flight is named by the request that leads it.                         *)
(***************************************************************************)
EXTENDS Naturals, FiniteSets

CONSTANTS
    Requests,       \* requests that arrive, each once
    Queries,        \* GET /status calls, each once
    Keys,           \* flight keys: an artifact and a follow policy
    Artifacts,      \* what the keys, the index and GET /status are about
    ArtifactOf,     \* ArtifactOf[k]: the artifact, whatever the policy
    KindOf,         \* KindOf[a] is "sha", "purl" or "url"
    SmallArtifacts, \* artifacts whose job is at or below small_max_bytes
    Workers,        \* --workers
    Cores,          \* permits of the CPU gate
    LanesOn,        \* SCAN_SLOT_LANES
    TimeoutOn,      \* --analysis-timeout is not 0
    IndexLossy,     \* there may be no index, or its best-effort write fails
    None            \* no flight

ASSUME KindsAssumption   == /\ ArtifactOf \in [Keys -> Artifacts]
                            /\ KindOf \in [Artifacts -> {"sha", "purl", "url"}]
ASSUME CountsAssumption  == Workers \in Nat \ {0} /\ Cores \in Nat \ {0}
ASSUME FlagsAssumption   == {LanesOn, TimeoutOn, IndexLossy} \subseteq BOOLEAN
\* A PURL or URL analysis has no size hint: it classes as a whale.
ASSUME SmallAssumption   == SmallArtifacts \subseteq {a \in Artifacts : KindOf[a] = "sha"}
ASSUME NoneAssumption    == None \notin Requests

VARIABLES
    pc,         \* pc[r]: where request r is
    key,        \* key[r]: the key request r is about
    flight,     \* flight[r]: the flight request r is attached to, or None
    live,       \* live[k]: the flight registered under k, or None
    attached,   \* attached[k]: the count beside live[k]
    stage,      \* stage[f]: where flight f's leader is
    thread,     \* thread[f]: the blocking thread of flight f
    pending,    \* pending[f]: the outcome about to be published
    outcome,    \* outcome[f]: what the flight's watch channel holds
    lane,       \* lane[f]: the lane whose slot flight f holds, or "none"
    core,       \* core[f]: flight f holds a core
    free,       \* free[l]: permits left in lane l
    freeCores,  \* permits left in the CPU gate
    orphans,    \* stuck_orphans
    index,      \* artifacts with a stored verdict
    query       \* query[q]: a GET /status call

regVars   == <<live, attached>>
runVars   == <<stage, thread, pending, outcome>>
capVars   == <<lane, core, free, freeCores>>
vars == <<pc, key, flight, live, attached, stage, thread, pending, outcome,
          lane, core, free, freeCores, orphans, index, query>>

Lanes == {"flat", "small", "whale"}

AtMost(a, b) == IF a <= b THEN a ELSE b
AtLeast(a, b) == IF a >= b THEN a ELSE b

\* SlotLanes::new, or the flat semaphore.
WhalePermits == AtMost(1 + Workers \div 8, Workers)

LaneSize ==
    [l \in Lanes |->
        CASE l = "flat" -> IF LanesOn THEN 0 ELSE Workers
          [] l = "whale" -> IF LanesOn THEN WhalePermits ELSE 0
          [] l = "small" -> IF LanesOn THEN AtLeast(Workers - WhalePermits, 1) ELSE 0]

LaneOf(k) ==
    IF ~LanesOn THEN "flat"
    ELSE IF ArtifactOf[k] \in SmallArtifacts THEN "small" ELSE "whale"

FreeSlots == free["flat"] + free["small"] + free["whale"]

\* AppState::active_tasks
ActiveTasks == IF Workers >= FreeSlots THEN Workers - FreeSlots ELSE 0

NoQuery == [step |-> "new", artifact |-> None, reported |-> FALSE, answer |-> "none"]

Init ==
    /\ pc = [r \in Requests |-> "new"]
    /\ key = [r \in Requests |-> None]
    /\ flight = [r \in Requests |-> None]
    /\ live = [k \in Keys |-> None]
    /\ attached = [k \in Keys |-> 0]
    /\ stage = [f \in Requests |-> "none"]
    /\ thread = [f \in Requests |-> "none"]
    /\ pending = [f \in Requests |-> "none"]
    /\ outcome = [f \in Requests |-> "none"]
    /\ lane = [f \in Requests |-> "none"]
    /\ core = [f \in Requests |-> FALSE]
    /\ free = LaneSize
    /\ freeCores = Cores
    /\ orphans = 0
    /\ index = {}
    /\ query = [q \in Queries |-> NoQuery]

----------------------------------------------------------------------------
(* The request                                                              *)

\* analyze_purl / analyze_url / analyze_bytes: a held verdict answers unless
\* the caller asked for a full or forced run; then admit_request may refuse.
Preflight(r, k) ==
    /\ pc[r] = "new"
    /\ key' = [key EXCEPT ![r] = k]
    /\ \/ ArtifactOf[k] \in index /\ pc' = [pc EXCEPT ![r] = "answered"]
       \/ pc' = [pc EXCEPT ![r] = "checked"]           \* no verdict, full or force
       \/ pc' = [pc EXCEPT ![r] = "refused"]           \* init failed or overloaded
    /\ UNCHANGED <<flight, regVars, runVars, capVars, orphans, index, query>>

\* Flights::join on a key with a flight in progress.
JoinFollow(r) ==
    /\ pc[r] = "checked"
    /\ live[key[r]] # None
    /\ flight' = [flight EXCEPT ![r] = live[key[r]]]
    /\ attached' = [attached EXCEPT ![key[r]] = @ + 1]
    /\ pc' = [pc EXCEPT ![r] = "waiting"]
    /\ UNCHANGED <<key, live, runVars, capVars, orphans, index, query>>

\* Flights::join on a free key: register a flight and lead it.
JoinLead(r) ==
    /\ pc[r] = "checked"
    /\ live[key[r]] = None
    /\ flight' = [flight EXCEPT ![r] = r]
    /\ live' = [live EXCEPT ![key[r]] = r]
    /\ attached' = [attached EXCEPT ![key[r]] = 1]
    /\ stage' = [stage EXCEPT ![r] = "slot"]
    /\ pc' = [pc EXCEPT ![r] = "leading"]
    /\ UNCHANGED <<key, thread, pending, outcome, capVars, orphans, index, query>>

\* acquire: try-acquire the slot of the job's lane.
TakeSlot(f) ==
    /\ stage[f] = "slot"
    /\ LET l == LaneOf(key[f])
       IN  IF free[l] > 0
             THEN /\ free' = [free EXCEPT ![l] = @ - 1]
                  /\ lane' = [lane EXCEPT ![f] = l]
                  /\ stage' = [stage EXCEPT ![f] = "core"]
                  /\ UNCHANGED pending
             ELSE /\ stage' = [stage EXCEPT ![f] = "retire"]
                  /\ pending' = [pending EXCEPT ![f] = "refused"]
                  /\ UNCHANGED <<free, lane>>
    /\ UNCHANGED <<pc, key, flight, regVars, thread, outcome, core, freeCores,
                   orphans, index, query>>

\* admit: the bundle is still loading, so the leader publishes a refusal.
RefuseLoading(f) ==
    /\ stage[f] = "slot"
    /\ stage' = [stage EXCEPT ![f] = "retire"]
    /\ pending' = [pending EXCEPT ![f] = "refused"]
    /\ UNCHANGED <<pc, key, flight, regVars, thread, outcome, capVars, orphans, index, query>>

\* acquire: try-acquire the core; without one the slot goes back.  With both
\* the leader's task is spawned and lead() returns.
TakeCore(f) ==
    /\ stage[f] = "core"
    /\ IF freeCores > 0
         THEN /\ freeCores' = freeCores - 1
              /\ core' = [core EXCEPT ![f] = TRUE]
              /\ stage' = [stage EXCEPT ![f] = "spawned"]
              /\ pc' = [pc EXCEPT ![f] = "waiting"]
              /\ UNCHANGED <<free, lane, pending>>
         ELSE /\ free' = [free EXCEPT ![lane[f]] = @ + 1]
              /\ lane' = [lane EXCEPT ![f] = "none"]
              /\ stage' = [stage EXCEPT ![f] = "retire"]
              /\ pending' = [pending EXCEPT ![f] = "refused"]
              /\ UNCHANGED <<pc, core, freeCores>>
    /\ UNCHANGED <<key, flight, regVars, thread, outcome, orphans, index, query>>

\* Mutation: the last request to leave retires the flight.
DetachRetiresLast(r) ==
    /\ flight' = [flight EXCEPT ![r] = None]
    /\ LET last == live[key[r]] = flight[r] /\ attached[key[r]] = 1
       IN  /\ live' = [live EXCEPT ![key[r]] = IF last THEN None ELSE @]
           /\ attached' = [attached EXCEPT ![key[r]] =
                             IF live[key[r]] = flight[r] THEN @ - 1 ELSE @]

\* Mutation: whatever flight is registered under the key loses a request.
DetachByKey(r) ==
    /\ flight' = [flight EXCEPT ![r] = None]
    /\ attached' = [attached EXCEPT ![key[r]] =
                      IF live[key[r]] # None THEN @ - 1 ELSE @]
    /\ UNCHANGED live

\* Attachment::drop: only the count of the flight we joined is ours.
Detach(r) ==
    /\ flight' = [flight EXCEPT ![r] = None]
    /\ attached' = [attached EXCEPT ![key[r]] =
                      IF live[key[r]] = flight[r] THEN @ - 1 ELSE @]
    /\ UNCHANGED live

\* Flight::wait resolved: answer, drop the attachment.
Answer(r) ==
    /\ pc[r] = "waiting"
    /\ outcome[flight[r]] # "none"
    /\ pc' = [pc EXCEPT ![r] = "answered"]
    /\ Detach(r)
    /\ UNCHANGED <<key, runVars, capVars, orphans, index, query>>

\* The client goes away while it waits.
HangUp(r) ==
    /\ pc[r] = "waiting"
    /\ pc' = [pc EXCEPT ![r] = "left"]
    /\ Detach(r)
    /\ UNCHANGED <<key, runVars, capVars, orphans, index, query>>

----------------------------------------------------------------------------
(* The leader's task and its blocking thread                                *)

\* Leader::run up to spawn_blocking, with the guard holding the permits.
Start(f) ==
    /\ stage[f] = "spawned"
    /\ stage' = [stage EXCEPT ![f] = "running"]
    /\ thread' = [thread EXCEPT ![f] = "running"]
    /\ UNCHANGED <<pc, key, flight, regVars, pending, outcome, capVars, orphans, index, query>>

\* The blocking thread returns: a report, an error, or a panic.
ThreadReturns(f) ==
    /\ thread[f] = "running"
    /\ \E result \in {"report", "failed"} : thread' = [thread EXCEPT ![f] = result]
    /\ UNCHANGED <<pc, key, flight, regVars, stage, pending, outcome, capVars,
                   orphans, index, query>>

\* RequestGuard::drop and its fields: both permits go back.
DropGuard(f) ==
    /\ free' = [free EXCEPT ![lane[f]] = @ + 1]
    /\ lane' = [lane EXCEPT ![f] = "none"]
    /\ freeCores' = freeCores + 1
    /\ core' = [core EXCEPT ![f] = FALSE]

\* Mutation: the report is published without being filed first.
JoinedUnfiled(f) ==
    /\ stage[f] = "running"
    /\ thread[f] \in {"report", "failed"}
    /\ DropGuard(f)
    /\ stage' = [stage EXCEPT ![f] = "retire"]
    /\ pending' = [pending EXCEPT ![f] = thread[f]]
    /\ thread' = [thread EXCEPT ![f] = "none"]
    /\ UNCHANGED <<pc, key, flight, regVars, outcome, orphans, index, query>>

\* RequestGuard::run returns with the thread's result; record() maps it.
Joined(f) ==
    /\ stage[f] = "running"
    /\ thread[f] \in {"report", "failed"}
    /\ DropGuard(f)
    /\ IF thread[f] = "report"
         THEN stage' = [stage EXCEPT ![f] = "filing"] /\ UNCHANGED pending
         ELSE /\ stage' = [stage EXCEPT ![f] = "retire"]
              /\ pending' = [pending EXCEPT ![f] = "failed"]
    /\ thread' = [thread EXCEPT ![f] = "none"]
    /\ UNCHANGED <<pc, key, flight, regVars, outcome, orphans, index, query>>

\* Mutation: the timeout drops the guard while the thread runs on.
TimesOutDropsGuard(f) ==
    /\ TimeoutOn
    /\ stage[f] = "running"
    /\ thread[f] = "running"
    /\ DropGuard(f)
    /\ stage' = [stage EXCEPT ![f] = "retire"]
    /\ pending' = [pending EXCEPT ![f] = "timeout"]
    /\ UNCHANGED <<pc, key, flight, regVars, thread, outcome, orphans, index, query>>

\* --analysis-timeout elapsed: the guard follows the thread, the leader goes on.
TimesOut(f) ==
    /\ TimeoutOn
    /\ stage[f] = "running"
    /\ thread[f] = "running"
    /\ orphans' = orphans + 1
    /\ stage' = [stage EXCEPT ![f] = "retire"]
    /\ pending' = [pending EXCEPT ![f] = "timeout"]
    /\ UNCHANGED <<pc, key, flight, regVars, thread, outcome, capVars, index, query>>

\* The follower task of a timed-out thread: `drop(self)` once it has returned.
OrphanReaped(f) ==
    /\ stage[f] \in {"retire", "send", "settled"}
    /\ thread[f] \in {"report", "failed"}
    /\ orphans' = orphans - 1
    /\ DropGuard(f)
    /\ thread' = [thread EXCEPT ![f] = "none"]
    /\ UNCHANGED <<pc, key, flight, regVars, stage, pending, outcome, index, query>>

\* Leader::file: index the verdict, renew it, then answer; the filing thread
\* may panic before or after the verdict is indexed.
File(f) ==
    /\ stage[f] = "filing"
    /\ stage' = [stage EXCEPT ![f] = "retire"]
    /\ \/ /\ index' = index \cup {ArtifactOf[key[f]]}
          /\ \E o \in {"report", "failed"} : pending' = [pending EXCEPT ![f] = o]
       \/ /\ \E o \in {"failed"} \cup (IF IndexLossy THEN {"report"} ELSE {}) :
                pending' = [pending EXCEPT ![f] = o]
          /\ UNCHANGED index
    /\ UNCHANGED <<pc, key, flight, regVars, thread, outcome, capVars, orphans, query>>

\* The leader's task dies between the analysis and filing it: the Publisher it
\* drops publishes for it.
Abandoned(f) ==
    /\ stage[f] = "filing"
    /\ stage' = [stage EXCEPT ![f] = "retire"]
    /\ pending' = [pending EXCEPT ![f] = "abandoned"]
    /\ UNCHANGED <<pc, key, flight, regVars, thread, outcome, capVars, orphans, index, query>>

\* Flights::finish under the lock: retire our own flight only.
Retire(f) ==
    /\ stage[f] = "retire"
    /\ stage' = [stage EXCEPT ![f] = "send"]
    /\ IF live[key[f]] = f
         THEN /\ live' = [live EXCEPT ![key[f]] = None]
              /\ attached' = [attached EXCEPT ![key[f]] = 0]
         ELSE UNCHANGED <<live, attached>>
    /\ UNCHANGED <<pc, key, flight, thread, pending, outcome, capVars, orphans, index, query>>

\* Mutation: `send`, which keeps no value for a receiver yet to subscribe.
SendToSubscribers(f) ==
    /\ stage[f] = "send"
    /\ stage' = [stage EXCEPT ![f] = "settled"]
    /\ outcome' = [outcome EXCEPT ![f] =
                     IF \E r \in Requests : flight[r] = f /\ pc[r] = "waiting"
                       THEN pending[f] ELSE "none"]
    /\ pending' = [pending EXCEPT ![f] = "none"]
    /\ pc' = [pc EXCEPT ![f] = IF @ = "leading" THEN "waiting" ELSE @]
    /\ UNCHANGED <<key, flight, regVars, thread, capVars, orphans, index, query>>

\* Flights::finish after the lock: publish to every waiter.  A refusal is
\* published inside lead(), which then returns to the request.
Send(f) ==
    /\ stage[f] = "send"
    /\ stage' = [stage EXCEPT ![f] = "settled"]
    /\ outcome' = [outcome EXCEPT ![f] = pending[f]]
    /\ pending' = [pending EXCEPT ![f] = "none"]
    /\ pc' = [pc EXCEPT ![f] = IF @ = "leading" THEN "waiting" ELSE @]
    /\ UNCHANGED <<key, flight, regVars, thread, capVars, orphans, index, query>>

----------------------------------------------------------------------------
(* GET /status                                                              *)

\* A run of artifact a has filed its report and left the registry.
Reported(a) ==
    \E f \in Requests : /\ key[f] # None
                       /\ ArtifactOf[key[f]] = a
                       /\ \/ stage[f] = "send" /\ pending[f] = "report"
                          \/ outcome[f] = "report"

\* Flights::running: under the plain key or under any follow policy.
Running(a) == \E k \in Keys : ArtifactOf[k] = a /\ live[k] # None

\* First the registry; `reported` notes what had finished when the call came.
StatusRunning(q, a) ==
    /\ query[q].step = "new"
    /\ query' = [query EXCEPT ![q] =
                   [step |-> IF Running(a) THEN "done" ELSE "index",
                    artifact |-> a, reported |-> Reported(a),
                    answer |-> IF Running(a) THEN "running" ELSE "none"]]
    /\ UNCHANGED <<pc, key, flight, regVars, runVars, capVars, orphans, index>>

\* Then the index, on a blocking thread, by PURL or by digest only.
StatusComplete(q) ==
    /\ query[q].step = "index"
    /\ query' = [query EXCEPT ![q].step = "done",
                   ![q].answer = IF /\ query[q].artifact \in index
                                    /\ KindOf[query[q].artifact] \in {"sha", "purl"}
                                   THEN "complete" ELSE "unknown"]
    /\ UNCHANGED <<pc, key, flight, regVars, runVars, capVars, orphans, index>>

----------------------------------------------------------------------------
Request(r) ==
    \/ \E k \in Keys : Preflight(r, k)
    \/ JoinFollow(r) \/ JoinLead(r) \/ Answer(r) \/ HangUp(r)

Leader(f) ==
    \/ RefuseLoading(f) \/ TakeSlot(f) \/ TakeCore(f) \/ Start(f) \/ Joined(f) \/ TimesOut(f)
    \/ OrphanReaped(f) \/ File(f) \/ Abandoned(f) \/ Retire(f) \/ Send(f)

Status(q) == (\E a \in Artifacts : StatusRunning(q, a)) \/ StatusComplete(q)

Next ==
    \/ \E r \in Requests : Request(r) \/ Leader(r) \/ ThreadReturns(r)
    \/ \E q \in Queries : Status(q)

Spec == Init /\ [][Next]_vars

\* The next step of a request that is in, and of a flight's task with its thread's start.
Attends(r) == JoinFollow(r) \/ JoinLead(r) \/ Answer(r)
Proceeds(f) ==
    \/ RefuseLoading(f) \/ TakeSlot(f) \/ TakeCore(f) \/ Start(f) \/ Joined(f) \/ TimesOut(f)
    \/ File(f) \/ Retire(f) \/ Send(f)

\* Tasks are polled and --analysis-timeout fires; a blocking thread need not
\* ever return, and nobody need hang up.
Fairness ==
    \A r \in Requests :
        WF_vars(Attends(r)) /\ WF_vars(Proceeds(r)) /\ WF_vars(OrphanReaped(r))

FairSpec == Spec /\ Fairness

----------------------------------------------------------------------------
(* Properties                                                               *)

Outcomes == {"none", "report", "failed", "timeout", "refused", "abandoned"}

\* Types of every variable.
TypeOK ==
    /\ pc \in [Requests -> {"new", "checked", "refused", "leading", "waiting",
                            "answered", "left"}]
    /\ key \in [Requests -> Keys \cup {None}]
    /\ flight \in [Requests -> Requests \cup {None}]
    /\ live \in [Keys -> Requests \cup {None}]
    /\ attached \in [Keys -> Nat]
    /\ stage \in [Requests -> {"none", "slot", "core", "spawned", "running",
                               "filing", "retire", "send", "settled"}]
    /\ thread \in [Requests -> {"none", "running", "report", "failed"}]
    /\ pending \in [Requests -> Outcomes]
    /\ outcome \in [Requests -> Outcomes]
    /\ lane \in [Requests -> Lanes \cup {"none"}]
    /\ core \in [Requests -> BOOLEAN]
    /\ free \in [Lanes -> Nat]
    /\ freeCores \in Nat
    /\ orphans \in Nat
    /\ index \subseteq Artifacts
    /\ query \in [Queries -> [step : {"new", "index", "done"},
                              artifact : Artifacts \cup {None}, reported : BOOLEAN,
                              answer : {"none", "running", "complete", "unknown"}]]

\* A flight can be joined exactly from its registration until finish() retires
\* it, however many requests came and left meanwhile: a caller that reconnects
\* finds the run it left, and nobody joins a flight already answered.
JoinableWhileRunning ==
    \A f \in Requests :
        (\E k \in Keys : live[k] = f)
            <=> stage[f] \in {"slot", "core", "spawned", "running", "filing", "retire"}

\* The count beside a registered flight is the number of requests attached to
\* it: a late drop of an attachment to a retired flight never touches the
\* count of its successor under the same key, and the count never underflows.
AttachedExact ==
    \A k \in Keys : live[k] # None =>
        attached[k] = Cardinality({r \in Requests : flight[r] = live[k]})

\* Whoever is attached has an answer ahead: its flight has published one, or has what it
\* will publish, or a task or thread that goes on; a leader that does not wait yet is at
\* its own permits or refusal.  And no core is held for nobody: its thread runs, has
\* returned, or is about to start.
AnswerAhead ==
    /\ \A r \in Requests : pc[r] \in {"leading", "waiting"} =>
          /\ stage[flight[r]] # "none"
          /\ stage[flight[r]] = "settled" => outcome[flight[r]] # "none"
          /\ stage[flight[r]] \in {"retire", "send"} => pending[flight[r]] # "none"
          /\ stage[flight[r]] = "running" => thread[flight[r]] # "none"
          /\ pc[r] = "leading" => flight[r] = r /\ stage[r] \in {"slot", "core", "retire", "send"}
    /\ \A f \in Requests : core[f] => thread[f] # "none" \/ stage[f] = "spawned"

\* The free permits never claim a core that a blocking thread still uses, even
\* one that outlived its timeout, and no permit is lost or minted.
CapacityHonest ==
    /\ freeCores + Cardinality({f \in Requests : thread[f] = "running"}) <= Cores
    /\ freeCores + Cardinality({f \in Requests : core[f]}) = Cores
    /\ \A l \in Lanes :
          free[l] + Cardinality({f \in Requests : lane[f] = l}) = LaneSize[l]

\* /status never answers "unknown" for an artifact whose run had already filed
\* its report and retired when the call came in.
StatusNoGap ==
    \A q \in Queries : query[q].answer = "unknown" => ~query[q].reported

\* Every attached request is answered or hangs up, even when the analysis
\* thread never returns and the leader's task dies.
EveryRequestAnswered ==
    \A r \in Requests :
        pc[r] \in {"leading", "waiting"} ~> pc[r] \in {"answered", "left"}

\* A thread that returns, on time or long after its timeout, gives its core
\* back.
CoreReturned ==
    \A f \in Requests : thread[f] \in {"report", "failed"} ~> ~core[f]

\* active_tasks(): "Analyses running now. Every analysis holds a slot for its
\* whole run".
ActiveTasksExact ==
    ActiveTasks = Cardinality({f \in Requests : lane[f] # "none"})

\* Census: "Requests attached to them - at least one apiece".
CensusPopulated == \A k \in Keys : live[k] # None => attached[k] >= 1

\* Cores, slots and lanes are counted as they are held, in the semaphores and in what
\* the server reports of them.
CapacityIsExact == TypeOK /\ CapacityHonest /\ ActiveTasksExact

\* The requests attached to a flight are counted while it is registered, and each of them
\* has an answer ahead.
AttachedAreServed == AttachedExact /\ AnswerAhead
=============================================================================
