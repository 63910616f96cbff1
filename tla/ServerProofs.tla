--------------------------- MODULE ServerProofs ----------------------------
(***************************************************************************)
(* Five parts of the server, each for any number of whoever takes part:    *)
(*                                                                         *)
(* - shutdown: for any clients, any number of permits and any accept       *)
(*   failures, what is counted is what is held, no task that ends goes     *)
(*   unheard, and the drain is over only when nothing runs;                *)
(* - the idle worker: for any requests and any number of its deaths, it is *)
(*   frozen while the server is busy, and replaced only after a kill;      *)
(* - readiness: for any requests, nothing runs before what it needs is     *)
(*   loaded, and a refusal for memory follows a clearing of the caches;    *)
(* - the latency window: for any slots, recorders and readers, a slot      *)
(*   counts the samples of its own turn of the clock, each in its bucket,  *)
(*   a summary those of the window, and the percentile is in the bucket of *)
(*   the sample that has its rank;                                         *)
(* - the aging totals of a latency window: for any memory and any number of *)
(*   completions, but for two threads only, as the comment of the code says *)
(*   it, the count stays within what is remembered.                        *)
(***************************************************************************)
EXTENDS ServerShutdown, IdleWorker, ServerReadiness, ServiceTimes, WellFoundedInduction,
        FiniteSetTheorems, TLAPS

----------------------------------------------------------------------------
(* Counting                                                                *)

\* An element that joins a finite set is counted once.
LEMMA CountAdd ==
    ASSUME NEW S, NEW x, IsFiniteSet(S), x \notin S
    PROVE  /\ IsFiniteSet(S \cup {x})
           /\ Cardinality(S \cup {x}) = Cardinality(S) + 1
           /\ Cardinality(S) \in Nat
BY FS_AddElement, FS_CardinalityType

\* One that leaves it was counted once.
LEMMA CountRemove ==
    ASSUME NEW S, NEW x \in S, IsFiniteSet(S)
    PROVE  /\ IsFiniteSet(S \ {x})
           /\ Cardinality(S) = Cardinality(S \ {x}) + 1
           /\ Cardinality(S \ {x}) \in Nat
<1>1. IsFiniteSet(S \ {x}) /\ Cardinality(S \ {x}) = Cardinality(S) - 1
  BY FS_RemoveElement
<1>2. Cardinality(S) \in Nat /\ Cardinality(S \ {x}) \in Nat
  BY <1>1, FS_CardinalityType
<1> QED
  BY <1>1, <1>2

----------------------------------------------------------------------------
(* Shutdown                                                                *)

ConnStates   == {"none", "backlog", "open", "waits", "answered", "closed"}
ThreadStates == {"none", "running", "returned"}
TaskStates   == {"none", "live", "publish", "done", "notify", "gone"}
ServePhases  == {"permit", "accept", "pause", "draining", "grace", "owned", "exit",
                 "waiting", "gone"}

Serving == {"permit", "accept", "pause", "draining", "grace"}

\* The connections that hold a permit, and the tasks that Tasks::live counts.
Holding == {c \in Conns : ssConn[c] \in {"open", "waits", "answered"}}
Counted == {t \in Owned : ssTask[t] \in {"live", "publish", "done"}}

ShutdownTypes ==
    /\ ssServe \in ServePhases /\ ssSignal \in BOOLEAN
    /\ ssFree \in Nat /\ ssLive \in Nat /\ ssErrors \in Nat
    /\ ssConn \in [Conns -> ConnStates]
    /\ ssThread \in [Conns -> ThreadStates]
    /\ ssTold \in [Conns -> BOOLEAN]
    /\ ssTask \in [Owned -> TaskStates]
    /\ ssDrain \in [at : 1 .. 3, enabled : BOOLEAN, woken : BOOLEAN]

\* Every task counted is alive and the other way round, while there is a runtime.
LiveIsCounted ==
    ProcessUp => IsFiniteSet(Counted) /\ ssLive = Cardinality(Counted)

PermitsAreKept == ProcessUp => IsFiniteSet(Holding)

\* A request is sent once, leads once, and is followed at most once.
OneLifeEach ==
    \A c \in Conns :
        /\ ssConn[c] \in {"none", "backlog", "open"} => ssTask[Lead(c)] = "none"
        /\ ssTask[Lead(c)] \in {"none", "live"} => ssTask[Follow(c)] = "none"
        /\ ssTask[Lead(c)] = "none" => ssThread[c] = "none"
        /\ ssTold[c] => ssThread[c] # "none"

\* While there is a runtime a running thread has its owner: leader or follower.
ThreadIsOwned ==
    ProcessUp =>
        \A c \in Conns :
            ssThread[c] = "running" => "live" \in {ssTask[Lead(c)], ssTask[Follow(c)]}

\* drained reads the count only after it enabled its waiter.
WaiterIsEnabled ==
    /\ ssServe \in Serving => ssDrain.at = 1
    /\ ssDrain.at \in {2, 3} => ssDrain.enabled

ShutdownInv ==
    /\ ShutdownTypes /\ ShutdownTypeOK /\ PermitsAreKept /\ LiveIsCounted /\ OneLifeEach
    /\ ThreadIsOwned /\ WaiterIsEnabled /\ NoLostWakeup /\ WindowHonored /\ WaitsOnlyForTheTold

\* A client has two tasks of its own, and shares neither.
LEMMA OwnedTasks ==
    /\ \A c \in Conns : Lead(c) \in Owned /\ Follow(c) \in Owned
    /\ \A c, d \in Conns : Lead(c) # Follow(d)
    /\ \A c, d \in Conns : (Lead(c) = Lead(d) => c = d) /\ (Follow(c) = Follow(d) => c = d)
    /\ \A t \in Owned : \E c \in Conns : t = Lead(c) \/ t = Follow(c)
BY DEF Lead, Follow, Owned

LEMMA DrainOrdered == DrainOrder[1] = "enable" /\ DrainOrder[2] = "read"
BY DEF DrainOrder

LEMMA ShutdownInitInv == ShutdownInit => ShutdownInv
<1> SUFFICES ASSUME ShutdownInit PROVE ShutdownInv
  OBVIOUS
<1> USE ShutdownAssumption DEF ShutdownInit
<1>1. ShutdownTypes
  <2>1. ssTold \in [Conns -> BOOLEAN]
    OBVIOUS
  <2>2. ssDrain \in [at : 1 .. 3, enabled : BOOLEAN, woken : BOOLEAN]
    OBVIOUS
  <2>3. ssConn \in [Conns -> ConnStates] /\ ssThread \in [Conns -> ThreadStates]
    BY DEF ConnStates, ThreadStates
  <2>4. ssTask \in [Owned -> TaskStates]
    BY DEF TaskStates
  <2>5. ssServe \in ServePhases /\ ssSignal \in BOOLEAN
    BY DEF ServePhases
  <2>6. ssFree \in Nat /\ ssLive \in Nat /\ ssErrors \in Nat
    OBVIOUS
  <2> QED
    BY <2>1, <2>2, <2>3, <2>4, <2>5, <2>6 DEF ShutdownTypes
<1>2. Holding = {} /\ {c \in Conns : ssConn[c] \in {"open", "waits", "answered"}} = {} /\ Counted = {}
  BY DEF Holding, Counted
<1>3. ShutdownTypeOK /\ PermitsAreKept /\ LiveIsCounted
  BY <1>2, FS_EmptySet DEF ShutdownTypeOK, PermitsAreKept, LiveIsCounted
<1>4. OneLifeEach /\ ThreadIsOwned /\ WaiterIsEnabled
  BY OwnedTasks DEF OneLifeEach, ThreadIsOwned, WaiterIsEnabled
<1>5. NoLostWakeup /\ WindowHonored /\ WaitsOnlyForTheTold
  BY DEF NoLostWakeup, WindowHonored, WaitsOnlyForTheTold
<1> QED
  BY <1>1, <1>3, <1>4, <1>5 DEF ShutdownInv

LEMMA ShutdownTypesStep ==
    ShutdownInv /\ [ShutdownNext]_shutdownVars => ShutdownTypes'
<1> SUFFICES ASSUME ShutdownTypes, LiveIsCounted, [ShutdownNext]_shutdownVars
             PROVE  ShutdownTypes'
  BY DEF ShutdownInv
<1> USE DEF ShutdownTypes, ServePhases, ConnStates, ThreadStates, TaskStates
<1>1. CASE TakeConnPermit
  BY <1>1 DEF TakeConnPermit
<1>2. CASE PauseEnds
  BY <1>2 DEF PauseEnds
<1>3. CASE AcceptFails
  BY <1>3 DEF AcceptFails, PermitBack
<1>4. CASE SignalComes
  BY <1>4 DEF SignalComes
<1>5. CASE StopAccepting
  BY <1>5 DEF StopAccepting, SignalLeaves
<1>31. CASE ConnsClosed \/ WindowOver \/ GraceOver
  BY <1>31 DEF ConnsClosed, WindowOver, GraceOver, StopAll, Registered
<1>32. CASE DrainStep
  <2>1. ssServe' \in {"owned", "exit"} /\ UNCHANGED <<ssSignal, ssFree, ssErrors, ssConn>>
    BY <1>32 DEF DrainStep
  <2>2. UNCHANGED <<ssThread, ssTold, ssTask, ssLive>>
    BY <1>32 DEF DrainStep
  <2>3. CASE ssDrain.at = 1
    <3>1. DrainOrder[ssDrain.at] = "enable" /\ "enable" # "read"
      BY <2>3, DrainOrdered
    <3>2. ssDrain' = [at |-> ssDrain.at + 1, enabled |-> TRUE, woken |-> FALSE]
      BY <1>32, <3>1, Zenon DEF DrainStep
    <3> QED
      BY <2>1, <2>2, <2>3, <3>2
  <2>4. CASE ssDrain.at = 2
    BY <1>32, <2>1, <2>2, <2>4, DrainOrdered DEF DrainStep
  <2> QED
    BY <1>32, <2>3, <2>4 DEF DrainStep
<1>33. CASE DrainWoken
  BY <1>33 DEF DrainWoken
<1>34. CASE DrainAbandons \/ ProcessGone
  BY <1>34 DEF DrainAbandons, ProcessGone
<1>35. CASE RuntimeDropped
  BY <1>35 DEF RuntimeDropped, GuardDropTells
<1>6. ASSUME NEW t \in Owned, TaskSub(t) PROVE ShutdownTypes'
  <2>1. t \in Counted /\ ProcessUp
    BY <1>6 DEF TaskSub, Counted
  <2>2. IsFiniteSet(Counted) /\ ssLive = Cardinality(Counted)
    BY <2>1 DEF LiveIsCounted
  <2>3. Cardinality(Counted) = Cardinality(Counted \ {t}) + 1 /\ Cardinality(Counted \ {t}) \in Nat
    BY <2>1, <2>2, CountRemove
  <2>4. ssLive - 1 \in Nat
    BY <2>2, <2>3
  <2> QED
    BY <1>6, <2>4 DEF TaskSub
<1>7. ASSUME NEW t \in Owned, TaskNotify(t) PROVE ShutdownTypes'
  BY <1>7 DEF TaskNotify
<1>8. ASSUME NEW c \in Conns, Accept(c) \/ Connect(c) \/ Close(c) PROVE ShutdownTypes'
  BY <1>8 DEF Accept, Connect, Close
<1>9. ASSUME NEW c \in Conns, SendRequest(c) \/ RunTimesOut(c) PROVE ShutdownTypes'
  <2>1. Lead(c) \in Owned /\ Follow(c) \in Owned
    BY OwnedTasks
  <2>2. CASE SendRequest(c)
    BY <2>1, <2>2 DEF SendRequest, SpawnOwned
  <2>3. CASE RunTimesOut(c)
    BY <2>1, <2>3 DEF RunTimesOut, FollowOwned
  <2> QED
    BY <1>9, <2>2, <2>3
<1>10. ASSUME NEW c \in Conns, Register(c) \/ RunReturns(c) PROVE ShutdownTypes'
  BY <1>10 DEF Register, RunReturns
<1>11. ASSUME NEW c \in Conns, TasksJoined(c) \/ Publish(c) \/ FollowedOut(c) PROVE ShutdownTypes'
  <2>1. Lead(c) \in Owned /\ Follow(c) \in Owned
    BY OwnedTasks
  <2>2. CASE TasksJoined(c)
    BY <2>1, <2>2 DEF TasksJoined
  <2>3. CASE Publish(c)
    BY <2>1, <2>3 DEF Publish
  <2>4. CASE FollowedOut(c)
    BY <2>1, <2>4 DEF FollowedOut
  <2> QED
    BY <1>11, <2>2, <2>3, <2>4
<1>12. CASE UNCHANGED shutdownVars
  BY <1>12 DEF shutdownVars
<1> QED
  BY <1>1, <1>2, <1>3, <1>4, <1>5, <1>6, <1>7, <1>8, <1>9, <1>10, <1>11, <1>12,
     <1>31, <1>32, <1>33, <1>34, <1>35 DEF ShutdownNext, ServerStep

\* What a step does to the permits: none, one handed to a connection, one given back.
LEMMA PermitsStep ==
    ShutdownInv /\ [ShutdownNext]_shutdownVars => (ShutdownTypeOK /\ PermitsAreKept)'
<1> SUFFICES ASSUME ShutdownInv, [ShutdownNext]_shutdownVars
             PROVE  (ShutdownTypeOK /\ PermitsAreKept)'
  OBVIOUS
<1> DEFINE Acceptor == IF ssServe = "accept" THEN 1 ELSE 0
<1>1. ShutdownTypes /\ OneLifeEach
  BY DEF ShutdownInv
<1>2. ProcessUp => /\ IsFiniteSet(Holding) /\ Cardinality(Holding) \in Nat
                   /\ ssFree + Acceptor + Cardinality(Holding) = MaxConnections
  BY FS_CardinalityType DEF ShutdownInv, PermitsAreKept, ShutdownTypeOK, Holding
<1>3. ASSUME ProcessUp' =>
                /\ IsFiniteSet(Holding')
                /\ (ssFree + Acceptor)' + Cardinality(Holding') = MaxConnections
      PROVE  (ShutdownTypeOK /\ PermitsAreKept)'
  BY <1>3 DEF PermitsAreKept, ShutdownTypeOK, Holding
<1>4. ASSUME Holding' = Holding, ProcessUp' => ProcessUp,
             ProcessUp' => (ssFree + Acceptor)' = ssFree + Acceptor
      PROVE  (ShutdownTypeOK /\ PermitsAreKept)'
  <2> HIDE DEF Acceptor
  <2> QED
    BY <1>2, <1>3, <1>4
<1> USE DEF ShutdownTypes, ServePhases, ConnStates
<1>5. CASE TakeConnPermit
  BY <1>1, <1>4, <1>5 DEF TakeConnPermit, Holding, ProcessUp
<1>6. CASE PauseEnds \/ SignalComes
  BY <1>1, <1>4, <1>6 DEF PauseEnds, SignalComes, Holding, ProcessUp
<1>7. CASE AcceptFails
  BY <1>1, <1>4, <1>7 DEF AcceptFails, PermitBack, Holding, ProcessUp
<1>8. CASE StopAccepting
  BY <1>1, <1>4, <1>8 DEF StopAccepting, Holding, ProcessUp
<1>9. CASE ConnsClosed \/ WindowOver \/ GraceOver
  BY <1>1, <1>4, <1>9 DEF ConnsClosed, WindowOver, GraceOver, Holding, ProcessUp
<1>10. CASE DrainStep \/ DrainWoken \/ DrainAbandons
  BY <1>1, <1>4, <1>10 DEF DrainStep, DrainWoken, DrainAbandons, Holding, ProcessUp
<1>11. CASE RuntimeDropped \/ ProcessGone
  BY <1>1, <1>3, <1>11 DEF RuntimeDropped, ProcessGone, ProcessUp
<1>12. ASSUME NEW t \in Owned, TaskSub(t) \/ TaskNotify(t)
       PROVE  (ShutdownTypeOK /\ PermitsAreKept)'
  BY <1>1, <1>4, <1>12 DEF TaskSub, TaskNotify, Holding, ProcessUp
<1>13. ASSUME NEW c \in Conns, Accept(c) PROVE (ShutdownTypeOK /\ PermitsAreKept)'
  <2>1. c \notin Holding /\ Holding' = Holding \cup {c} /\ ProcessUp
    BY <1>1, <1>13 DEF Accept, Holding, ProcessUp
  <2>2. IsFiniteSet(Holding') /\ Cardinality(Holding') = Cardinality(Holding) + 1
    BY <1>2, <2>1, CountAdd
  <2>3. ssFree' = ssFree /\ ssServe = "accept" /\ ssServe' = "permit"
    BY <1>13 DEF Accept
  <2> QED
    BY <1>1, <1>2, <1>3, <2>1, <2>2, <2>3
<1>14. ASSUME NEW c \in Conns, Close(c) PROVE (ShutdownTypeOK /\ PermitsAreKept)'
  <2>1. c \in Holding /\ Holding' = Holding \ {c} /\ ProcessUp
    BY <1>1, <1>14 DEF Close, Holding
  <2>2. /\ IsFiniteSet(Holding') /\ Cardinality(Holding) = Cardinality(Holding') + 1
        /\ Cardinality(Holding') \in Nat
    BY <1>2, <2>1, CountRemove
  <2>3. ssFree' = ssFree + 1 /\ ssServe' = ssServe
    BY <1>14 DEF Close
  <2> QED
    BY <1>1, <1>2, <1>3, <2>1, <2>2, <2>3
<1>15. ASSUME NEW c \in Conns, Connect(c) \/ SendRequest(c) \/ Publish(c)
       PROVE  (ShutdownTypeOK /\ PermitsAreKept)'
  <2>1. Holding' = Holding /\ UNCHANGED <<ssServe, ssFree>>
    BY <1>1, <1>15 DEF Connect, SendRequest, Publish, Holding
  <2> QED
    BY <1>4, <2>1 DEF ProcessUp
<1>16. ASSUME NEW c \in Conns,
              \/ Register(c) \/ RunReturns(c) \/ RunTimesOut(c) \/ TasksJoined(c)
              \/ FollowedOut(c)
       PROVE  (ShutdownTypeOK /\ PermitsAreKept)'
  <2>1. UNCHANGED <<ssServe, ssFree, ssConn>>
    BY <1>16 DEF Register, RunReturns, RunTimesOut, TasksJoined, FollowedOut
  <2> QED
    BY <1>4, <2>1 DEF ProcessUp, Holding
<1>17. CASE UNCHANGED shutdownVars
  BY <1>4, <1>17 DEF shutdownVars, ProcessUp, Holding
<1> QED
  BY <1>5, <1>6, <1>7, <1>8, <1>9, <1>10, <1>11, <1>12, <1>13, <1>14, <1>15, <1>16, <1>17
     DEF ShutdownNext, ServerStep

\* What a step does to Tasks::live: nothing, or it counts one task in or out.
LEMMA CountedStep ==
    ShutdownInv /\ [ShutdownNext]_shutdownVars => LiveIsCounted'
<1> SUFFICES ASSUME ShutdownInv, [ShutdownNext]_shutdownVars, ProcessUp'
             PROVE  IsFiniteSet(Counted') /\ ssLive' = Cardinality(Counted')
  BY DEF LiveIsCounted
<1>1. ShutdownTypes /\ OneLifeEach
  BY DEF ShutdownInv
<1>2. ProcessUp
  BY DEF ShutdownNext, ServerStep, ProcessUp, shutdownVars, TakeConnPermit, PauseEnds,
     StopAccepting, ConnsClosed, WindowOver, GraceOver, DrainStep, DrainWoken, DrainAbandons,
     RuntimeDropped, ProcessGone, TaskSub, TaskNotify, Accept, Register, TasksJoined, Publish,
     FollowedOut, AcceptFails, SignalComes, Connect, Close, SendRequest, RunTimesOut, RunReturns
<1>3. IsFiniteSet(Counted) /\ ssLive = Cardinality(Counted)
  BY <1>2 DEF ShutdownInv, LiveIsCounted
<1> USE DEF ShutdownTypes, TaskStates
<1>4. ASSUME UNCHANGED <<ssTask, ssLive>>
      PROVE  IsFiniteSet(Counted') /\ ssLive' = Cardinality(Counted')
  <2>1. Counted' = Counted
    BY <1>4 DEF Counted
  <2> QED
    BY <1>3, <1>4, <2>1
<1>5. CASE TakeConnPermit \/ PauseEnds \/ StopAccepting \/ ConnsClosed \/ WindowOver \/ GraceOver
  BY <1>4, <1>5 DEF TakeConnPermit, PauseEnds, StopAccepting, ConnsClosed, WindowOver, GraceOver
<1>6. CASE DrainStep \/ DrainWoken \/ DrainAbandons \/ AcceptFails \/ SignalComes
  BY <1>4, <1>6 DEF DrainStep, DrainWoken, DrainAbandons, AcceptFails, SignalComes
<1>7. CASE RuntimeDropped \/ ProcessGone
  BY <1>7 DEF RuntimeDropped, ProcessGone, ProcessUp
<1>8. ASSUME NEW t \in Owned, TaskSub(t)
      PROVE  IsFiniteSet(Counted') /\ ssLive' = Cardinality(Counted')
  <2>1. t \in Counted /\ Counted' = Counted \ {t}
    BY <1>1, <1>8 DEF TaskSub, Counted
  <2>2. /\ IsFiniteSet(Counted') /\ Cardinality(Counted) = Cardinality(Counted') + 1
        /\ Cardinality(Counted') \in Nat
    BY <1>3, <2>1, CountRemove
  <2> QED
    BY <1>3, <1>8, <2>2 DEF TaskSub
<1>9. ASSUME NEW t \in Owned, TaskNotify(t)
      PROVE  IsFiniteSet(Counted') /\ ssLive' = Cardinality(Counted')
  <2>1. Counted' = Counted /\ ssLive' = ssLive
    BY <1>1, <1>9 DEF TaskNotify, Counted
  <2> QED
    BY <1>3, <2>1
<1>10. ASSUME NEW c \in Conns, Accept(c) \/ Register(c) \/ Connect(c) \/ Close(c) \/ RunReturns(c)
       PROVE  IsFiniteSet(Counted') /\ ssLive' = Cardinality(Counted')
  BY <1>4, <1>10 DEF Accept, Register, Connect, Close, RunReturns
<1>11. ASSUME NEW c \in Conns, TasksJoined(c) \/ Publish(c) \/ FollowedOut(c)
       PROVE  IsFiniteSet(Counted') /\ ssLive' = Cardinality(Counted')
  <2>1. Lead(c) \in Owned /\ Follow(c) \in Owned
    BY OwnedTasks
  <2>2. Counted' = Counted /\ ssLive' = ssLive
    BY <1>1, <1>11, <2>1 DEF TasksJoined, Publish, FollowedOut, Counted
  <2> QED
    BY <1>3, <2>2
<1>12. ASSUME NEW c \in Conns, SendRequest(c)
       PROVE  IsFiniteSet(Counted') /\ ssLive' = Cardinality(Counted')
  <2>1. Lead(c) \in Owned
    BY OwnedTasks
  <2>2. Lead(c) \notin Counted /\ Counted' = Counted \cup {Lead(c)}
    BY <1>1, <1>12, <2>1 DEF SendRequest, SpawnOwned, OneLifeEach, Counted
  <2> QED
    BY <1>3, <1>12, <2>2, CountAdd DEF SendRequest, SpawnOwned
<1>13. ASSUME NEW c \in Conns, RunTimesOut(c)
       PROVE  IsFiniteSet(Counted') /\ ssLive' = Cardinality(Counted')
  <2>1. Lead(c) \in Owned /\ Follow(c) \in Owned /\ Lead(c) # Follow(c)
    BY OwnedTasks
  <2>2. Follow(c) \notin Counted /\ Counted' = Counted \cup {Follow(c)}
    BY <1>1, <1>13, <2>1 DEF RunTimesOut, FollowOwned, OneLifeEach, Counted
  <2> QED
    BY <1>3, <1>13, <2>2, CountAdd DEF RunTimesOut, FollowOwned
<1>14. CASE UNCHANGED shutdownVars
  BY <1>4, <1>14 DEF shutdownVars
<1> QED
  BY <1>5, <1>6, <1>7, <1>8, <1>9, <1>10, <1>11, <1>12, <1>13, <1>14 DEF ShutdownNext, ServerStep

\* Tasks and threads: who leads, who follows, who owns a running thread, who was told.
LEMMA OwnersStep ==
    ShutdownInv /\ [ShutdownNext]_shutdownVars
        => (OneLifeEach /\ ThreadIsOwned /\ WindowHonored /\ WaitsOnlyForTheTold)'
<1> DEFINE Owners == OneLifeEach /\ ThreadIsOwned /\ WindowHonored /\ WaitsOnlyForTheTold
<1> SUFFICES ASSUME ShutdownTypes, Owners, [ShutdownNext]_shutdownVars PROVE Owners'
  BY DEF ShutdownInv
<1> USE OwnedTasks DEF OneLifeEach, ThreadIsOwned, WindowHonored, WaitsOnlyForTheTold, ShutdownTypes
<1>1. CASE TakeConnPermit \/ PauseEnds \/ AcceptFails \/ SignalComes
  BY <1>1 DEF TakeConnPermit, PauseEnds, AcceptFails, SignalComes, ProcessUp
<1>2. CASE StopAccepting
  BY <1>2 DEF StopAccepting, SignalLeaves, ProcessUp
<1>3. CASE ConnsClosed \/ WindowOver \/ GraceOver
  BY <1>3 DEF ConnsClosed, WindowOver, GraceOver, StopAll, Registered, ProcessUp
<1>4. CASE DrainStep \/ DrainWoken \/ DrainAbandons
  BY <1>4 DEF DrainStep, DrainWoken, DrainAbandons, ProcessUp
<1>5. CASE RuntimeDropped
  BY <1>5 DEF RuntimeDropped, GuardDropTells, ProcessUp
<1>6. CASE ProcessGone
  BY <1>6 DEF ProcessGone, ProcessUp
<1>7. ASSUME NEW t \in Owned, TaskSub(t) \/ TaskNotify(t) PROVE Owners'
  BY <1>7 DEF TaskSub, TaskNotify, ProcessUp
<1>8. ASSUME NEW c \in Conns, Accept(c) \/ Connect(c) \/ Close(c) PROVE Owners'
  BY <1>8 DEF Accept, Connect, Close, ProcessUp
<1>9. ASSUME NEW c \in Conns, SendRequest(c) PROVE Owners'
  BY <1>9 DEF SendRequest, SpawnOwned, ProcessUp
<1>10. ASSUME NEW c \in Conns, Register(c) PROVE Owners'
  BY <1>10 DEF Register, ProcessUp
<1>11. ASSUME NEW c \in Conns, RunReturns(c) PROVE Owners'
  BY <1>11 DEF RunReturns, ProcessUp
<1>12. ASSUME NEW c \in Conns, RunTimesOut(c) PROVE Owners'
  BY <1>12 DEF RunTimesOut, FollowOwned, ProcessUp
<1>13. ASSUME NEW c \in Conns, TasksJoined(c) PROVE Owners'
  BY <1>13 DEF TasksJoined, ProcessUp
<1>14. ASSUME NEW c \in Conns, Publish(c) PROVE Owners'
  BY <1>14 DEF Publish, ProcessUp
<1>15. ASSUME NEW c \in Conns, FollowedOut(c) PROVE Owners'
  BY <1>15 DEF FollowedOut, ProcessUp
<1>16. CASE UNCHANGED shutdownVars
  BY <1>16 DEF shutdownVars, ProcessUp
<1> QED
  BY <1>1, <1>2, <1>3, <1>4, <1>5, <1>6, <1>7, <1>8, <1>9, <1>10, <1>11, <1>12, <1>13, <1>14,
     <1>15, <1>16 DEF ShutdownNext, ServerStep

\* The waiter of drained is enabled before the count is read, and whoever takes the count
\* to zero after that still owes it the wake-up.
LEMMA WakeupStep ==
    ShutdownInv /\ [ShutdownNext]_shutdownVars => (WaiterIsEnabled /\ NoLostWakeup)'
<1> SUFFICES ASSUME ShutdownTypes, WaiterIsEnabled, NoLostWakeup, [ShutdownNext]_shutdownVars
             PROVE  (WaiterIsEnabled /\ NoLostWakeup)'
  BY DEF ShutdownInv
<1> USE DEF WaiterIsEnabled, NoLostWakeup, Serving, ShutdownTypes
<1>1. CASE TakeConnPermit \/ PauseEnds \/ AcceptFails \/ SignalComes \/ StopAccepting
  BY <1>1 DEF TakeConnPermit, PauseEnds, AcceptFails, SignalComes, StopAccepting
<1>2. CASE ConnsClosed \/ WindowOver \/ GraceOver
  BY <1>2 DEF ConnsClosed, WindowOver, GraceOver
<1>3. CASE DrainStep
  BY <1>3, DrainOrdered DEF DrainStep
<1>4. CASE DrainWoken \/ DrainAbandons \/ RuntimeDropped \/ ProcessGone
  BY <1>4 DEF DrainWoken, DrainAbandons, RuntimeDropped, ProcessGone
<1>5. ASSUME NEW t \in Owned, TaskSub(t) PROVE (WaiterIsEnabled /\ NoLostWakeup)'
  BY <1>5 DEF TaskSub
<1>6. ASSUME NEW t \in Owned, TaskNotify(t) PROVE (WaiterIsEnabled /\ NoLostWakeup)'
  BY <1>6 DEF TaskNotify
<1>7. ASSUME NEW c \in Conns,
             Accept(c) \/ Connect(c) \/ Close(c) \/ Register(c) \/ RunReturns(c)
      PROVE  (WaiterIsEnabled /\ NoLostWakeup)'
  BY <1>7 DEF Accept, Connect, Close, Register, RunReturns
<1>8. ASSUME NEW c \in Conns, SendRequest(c) \/ RunTimesOut(c)
      PROVE  (WaiterIsEnabled /\ NoLostWakeup)'
  BY <1>8 DEF SendRequest, SpawnOwned, RunTimesOut, FollowOwned
<1>9. ASSUME NEW c \in Conns, TasksJoined(c) \/ Publish(c) \/ FollowedOut(c)
      PROVE  (WaiterIsEnabled /\ NoLostWakeup)'
  BY <1>9, OwnedTasks DEF TasksJoined, Publish, FollowedOut
<1>10. CASE UNCHANGED shutdownVars
  BY <1>10 DEF shutdownVars
<1> QED
  BY <1>1, <1>2, <1>3, <1>4, <1>5, <1>6, <1>7, <1>8, <1>9, <1>10 DEF ShutdownNext, ServerStep

\* The invariant the shutdown theorems rest on holds in every run.
THEOREM ShutdownInvariant == ShutdownSpec => []ShutdownInv
<1>1. ShutdownInv /\ [ShutdownNext]_shutdownVars => ShutdownInv'
  BY ShutdownTypesStep, PermitsStep, CountedStep, OwnersStep, WakeupStep DEF ShutdownInv
<1> QED
  BY <1>1, ShutdownInitInv, PTL DEF ShutdownSpec

\* drained reads zero only when no analysis runs and none has an outcome to file.
LEMMA DrainReadsAQuietServer ==
    ShutdownInv /\ [ShutdownNext]_shutdownVars =>
        (ssServe = "owned" /\ ssServe' = "exit" /\ ssDrain.at # 3 =>
            \A c \in Conns :
               ssThread[c] # "running" /\ ssTask[Lead(c)] \notin {"live", "publish"})
<1> SUFFICES ASSUME ShutdownInv, [ShutdownNext]_shutdownVars,
                    ssServe = "owned", ssServe' = "exit", ssDrain.at # 3, NEW c \in Conns
             PROVE  ssThread[c] # "running" /\ ssTask[Lead(c)] \notin {"live", "publish"}
  OBVIOUS
<1>1. DrainStep
  BY DEF ShutdownNext, ServerStep, shutdownVars, TakeConnPermit, PauseEnds, StopAccepting,
     ConnsClosed, WindowOver, GraceOver, DrainWoken, DrainAbandons, RuntimeDropped, ProcessGone,
     TaskSub, TaskNotify, Accept, Register, TasksJoined, Publish, FollowedOut, AcceptFails,
     SignalComes, Connect, Close, SendRequest, RunTimesOut, RunReturns
<1>2. ssLive = 0 /\ ProcessUp
  BY <1>1 DEF DrainStep, ProcessUp
<1>3. Counted = {}
  BY <1>2, FS_EmptySet DEF ShutdownInv, LiveIsCounted
<1>4. Lead(c) \in Owned /\ Follow(c) \in Owned
  BY OwnedTasks
<1>5. "live" \notin {ssTask[Lead(c)], ssTask[Follow(c)]} /\ ssTask[Lead(c)] # "publish"
  BY <1>3, <1>4 DEF Counted
<1> QED
  BY <1>2, <1>5 DEF ShutdownInv, ThreadIsOwned

\* A shutdown is orderly, for any number of clients and permits: no permit is lost
\* between the accept loop and the connections, drain() neither sleeps through its wake-up nor
\* takes a busy server for a quiet one, the window is honored, and the process waits
\* only for threads that were told (serve, run, drain and Tasks of server/mod.rs).
THEOREM ShutdownStaysOrderly == ShutdownSpec => ShutdownIsOrderly
<1>1. ShutdownInv => ShutdownTypeOK /\ NoLostWakeup /\ WindowHonored /\ WaitsOnlyForTheTold
  BY DEF ShutdownInv
<1>2. ShutdownSpec => [](ShutdownTypeOK /\ NoLostWakeup /\ WindowHonored /\ WaitsOnlyForTheTold)
  BY <1>1, ShutdownInvariant, PTL
<1>3. ShutdownSpec => DrainedIsQuiet
  BY DrainReadsAQuietServer, ShutdownInvariant, PTL DEF ShutdownSpec, DrainedIsQuiet
<1> QED
  BY <1>2, <1>3 DEF ShutdownIsOrderly

----------------------------------------------------------------------------
(* The idle worker                                                         *)

Analysing == {r \in Analyses : iwPc[r] = "analysis"}

\* Where the supervisor is says which worker there is: none between two of them, a new one
\* from the fork to its installation, and then the installed one.
WorkerOfPhase ==
    /\ sup \in {"exec", "install"} => ~installed /\ worker # "none"
    /\ installed => sup \in {"check", "sleep"} /\ worker \in {"running", "dead"}
    /\ ~installed /\ sup \notin {"exec", "install"} => worker = "none"
    /\ worker = "forked" => sup = "exec"

\* A worker that is not installed yet got to its exec in a thawed cgroup, and nobody
\* freezes the cgroup before it is.
NewWorkerIsThawed == worker = "running" /\ ~installed => ~frozen

\* While the server is the first one, a descendant outlives its worker only until the
\* kill that is due once the worker is found dead.
StrayIsKilled == exits = 0 /\ stray = "alive" => worker = "dead" \/ sup = "kill"

IdleInv ==
    /\ IdleTypeOK /\ IsFiniteSet(Analysing) /\ WorkerOfPhase /\ NewWorkerIsThawed
    /\ StrayIsKilled /\ FrozenExactlyWhileBusy

LEMMA IdleInitInv == IdleInit => IdleInv
<1> SUFFICES ASSUME IdleInit PROVE IdleInv
  OBVIOUS
<1>1. Analysing = {} /\ Cardinality(Analysing) = 0 /\ IsFiniteSet(Analysing)
  BY FS_EmptySet DEF IdleInit, Analysing
<1>2. iwPc \in [Analyses -> {"out", "handler", "analysis"}]
  BY DEF IdleInit
<1>3. deaths \in 0 .. MaxDeaths /\ exits \in 0 .. MaxExits
  BY BoundsAssumption DEF IdleInit
<1>4. IdleTypeOK
  BY <1>1, <1>2, <1>3 DEF IdleInit, IdleTypeOK, Sups, Analysing
<1> QED
  BY <1>1, <1>4 DEF IdleInit, IdleInv, WorkerOfPhase, NewWorkerIsThawed, StrayIsKilled,
     FrozenExactlyWhileBusy

LEMMA IdleStepInv == IdleInv /\ [IdleNext]_idleVars => IdleInv'
<1> SUFFICES ASSUME IdleInv, [IdleNext]_idleVars PROVE IdleInv'
  OBVIOUS
<1>1. /\ IdleTypeOK /\ IsFiniteSet(Analysing) /\ count = Cardinality(Analysing) /\ count \in Nat
      /\ WorkerOfPhase /\ NewWorkerIsThawed /\ StrayIsKilled /\ FrozenExactlyWhileBusy
  BY FS_CardinalityType DEF IdleInv, IdleTypeOK, Analysing
<1> DEFINE Rest == WorkerOfPhase /\ NewWorkerIsThawed /\ StrayIsKilled /\ FrozenExactlyWhileBusy
           Others == /\ sup \in Sups /\ installed \in BOOLEAN
                     /\ worker \in {"none", "forked", "running", "dead"}
                     /\ stray \in {"none", "alive", "dying"}
                     /\ dir \in BOOLEAN /\ frozen \in BOOLEAN
                     /\ deaths \in 0 .. MaxDeaths /\ exits \in 0 .. MaxExits
           Requests == /\ iwPc \in [Analyses -> {"out", "handler", "analysis"}]
                       /\ IsFiniteSet(Analysing) /\ count = Cardinality(Analysing)
<1>2. Requests /\ Others
  BY <1>1 DEF IdleTypeOK
<1>3. ASSUME Requests', Others', Rest' PROVE IdleInv'
  BY <1>3 DEF IdleInv, IdleTypeOK, Analysing
<1>4. ASSUME UNCHANGED reqVars PROVE Requests'
  <2>1. Analysing' = Analysing
    BY <1>4 DEF reqVars, Analysing
  <2> QED
    BY <1>2, <1>4, <2>1 DEF reqVars
<1> HIDE DEF Requests
<1> USE DEF WorkerOfPhase, NewWorkerIsThawed, StrayIsKilled, FrozenExactlyWhileBusy, Sups
<1>5. ASSUME NEW r \in Analyses, Arrive(r) \/ Answered(r) PROVE IdleInv'
  <2>1. Analysing' = Analysing /\ iwPc' \in [Analyses -> {"out", "handler", "analysis"}]
    BY <1>2, <1>5 DEF Arrive, Answered, Analysing, Requests
  <2>2. count' = count /\ UNCHANGED <<sup, installed, worker, stray, dir, frozen, deaths, exits>>
    BY <1>5 DEF Arrive, Answered, cgroupVars, bounds
  <2>3. Requests'
    BY <1>2, <2>1, <2>2 DEF Requests
  <2> QED
    BY <1>1, <1>2, <1>3, <2>2, <2>3
<1>6. ASSUME NEW r \in Analyses, Enter(r) PROVE IdleInv'
  <2>1. r \notin Analysing /\ Analysing' = Analysing \cup {r}
    BY <1>2, <1>6 DEF Enter, Analysing, Requests
  <2>2. iwPc' \in [Analyses -> {"out", "handler", "analysis"}] /\ count' = count + 1
    BY <1>2, <1>6 DEF Enter, Requests
  <2>3. Requests'
    BY <1>2, <2>1, <2>2, CountAdd DEF Requests
  <2>4. UNCHANGED <<sup, installed, worker, stray, dir, deaths, exits>>
    BY <1>6 DEF Enter, bounds
  <2>5. frozen' = IF count' = 1 /\ installed THEN TRUE ELSE frozen
    BY <1>6 DEF Enter
  <2>6. Others'
    BY <1>2, <2>4, <2>5
  <2>7. Rest'
    BY <1>1, <2>2, <2>4, <2>5
  <2> QED
    BY <1>3, <2>3, <2>6, <2>7
<1>7. ASSUME NEW r \in Analyses, Leave(r) PROVE IdleInv'
  <2>1. r \in Analysing /\ Analysing' = Analysing \ {r}
    BY <1>2, <1>7 DEF Leave, Analysing, Requests
  <2>2. iwPc' \in [Analyses -> {"out", "handler", "analysis"}] /\ count' = count - 1
    BY <1>2, <1>7 DEF Leave, Requests
  <2>3. Requests' /\ count' \in Nat
    BY <1>2, <2>1, <2>2, CountRemove DEF Requests
  <2>4. UNCHANGED <<sup, installed, worker, stray, dir, deaths, exits>>
    BY <1>7 DEF Leave, bounds
  <2>5. frozen' = IF count' = 0 /\ installed THEN FALSE ELSE frozen
    BY <1>7 DEF Leave
  <2>6. Others'
    BY <1>2, <2>4, <2>5
  <2>7. Rest'
    BY <1>1, <2>2, <2>3, <2>4, <2>5
  <2> QED
    BY <1>3, <2>3, <2>6, <2>7
<1>8. CASE Wake
  <2>1. Requests'
    BY <1>4, <1>8 DEF Wake
  <2>2. Others' 
    BY <1>2, <1>8 DEF Wake, reqVars, cgroupVars, bounds
  <2>3. Rest'
    BY <1>1, <1>2, <1>8 DEF Wake, reqVars, cgroupVars, bounds
  <2> QED
    BY <1>3, <2>1, <2>2, <2>3
<1>9. CASE Check
  <2>1. Requests'
    BY <1>4, <1>9 DEF Check
  <2>2. Others' 
    BY <1>2, <1>9 DEF Check, reqVars, cgroupVars, bounds
  <2>3. Rest'
    BY <1>1, <1>2, <1>9 DEF Check, reqVars, cgroupVars, bounds
  <2> QED
    BY <1>3, <2>1, <2>2, <2>3
<1>10. CASE Kill
  <2>1. Requests'
    BY <1>4, <1>10 DEF Kill
  <2>2. Others' 
    BY <1>2, <1>10 DEF Kill, reqVars, bounds
  <2>3. Rest'
    BY <1>1, <1>2, <1>10 DEF Kill, reqVars, bounds
  <2> QED
    BY <1>3, <2>1, <2>2, <2>3
<1>11. CASE Release
  <2>1. Requests'
    BY <1>4, <1>11 DEF Release
  <2>2. Others' 
    BY <1>2, <1>11 DEF Release, reqVars, bounds
  <2>3. Rest'
    BY <1>1, <1>2, <1>11 DEF Release, reqVars, bounds
  <2> QED
    BY <1>3, <2>1, <2>2, <2>3
<1>12. CASE Prepare
  <2>1. Requests'
    BY <1>4, <1>12 DEF Prepare
  <2>2. Others' 
    BY <1>2, <1>12 DEF Prepare, reqVars, bounds
  <2>3. Rest'
    BY <1>1, <1>2, <1>12 DEF Prepare, reqVars, bounds
  <2> QED
    BY <1>3, <2>1, <2>2, <2>3
<1>13. CASE SpawnFails
  <2>1. Requests'
    BY <1>4, <1>13 DEF SpawnFails
  <2>2. Others' 
    BY <1>2, <1>13 DEF SpawnFails, reqVars, bounds
  <2>3. Rest'
    BY <1>1, <1>2, <1>13 DEF SpawnFails, reqVars, bounds
  <2> QED
    BY <1>3, <2>1, <2>2, <2>3
<1>14. CASE SpawnReturns
  <2>1. Requests'
    BY <1>4, <1>14 DEF SpawnReturns
  <2>2. Others' 
    BY <1>2, <1>14 DEF SpawnReturns, reqVars, cgroupVars, bounds
  <2>3. Rest'
    BY <1>1, <1>2, <1>14 DEF SpawnReturns, reqVars, cgroupVars, bounds
  <2> QED
    BY <1>3, <2>1, <2>2, <2>3
<1>15. CASE Install
  <2>1. Requests'
    BY <1>4, <1>15 DEF Install
  <2>2. Others' 
    BY <1>2, <1>15 DEF Install, reqVars, bounds
  <2>3. Rest'
    BY <1>1, <1>2, <1>15 DEF Install, reqVars, bounds
  <2> QED
    BY <1>3, <2>1, <2>2, <2>3
<1>16. CASE Exec
  <2>1. Requests'
    BY <1>4, <1>16 DEF Exec
  <2>2. Others' 
    BY <1>2, <1>16 DEF Exec, reqVars, cgroupVars, bounds
  <2>3. Rest'
    BY <1>1, <1>2, <1>16 DEF Exec, reqVars, cgroupVars, bounds
  <2> QED
    BY <1>3, <2>1, <2>2, <2>3
<1>17. CASE WorkerDies
  <2>1. Requests'
    BY <1>4, <1>17 DEF WorkerDies
  <2>2. Others' 
    BY <1>2, <1>17, BoundsAssumption DEF WorkerDies, reqVars
  <2>3. Rest'
    BY <1>1, <1>2, <1>17 DEF WorkerDies, reqVars
  <2> QED
    BY <1>3, <2>1, <2>2, <2>3
<1>18. CASE StrayExits
  <2>1. Requests'
    BY <1>4, <1>18 DEF StrayExits
  <2>2. Others' 
    BY <1>2, <1>18 DEF StrayExits, reqVars, bounds
  <2>3. Rest'
    BY <1>1, <1>2, <1>18 DEF StrayExits, reqVars, bounds
  <2> QED
    BY <1>3, <2>1, <2>2, <2>3
<1>19. CASE Restart
  <2>1. Requests'
    BY <1>4, <1>19 DEF Restart
  <2>2. Others' 
    BY <1>2, <1>19 DEF Restart, reqVars, cgroupVars, bounds
  <2>3. Rest'
    BY <1>1, <1>2, <1>19 DEF Restart, reqVars, cgroupVars, bounds
  <2> QED
    BY <1>3, <2>1, <2>2, <2>3
<1>20. CASE ServerExits
  <2>1. Analysing' = {} /\ iwPc' \in [Analyses -> {"out", "handler", "analysis"}] /\ count' = 0
    BY <1>20 DEF ServerExits, Analysing
  <2>2. Requests'
    BY <2>1, FS_EmptySet DEF Requests
  <2>3. Others'
    <3>1. exits' \in 0 .. MaxExits
      BY <1>2, <1>20, BoundsAssumption DEF ServerExits
    <3>2. UNCHANGED <<dir, frozen, deaths>> /\ sup' = "down" /\ installed' = FALSE
      BY <1>20 DEF ServerExits
    <3>3. stray' \in {"none", "alive", "dying"} /\ worker' = "none"
      BY <1>2, <1>20 DEF ServerExits
    <3> QED
      BY <1>2, <3>1, <3>2, <3>3
  <2>4. Rest'
    BY <1>1, <1>2, <1>20 DEF ServerExits
  <2> QED
    BY <1>3, <2>2, <2>3, <2>4
<1>21. CASE UNCHANGED idleVars
  <2>1. Requests'
    BY <1>4, <1>21 DEF idleVars, reqVars
  <2> QED
    BY <1>1, <1>2, <1>3, <1>21, <2>1 DEF idleVars
<1> QED
  BY <1>5, <1>6, <1>7, <1>8, <1>9, <1>10, <1>11, <1>12, <1>13, <1>14, <1>15, <1>16, <1>17, <1>18, <1>19, <1>20, <1>21
     DEF IdleNext, AnalysisStep, Supervisor, System

\* The invariant of the idle worker holds in every run.
THEOREM IdleInvariant == IdleSpec => []IdleInv
BY IdleInitInv, IdleStepInv, PTL DEF IdleSpec

\* The idle worker makes way for any number of analyses: once installed it is frozen exactly
\* while one runs, however freeze, thaw, death and replacement interleave, and a replacement
\* is forked only after the kill (Busy::enter, BusyToken::drop and ensure_running).
THEOREM IdleWorkerMakesWay == IdleSpec => []IdleWorkerYields
<1>1. IdleInv => IdleWorkerYields
  BY DEF IdleInv, IdleWorkerYields, ReplacedAfterKill, WorkerOfPhase, StrayIsKilled
<1> QED
  BY <1>1, IdleInvariant, PTL

----------------------------------------------------------------------------
(* Readiness, the memory check and the CPU share                           *)

CheckPcs == {"new", "check", "clearing", "again", "unmark", "mark", "overloaded", "admitted",
             "runs", "refused"}
Clears   == {"none", "running", "ended"}
Samples  == [at : Nat, busy : Nat, idle : Nat, from : Nat, to : Nat]
Window   == [from : Nat, to : Nat]

\* The loaders, and requests before and after their check.
LoadInv ==
    /\ rdLoad \in [Loaders -> {"loading", "ok", "error", "panic"}]
    /\ rdState = "ready" => AllLoaded
    /\ RunsOnlyOnLoaded

\* A request past its second reading has seen its cache clear end; the marks and the
\* readings are of the past.
CheckInv ==
    /\ mmReq \in [Admittees -> [pc : CheckPcs, clear : Clears]]
    /\ mmNow \in Nat /\ mmMark \in Nat /\ mmOkAt \in Nat
    /\ mmOkAt <= mmNow
    /\ \A r \in Admittees : mmReq[r].pc = "again" => mmReq[r].clear = "ended"
    /\ RefusedOnlyAfterClear /\ MarkUnbroken

\* The last sample is of the past, and the window it stands for was wide enough.
SampleInv ==
    /\ cbNow \in Nat /\ cbBusy \in Nat /\ cbIdle \in Nat
    /\ cbLast \in Samples /\ cbTold \in Window
    /\ cbLast.to # 0 => cbLast.to >= cbLast.from + MinWindow
    /\ ShareOverAWindow

ReadinessInv == LoadInv /\ CheckInv /\ SampleInv

LEMMA ReadinessInitInv == ReadinessInit => ReadinessInv
<1> SUFFICES ASSUME ReadinessInit PROVE ReadinessInv
  OBVIOUS
<1>1. LoadInv
  BY DEF ReadinessInit, LoadInv, RunsOnlyOnLoaded, Loaders
<1>2. CheckInv
  BY DEF ReadinessInit, CheckInv, RefusedOnlyAfterClear, MarkUnbroken, CheckPcs, Clears
<1>3. SampleInv
  BY ReadinessAssumption DEF ReadinessInit, SampleInv, NoSample, Samples, Window, ShareOverAWindow
<1> QED
  BY <1>1, <1>2, <1>3 DEF ReadinessInv

LEMMA RequestStepInv == ReadinessInv /\ RequestNext /\ UNCHANGED cbVars => ReadinessInv'
<1> SUFFICES ASSUME LoadInv, CheckInv, SampleInv, RequestNext, UNCHANGED cbVars
             PROVE  ReadinessInv'
  BY DEF ReadinessInv
<1>1. SampleInv'
  BY DEF cbVars, SampleInv, ShareOverAWindow
<1>2. ASSUME LoadInv', CheckInv' PROVE ReadinessInv'
  BY <1>1, <1>2 DEF ReadinessInv
<1> USE DEF LoadInv, CheckInv, AllLoaded, RunsOnlyOnLoaded, RefusedOnlyAfterClear, MarkUnbroken,
        CheckPcs, Clears, To
<1>3. CASE MmTick
  BY <1>2, <1>3 DEF MmTick
<1>4. CASE RssMoves
  BY <1>2, <1>4 DEF RssMoves
<1>5. CASE Loaded
  BY <1>2, <1>5 DEF Loaded
<1>6. ASSUME NEW k \in Loaders, Load(k) PROVE ReadinessInv'
  BY <1>2, <1>6 DEF Load
<1>7. ASSUME NEW r \in Admittees, Admit(r) PROVE ReadinessInv'
  BY <1>2, <1>7 DEF Admit
<1>8. ASSUME NEW r \in Admittees, Unmeasured(r) PROVE ReadinessInv'
  BY <1>2, <1>8 DEF Unmeasured
<1>9. ASSUME NEW r \in Admittees, FirstReading(r) PROVE ReadinessInv'
  BY <1>2, <1>9 DEF FirstReading
<1>10. ASSUME NEW r \in Admittees, ClearEnds(r) PROVE ReadinessInv'
  BY <1>2, <1>10 DEF ClearEnds
<1>11. ASSUME NEW r \in Admittees, Cleared(r) PROVE ReadinessInv'
  BY <1>2, <1>11 DEF Cleared, ClearAwaited
<1>12. ASSUME NEW r \in Admittees, SecondReading(r) PROVE ReadinessInv'
  BY <1>2, <1>12 DEF SecondReading
<1>13. ASSUME NEW r \in Admittees, Unmark(r) PROVE ReadinessInv'
  BY <1>2, <1>13 DEF Unmark, MarkTaken
<1>14. ASSUME NEW r \in Admittees, Mark(r) PROVE ReadinessInv'
  BY <1>2, <1>14 DEF Mark
<1>15. ASSUME NEW r \in Admittees, ClaimRun(r) PROVE ReadinessInv'
  BY <1>2, <1>15 DEF ClaimRun
<1> QED
  BY <1>3, <1>4, <1>5, <1>6, <1>7, <1>8, <1>9, <1>10, <1>11, <1>12, <1>13, <1>14, <1>15
     DEF RequestNext

LEMMA CpuStepInv == ReadinessInv /\ CpuNext /\ UNCHANGED rdVars => ReadinessInv'
<1> SUFFICES ASSUME LoadInv, CheckInv, SampleInv, CpuNext, UNCHANGED rdVars
             PROVE  ReadinessInv'
  BY DEF ReadinessInv
<1>1. LoadInv' /\ CheckInv'
  BY DEF rdVars, LoadInv, CheckInv, AllLoaded, RunsOnlyOnLoaded, RefusedOnlyAfterClear,
     MarkUnbroken
<1> USE ReadinessAssumption DEF SampleInv, ShareOverAWindow, Samples, Window
<1>2. CASE CbTick
  BY <1>1, <1>2 DEF CbTick, ReadinessInv
<1>3. CASE CpuSample
  BY <1>1, <1>3 DEF CpuSample, Comparable, LeastWindow, ReadinessInv
<1> QED
  BY <1>2, <1>3 DEF CpuNext

\* The invariant of readiness, memory check and CPU share holds in every run.
THEOREM ReadinessInvariant == ReadinessSpec => []ReadinessInv
<1>1. ReadinessInv /\ UNCHANGED readinessVars => ReadinessInv'
  BY DEF readinessVars, ReadinessInv, LoadInv, CheckInv, SampleInv, AllLoaded, RunsOnlyOnLoaded,
     RefusedOnlyAfterClear, MarkUnbroken, ShareOverAWindow
<1>2. ReadinessInv /\ [ReadinessNext]_readinessVars => ReadinessInv'
  BY <1>1, RequestStepInv, CpuStepInv DEF ReadinessNext
<1> QED
  BY <1>2, ReadinessInitInv, PTL DEF ReadinessSpec

\* Whatever any number of requests, loaders and pollers do: an analysis runs only on loaded
\* resources, a refusal for memory follows the request's own clear, the overload mark does
\* not outlive a good reading, and a CPU share is of a window wide enough (load_resources,
\* check_memory and CpuBusy::sample).
THEOREM ReadinessStaysHonest == ReadinessSpec => []ReadinessIsHonest
<1>1. ReadinessInv => ReadinessIsHonest
  BY DEF ReadinessInv, LoadInv, CheckInv, SampleInv, ReadinessIsHonest
<1> QED
  BY <1>1, ReadinessInvariant, PTL

----------------------------------------------------------------------------
(* The latency window: the ring of slots                                   *)

\* What is in the sets of a family.
AllOf(K, F) == UNION {F[k] : k \in K}

\* What finitely many disjoint sets count together is counted once.
LEMMA SumOfSizes ==
    ASSUME NEW K, NEW F, NEW c, IsFiniteSet(K),
           \A k \in K : IsFiniteSet(F[k]) /\ c[k] \in Nat /\ c[k] = Cardinality(F[k]),
           \A k, l \in K : \A x : x \in F[k] /\ x \in F[l] => k = l
    PROVE  TotalOf(c, K) = Cardinality(AllOf(K, F))
<1> DEFINE Units == UNION {{k} \X (1..c[k]) : k \in K}
           All == UNION {F[k] : k \in K}
           nth == [k \in K |-> CHOOSE f : f \in Bijection(1..c[k], F[k])]
           unit == [u \in Units |-> nth[u[1]][u[2]]]
<1>1. ASSUME NEW k \in K PROVE nth[k] \in Bijection(1..c[k], F[k])
  <2>1. ExistsBijection(1..Cardinality(F[k]), F[k])
    BY FS_CardinalityType
  <2>2. \E f : f \in Bijection(1..c[k], F[k])
    BY <2>1 DEF ExistsBijection
  <2> QED
    BY <2>2
<1>2. IsFiniteSet(Units)
  <2> DEFINE Pieces == {{k} \X (1..c[k]) : k \in K}
             piece == [k \in K |-> {k} \X (1..c[k])]
  <2>1. piece \in Surjection(K, Pieces)
    BY DEF Surjection
  <2>2. IsFiniteSet(Pieces)
    BY <2>1, FS_Surjection
  <2>3. ASSUME NEW k \in K PROVE IsFiniteSet({k} \X (1..c[k]))
    <3>1. PICK n \in Nat : n = c[k]
      OBVIOUS
    <3>2. IsFiniteSet({k}) /\ IsFiniteSet(1..n)
      BY FS_Singleton, FS_Interval, 1 \in Int /\ n \in Int
    <3> QED
      BY <3>1, <3>2, FS_Product
  <2> QED
    BY <2>2, <2>3, FS_UNION
<1>3. \A k \in K : \A n \in 1..c[k] : <<k, n>> \in Units
  OBVIOUS
<1>4. \A u \in Units : u = <<u[1], u[2]>> /\ u[1] \in K /\ u[2] \in 1..c[u[1]]
  OBVIOUS
<1> HIDE DEF Units, nth
<1>5. \A k \in K : \A n \in 1..c[k] : nth[k][n] \in F[k]
  BY <1>1 DEF Bijection, Injection
<1>6. unit \in [Units -> All]
  BY <1>4, <1>5
<1>7. ASSUME NEW u \in Units, NEW v \in Units, unit[u] = unit[v] PROVE u = v
  <2>1. nth[u[1]][u[2]] = nth[v[1]][v[2]]
    BY <1>7
  <2>2. u[1] = v[1]
    BY <1>4, <1>5, <2>1
  <2>3. PICK k \in K : k = u[1] /\ k = v[1]
    BY <1>4, <2>2
  <2>4. u[2] \in 1..c[k] /\ v[2] \in 1..c[k]
    BY <1>4, <2>3
  <2>5. \A x, y \in 1..c[k] : nth[k][x] = nth[k][y] => x = y
    BY <1>1 DEF Bijection, Injection, IsInjective
  <2>6. u[2] = v[2]
    BY <2>1, <2>3, <2>4, <2>5
  <2> QED
    BY <1>4, <2>2, <2>6
<1>8. ASSUME NEW x \in All PROVE \E u \in Units : unit[u] = x
  <2>1. PICK k \in K : x \in F[k]
    OBVIOUS
  <2>2. PICK n \in 1..c[k] : nth[k][n] = x
    BY <1>1, <2>1 DEF Bijection, Surjection
  <2>3. <<k, n>> \in Units
    BY <1>3
  <2>4. unit[<<k, n>>] = nth[k][n]
    BY <2>3
  <2> QED
    BY <2>2, <2>3, <2>4
<1>9. unit \in Bijection(Units, All)
  BY <1>6, <1>7, <1>8 DEF Bijection, Injection, IsInjective, Surjection
<1> HIDE DEF unit, All
<1>10. IsFiniteSet(All) /\ Cardinality(All) = Cardinality(Units)
  BY <1>2, <1>9, FS_Bijection DEF ExistsBijection
<1> QED
  BY <1>10 DEF All, Units, AllOf, TotalOf

Places == 0..Slots - 1

\* How many turns of the clock ago a slot was the current one.
AgeOf(cur, i) == IF i <= cur THEN cur - i ELSE cur + Slots - i

\* The samples of a turn, by the turn each was filed in.
OfTurn(log, turns, n) == {e \in log : turns[e] = n}

\* The samples of a bucket of the histogram.
OfBucket(S, b) == {e \in S : BucketOf(e.ms) = b}

\* A slot counts some samples, each in its bucket.
SlotOf(slot, S) ==
    /\ DOMAIN slot = {"count", "ms", "hist"} /\ slot.count = Cardinality(S)
    /\ DOMAIN slot.hist = BucketIds
    /\ \A b \in BucketIds : slot.hist[b] = Cardinality(OfBucket(S, b))

\* A ring whose current slot is that of a turn: each slot counts the samples of its own.
RingOf(w, turn, log, turns) ==
    /\ w.slots = [i \in Places |-> w.slots[i]]
    /\ w = [slots |-> w.slots, cur |-> w.cur, start |-> w.start]
    /\ w.cur \in Places /\ turn \in Nat /\ w.start = 1 + turn * SlotLen
    /\ IsFiniteSet(log) /\ \A e \in log : turns[e] \in Nat /\ turns[e] <= turn
    /\ \A i \in Places : SlotOf(w.slots[i], OfTurn(log, turns, turn - AgeOf(w.cur, i)))

\* A sample was taken by the end of the turn it was filed in, and filed after its start.
TakenInTime(log, turns) ==
    \A e \in log : /\ e.stamp \in Nat /\ e.filed \in Nat
                   /\ e.stamp < 1 + (turns[e] + 1) * SlotLen
                   /\ 1 + turns[e] * SlotLen <= e.filed

LatencyInv ==
    /\ lwNow \in Nat /\ lwRing.start <= lwNow
    /\ lwStamp = [r \in Recorders |-> lwStamp[r]]
    /\ \A r \in Recorders : lwStamp[r] \in Nat /\ lwStamp[r] <= lwNow
    /\ \A e \in lwLog : e.ms \in Nat
    /\ \E turn, turns : RingOf(lwRing, turn, lwLog, turns) /\ TakenInTime(lwLog, turns)

LEMMA AgeIs ==
    ASSUME NEW cur \in Places
    PROVE  /\ \A i \in Places : AgeOf(cur, i) \in Places
           /\ \A i, k \in Places : AgeOf(cur, i) = AgeOf(cur, k) => i = k
           /\ \A a \in Places : \E i \in Places : AgeOf(cur, i) = a
<1>1. Slots \in Nat /\ Slots > 0
  BY ServiceAssumption
<1>2. ASSUME NEW a \in Places PROVE \E i \in Places : AgeOf(cur, i) = a
  <2>1. CASE a <= cur
    <3>1. cur - a \in Places /\ AgeOf(cur, cur - a) = a
      BY <1>1, <2>1 DEF Places, AgeOf
    <3> QED
      BY <3>1
  <2>2. CASE ~ (a <= cur)
    <3>1. cur + Slots - a \in Places /\ AgeOf(cur, cur + Slots - a) = a
      BY <1>1, <2>2 DEF Places, AgeOf
    <3> QED
      BY <3>1
  <2> QED
    BY <2>1, <2>2
<1> QED
  BY <1>1, <1>2 DEF Places, AgeOf

\* Going round the ring.
LEMMA RoundIs ==
    ASSUME NEW x \in Nat, x < 2 * Slots
    PROVE  x % Slots = IF x < Slots THEN x ELSE x - Slots
<1>1. Slots \in Nat /\ Slots > 0
  BY ServiceAssumption
<1>2. PICK q \in Nat : q = x \div Slots
  BY <1>1
<1>3. PICK r \in 0..Slots - 1 : r = x % Slots
  BY <1>1
<1>4. x = Slots * q + r
  BY <1>1, <1>2, <1>3
<1>5. q = 0 \/ q = 1 \/ Slots * q >= 2 * Slots
  BY <1>1, <1>2
<1>6. q = 0 \/ q = 1
  BY <1>1, <1>3, <1>4, <1>5
<1> QED
  BY <1>1, <1>3, <1>4, <1>6

\* An advance by fewer turns than there are slots: a slot is retired if its new age is
\* less than that, and the others are as much older.
LEMMA AgesMove ==
    ASSUME NEW cur \in Places, NEW n \in Nat, 0 < n, n < Slots, NEW i \in Places
    PROVE  /\ (cur + n) % Slots \in Places
           /\ i \in {(cur + k) % Slots : k \in 1..n} <=> AgeOf((cur + n) % Slots, i) < n
           /\ AgeOf((cur + n) % Slots, i) >= n =>
                 AgeOf((cur + n) % Slots, i) = AgeOf(cur, i) + n
<1>1. Slots \in Nat /\ Slots > 0
  BY ServiceAssumption
<1>2. \A k \in 0..n : (cur + k) % Slots = IF cur + k < Slots THEN cur + k ELSE cur + k - Slots
  <2> SUFFICES ASSUME NEW k \in 0..n
               PROVE  (cur + k) % Slots = IF cur + k < Slots THEN cur + k ELSE cur + k - Slots
    OBVIOUS
  <2>1. PICK x \in Nat : x = cur + k /\ x < 2 * Slots
    BY <1>1 DEF Places
  <2>2. x % Slots = IF x < Slots THEN x ELSE x - Slots
    BY <2>1, RoundIs
  <2>3. (cur + k) % Slots = x % Slots
    BY <2>1, Zenon
  <2>4. (IF x < Slots THEN x ELSE x - Slots) = IF cur + k < Slots THEN cur + k ELSE cur + k - Slots
    BY <1>1, <2>1 DEF Places
  <2> QED
    BY <2>2, <2>3, <2>4, Zenon
<1>3. PICK new \in Places : new = (cur + n) % Slots
                            /\ new = IF cur + n < Slots THEN cur + n ELSE cur + n - Slots
  BY <1>1, <1>2 DEF Places
<1>4. ASSUME NEW k \in 1..n, i = (cur + k) % Slots PROVE AgeOf(new, i) < n
  <2>1. i = IF cur + k < Slots THEN cur + k ELSE cur + k - Slots
    BY <1>2, <1>4
  <2>2. AgeOf(new, i) = n - k
    BY <1>1, <1>3, <2>1 DEF AgeOf, Places
  <2> QED
    BY <2>2
<1>5. ASSUME AgeOf(new, i) < n PROVE \E k \in 1..n : i = (cur + k) % Slots
  <2>1. PICK k : k = n - AgeOf(new, i)
    OBVIOUS
  <2>2. k \in 1..n
    BY <1>1, <1>3, <1>5, <2>1 DEF AgeOf, Places
  <2>3. i = IF cur + k < Slots THEN cur + k ELSE cur + k - Slots
    BY <1>1, <1>3, <1>5, <2>1, <2>2 DEF AgeOf, Places
  <2>4. k \in 0..n /\ (cur + k) % Slots = IF cur + k < Slots THEN cur + k ELSE cur + k - Slots
    BY <1>2, <2>2
  <2>5. i = (cur + k) % Slots
    BY <2>3, <2>4
  <2> QED
    BY <2>2, <2>5
<1>6. AgeOf(new, i) >= n => AgeOf(new, i) = AgeOf(cur, i) + n
  BY <1>1, <1>3 DEF AgeOf, Places
<1> QED
  BY <1>3, <1>4, <1>5, <1>6

LEMMA TurnsIs ==
    /\ SlotLen \in Nat /\ SlotLen > 0
    /\ \A a, b \in Nat : /\ a * SlotLen \in Nat
                         /\ (a + b) * SlotLen = a * SlotLen + b * SlotLen
                         /\ (a + 1) * SlotLen = a * SlotLen + SlotLen
    /\ \A a, b \in Nat : a <= b => a * SlotLen <= b * SlotLen
<1>1. SlotLen \in Nat /\ SlotLen > 0
  BY ServiceAssumption
<1>2. ASSUME NEW a \in Nat, NEW b \in Nat, a <= b PROVE a * SlotLen <= b * SlotLen
  BY <1>1, <1>2
<1>3. \A a, b \in Nat : /\ a * SlotLen \in Nat
                        /\ (a + b) * SlotLen = a * SlotLen + b * SlotLen
                        /\ (a + 1) * SlotLen = a * SlotLen + SlotLen
  BY <1>1
<1> QED
  BY <1>1, <1>2, <1>3

LEMMA EmptyIs == SlotOf(EmptySlot, {})
<1>1. \A b : OfBucket({}, b) = {}
  BY DEF OfBucket
<1>2. Cardinality({}) = 0
  BY FS_EmptySet
<1> QED
  BY <1>1, <1>2 DEF EmptySlot, SlotOf

\* A sample that is filed is counted once, and in its bucket.
LEMMA WithSampleIs ==
    ASSUME NEW slot, NEW S, IsFiniteSet(S), SlotOf(slot, S), NEW e, e \notin S
    PROVE  SlotOf(WithSample(slot, e.ms), S \cup {e})
<1>1. PICK at : at = BucketOf(e.ms)
  OBVIOUS
<1>2. PICK new : new = WithSample(slot, e.ms)
  OBVIOUS
<1>3. /\ DOMAIN new = {"count", "ms", "hist"} /\ new.count = slot.count + 1
      /\ DOMAIN new.hist = BucketIds
      /\ \A b \in BucketIds : new.hist[b] = IF b = at THEN slot.hist[b] + 1 ELSE slot.hist[b]
  BY <1>1, <1>2 DEF WithSample, SlotOf
<1>4. slot.count = Cardinality(S) /\ \A b \in BucketIds : slot.hist[b] = Cardinality(OfBucket(S, b))
  BY DEF SlotOf
<1>5. Cardinality(S \cup {e}) = Cardinality(S) + 1
  BY CountAdd
<1>6. ASSUME NEW b \in BucketIds
      PROVE  new.hist[b] = Cardinality(OfBucket(S \cup {e}, b))
  <2>1. OfBucket(S, b) \subseteq S /\ e \notin OfBucket(S, b)
    BY DEF OfBucket
  <2>2. IsFiniteSet(OfBucket(S, b))
    BY <2>1, FS_Subset
  <2>3. CASE b = at
    <3>1. OfBucket(S \cup {e}, b) = OfBucket(S, b) \cup {e}
      BY <1>1, <2>3 DEF OfBucket
    <3>2. Cardinality(OfBucket(S, b) \cup {e}) = Cardinality(OfBucket(S, b)) + 1
      BY <2>1, <2>2, CountAdd
    <3> QED
      BY <1>3, <1>4, <2>3, <3>1, <3>2
  <2>4. CASE b # at
    <3>1. OfBucket(S \cup {e}, b) = OfBucket(S, b)
      BY <1>1, <2>4 DEF OfBucket
    <3> QED
      BY <1>3, <1>4, <2>4, <3>1
  <2> QED
    BY <2>3, <2>4
<1> QED
  BY <1>2, <1>3, <1>4, <1>5, <1>6 DEF SlotOf

LEMMA PassedIs ==
    ASSUME NEW w, w.start \in Nat, NEW now \in Nat
    PROVE  /\ Passed(w, now) \in Nat
           /\ Passed(w, now) > 0 => w.start + Passed(w, now) * SlotLen <= now
           /\ now < w.start + (Passed(w, now) + 1) * SlotLen
<1>1. SlotLen \in Nat /\ SlotLen > 0
  BY ServiceAssumption
<1>2. CASE now > w.start
  <2>1. PICK gap \in Nat : gap = now - w.start
    BY <1>2
  <2>2. PICK n \in Nat : n = gap \div SlotLen
    BY <1>1
  <2>3. PICK r \in 0..SlotLen - 1 : r = gap % SlotLen
    BY <1>1
  <2>4. gap = SlotLen * n + r
    BY <1>1, <2>2, <2>3
  <2>5. Passed(w, now) = n
    BY <1>2, <2>1, <2>2 DEF Passed
  <2>6. n * SlotLen = SlotLen * n /\ (n + 1) * SlotLen = n * SlotLen + SlotLen
        /\ n * SlotLen \in Nat
    BY <1>1
  <2>7. n * SlotLen <= gap /\ gap < (n + 1) * SlotLen
    BY <1>1, <2>3, <2>4, <2>6
  <2>8. n \in Nat /\ w.start + n * SlotLen <= now /\ now < w.start + (n + 1) * SlotLen
    BY <1>1, <2>1, <2>6, <2>7
  <2> QED
    BY <2>5, <2>8
<1>3. CASE ~ (now > w.start)
  <2>1. Passed(w, now) = 0
    BY <1>3 DEF Passed
  <2>2. (0 + 1) * SlotLen = SlotLen
    BY <1>1
  <2> QED
    BY <1>1, <1>3, <2>1, <2>2
<1> QED
  BY <1>2, <1>3

\* An advance of the ring leaves each sample that it still counts in the slot of its turn.
LEMMA AdvanceInv ==
    ASSUME NEW w, NEW turn, NEW log, NEW turns, RingOf(w, turn, log, turns), NEW now \in Nat
    PROVE  \E t \in Nat : /\ RingOf(Advance(w, now), t, log, turns)
                          /\ turn <= t /\ now < 1 + (t + 1) * SlotLen
                          /\ Advance(w, now).start = w.start \/ Advance(w, now).start <= now
<1>1. /\ Slots \in Nat /\ Slots > 0 /\ turn \in Nat /\ w.cur \in Places
      /\ w.start = 1 + turn * SlotLen /\ w.start \in Nat
  <2>1. Slots \in Nat /\ Slots > 0
    BY ServiceAssumption
  <2>2. turn \in Nat /\ w.cur \in Places /\ w.start = 1 + turn * SlotLen
    BY DEF RingOf
  <2>3. turn * SlotLen \in Nat
    BY <2>2, TurnsIs
  <2> QED
    BY <2>1, <2>2, <2>3
<1> DEFINE n == Passed(w, now)
<1>3. /\ n \in Nat /\ now < w.start + (n + 1) * SlotLen
      /\ n > 0 => w.start + n * SlotLen <= now
  BY <1>1, PassedIs
<1>2. n = 0 => Advance(w, now) = w
  BY DEF Advance
<1>8. n > 0 => Advance(w, now) =
        [slots |-> [i \in 0..(Slots - 1) |->
                       IF n >= Slots \/ i \in {(w.cur + k) % Slots : k \in 1..n} THEN EmptySlot
                       ELSE w.slots[i]],
         cur   |-> IF n >= Slots THEN 0 ELSE (w.cur + n) % Slots,
         start |-> w.start + n * SlotLen]
  <2>1. n > 0 => ~ (n = 0)
    BY <1>3
  <2> QED
    BY <2>1, Zenon DEF Advance, StartOnGrid
<1> HIDE DEF n
<1>4. PICK t \in Nat : t = turn + n
  BY <1>1, <1>3
<1>5. w.start + n * SlotLen = 1 + t * SlotLen /\ now < 1 + (t + 1) * SlotLen /\ turn <= t
  <2>1. /\ (turn + n) * SlotLen = turn * SlotLen + n * SlotLen
        /\ (n + 1) * SlotLen = n * SlotLen + SlotLen
        /\ (t + 1) * SlotLen = t * SlotLen + SlotLen
        /\ turn * SlotLen \in Nat /\ n * SlotLen \in Nat /\ t * SlotLen \in Nat
    BY <1>1, <1>3, TurnsIs
  <2> QED
    BY <1>1, <1>3, <1>4, <2>1, TurnsIs
<1> DEFINE new == Advance(w, now)
           retired == {(w.cur + k) % Slots : k \in 1..n}
<1>6. CASE n = 0
  <2>1. new = w
    BY <1>2, <1>6
  <2>2. t = turn
    BY <1>1, <1>4, <1>6
  <2> QED
    BY <1>4, <1>5, <2>1, <2>2
<1>7. CASE n > 0
  <2>1. new = [slots |-> [i \in Places |->
                             IF n >= Slots \/ i \in retired THEN EmptySlot ELSE w.slots[i]],
               cur   |-> IF n >= Slots THEN 0 ELSE (w.cur + n) % Slots,
               start |-> 1 + t * SlotLen]
    BY <1>5, <1>7, <1>8 DEF Places
  <2> HIDE DEF new
  <2>2. /\ new = [slots |-> new.slots, cur |-> new.cur, start |-> new.start]
        /\ new.slots = [i \in Places |-> new.slots[i]] /\ new.start = 1 + t * SlotLen
        /\ new.start <= now
    BY <1>3, <1>5, <1>7, <2>1
  <2>3. ASSUME NEW m, m \in Int, m > turn
        PROVE  OfTurn(log, turns, m) = {}
    BY <1>1, <2>3 DEF RingOf, OfTurn
  <2>4. /\ new.cur \in Places
        /\ \A i \in Places : SlotOf(new.slots[i], OfTurn(log, turns, t - AgeOf(new.cur, i)))
    <3>1. CASE n >= Slots
      <4>1. new.cur = 0 /\ 0 \in Places /\ \A i \in Places : new.slots[i] = EmptySlot
        BY <1>1, <2>1, <3>1 DEF Places
      <4>2. ASSUME NEW i \in Places
            PROVE  OfTurn(log, turns, t - AgeOf(new.cur, i)) = {}
        <5>1. PICK m : m = t - AgeOf(new.cur, i)
          OBVIOUS
        <5>2. m \in Int /\ m > turn
          BY <1>1, <1>3, <1>4, <3>1, <4>1, <5>1 DEF AgeOf, Places
        <5> QED
          BY <2>3, <5>1, <5>2
      <4> QED
        BY <4>1, <4>2, EmptyIs
    <3>2. CASE n < Slots
      <4>1. new.cur = (w.cur + n) % Slots
            /\ \A i \in Places : new.slots[i] = IF i \in retired THEN EmptySlot ELSE w.slots[i]
        BY <1>1, <1>3, <2>1, <3>2
      <4> SUFFICES ASSUME NEW i \in Places
                   PROVE  /\ new.cur \in Places
                          /\ SlotOf(new.slots[i], OfTurn(log, turns, t - AgeOf(new.cur, i)))
        BY <1>1 DEF Places
      <4>2. /\ new.cur \in Places
            /\ i \in retired <=> AgeOf(new.cur, i) < n
            /\ AgeOf(new.cur, i) >= n => AgeOf(new.cur, i) = AgeOf(w.cur, i) + n
        <5>1. n \in Nat /\ 0 < n /\ n < Slots /\ w.cur \in Places
          BY <1>1, <1>3, <1>7, <3>2
        <5>2. /\ (w.cur + n) % Slots \in Places
              /\ i \in retired <=> AgeOf((w.cur + n) % Slots, i) < n
              /\ AgeOf((w.cur + n) % Slots, i) >= n =>
                    AgeOf((w.cur + n) % Slots, i) = AgeOf(w.cur, i) + n
          BY <5>1, AgesMove
        <5> QED
          BY <4>1, <5>2, Zenon
      <4>3. PICK age \in Places : age = AgeOf(new.cur, i)
        BY <4>2, AgeIs
      <4>4. PICK old \in Places : old = AgeOf(w.cur, i)
        BY <1>1, AgeIs
      <4>5. CASE age < n
        <5>1. new.slots[i] = EmptySlot
          BY <4>1, <4>2, <4>3, <4>5
        <5>2. PICK m : m = t - age
          OBVIOUS
        <5>3. m \in Int /\ m > turn
          BY <1>1, <1>3, <1>4, <4>3, <4>5, <5>2 DEF Places
        <5>4. OfTurn(log, turns, m) = {}
          BY <2>3, <5>3
        <5> QED
          BY <4>2, <4>3, <5>1, <5>2, <5>4, EmptyIs
      <4>6. CASE age >= n
        <5>1. new.slots[i] = w.slots[i]
          BY <1>1, <1>3, <4>1, <4>2, <4>3, <4>6 DEF Places
        <5>2. t - age = turn - old
          BY <1>1, <1>3, <1>4, <4>2, <4>3, <4>4, <4>6 DEF Places
        <5>3. SlotOf(w.slots[i], OfTurn(log, turns, turn - old))
          BY <4>4 DEF RingOf
        <5> QED
          BY <4>2, <4>3, <5>1, <5>2, <5>3
      <4> QED
        BY <1>3, <4>3, <4>5, <4>6 DEF Places
    <3> QED
      BY <1>1, <1>3, <3>1, <3>2
  <2>5. \A e \in log : turns[e] \in Nat /\ turns[e] <= t
    BY <1>1, <1>3, <1>4 DEF RingOf
  <2>6. RingOf(new, t, log, turns)
    BY <2>2, <2>4, <2>5 DEF RingOf
  <2> QED
    BY <1>5, <2>2, <2>6 DEF new
<1> QED
  BY <1>3, <1>6, <1>7

LEMMA LwRecordInv ==
    ASSUME LatencyInv, NEW r \in Recorders, NEW ms \in Durations, LwRecord(r, ms)
    PROVE  LatencyInv'
<1>1. PICK turn, turns : RingOf(lwRing, turn, lwLog, turns) /\ TakenInTime(lwLog, turns)
  BY DEF LatencyInv
<1>2. PICK stamp \in Nat : stamp = lwStamp[r]
  BY DEF LatencyInv
<1>3. PICK w : w = Advance(lwRing, stamp)
  OBVIOUS
<1>4. PICK t \in Nat : /\ RingOf(w, t, lwLog, turns) /\ stamp < 1 + (t + 1) * SlotLen
                       /\ w.start = lwRing.start \/ w.start <= stamp
  BY <1>1, <1>3, AdvanceInv
<1>5. PICK e : e = [by |-> r, stamp |-> stamp, filed |-> lwNow, ms |-> ms]
  OBVIOUS
<1>6. /\ lwRing' = [w EXCEPT !.slots[w.cur] = WithSample(w.slots[w.cur], ms)]
      /\ lwLog' = lwLog \cup {e} /\ e \notin lwLog /\ UNCHANGED <<lwNow, lwStamp>>
  BY <1>2, <1>3, <1>5 DEF LwRecord
<1>7. lwNow \in Nat /\ w.start <= lwNow
  <2>1. w.start \in Nat
    BY <1>4, TurnsIs DEF RingOf
  <2> QED
    BY <1>2, <1>4, <2>1 DEF LatencyInv
<1> PICK with : with = [x \in lwLog \cup {e} |-> IF x = e THEN t ELSE turns[x]]
  OBVIOUS
<1>8. with[e] = t /\ \A x \in lwLog : with[x] = turns[x]
  BY <1>6
<1>9. /\ w.slots = [i \in Places |-> w.slots[i]]
      /\ w = [slots |-> w.slots, cur |-> w.cur, start |-> w.start]
      /\ w.cur \in Places /\ w.start = 1 + t * SlotLen
      /\ IsFiniteSet(lwLog) /\ \A x \in lwLog : turns[x] \in Nat /\ turns[x] <= t
      /\ \A i \in Places : SlotOf(w.slots[i], OfTurn(lwLog, turns, t - AgeOf(w.cur, i)))
  BY <1>4 DEF RingOf
<1>10. PICK slot : slot = WithSample(w.slots[w.cur], ms)
  OBVIOUS
<1>11. e.ms = ms /\ slot = WithSample(w.slots[w.cur], e.ms)
  BY <1>5, <1>10
<1>12. /\ lwRing' = [slots |-> lwRing'.slots, cur |-> lwRing'.cur, start |-> lwRing'.start]
       /\ lwRing'.slots = [i \in Places |-> lwRing'.slots[i]]
       /\ lwRing'.cur = w.cur /\ lwRing'.start = w.start
       /\ \A i \in Places : lwRing'.slots[i] = IF i = w.cur THEN slot ELSE w.slots[i]
  BY <1>6, <1>9, <1>10
<1>13. ASSUME NEW i \in Places
       PROVE  SlotOf(lwRing'.slots[i], OfTurn(lwLog \cup {e}, with, t - AgeOf(w.cur, i)))
  <2>1. CASE i = w.cur
    <3>1. AgeOf(w.cur, i) = 0 /\ t - 0 = t
      BY <1>9, <2>1, ServiceAssumption DEF AgeOf, Places
    <3>2. OfTurn(lwLog \cup {e}, with, t) = OfTurn(lwLog, turns, t) \cup {e}
          /\ e \notin OfTurn(lwLog, turns, t)
      BY <1>6, <1>8 DEF OfTurn
    <3>3. IsFiniteSet(OfTurn(lwLog, turns, t))
      BY <1>9, FS_Subset DEF OfTurn
    <3>4. SlotOf(w.slots[w.cur], OfTurn(lwLog, turns, t))
      BY <1>9, <2>1, <3>1
    <3>5. SlotOf(slot, OfTurn(lwLog, turns, t) \cup {e})
      BY <1>11, <3>2, <3>3, <3>4, WithSampleIs
    <3> QED
      BY <1>12, <2>1, <3>1, <3>2, <3>5
  <2>2. CASE i # w.cur
    <3>1. PICK n : n = t - AgeOf(w.cur, i)
      OBVIOUS
    <3>2. n # t
      <4>1. PICK cur \in Places : cur = w.cur
        BY <1>9
      <4>2. cur \in Int /\ i \in Int /\ i # cur /\ i < cur + Slots /\ cur \in Nat /\ Slots \in Nat
        BY <2>2, <4>1, ServiceAssumption DEF Places
      <4>3. AgeOf(cur, i) \in Int /\ AgeOf(cur, i) # 0
        BY <4>2 DEF AgeOf
      <4>4. PICK age \in Int : age = AgeOf(cur, i) /\ age # 0
        BY <4>3
      <4> QED
        BY <3>1, <4>1, <4>4
    <3>3. OfTurn(lwLog \cup {e}, with, n) = OfTurn(lwLog, turns, n)
      BY <1>8, <3>2 DEF OfTurn
    <3> QED
      BY <1>9, <1>12, <2>2, <3>1, <3>3
  <2> QED
    BY <2>1, <2>2
<1>14. RingOf(lwRing, t, lwLog, with)'
  <2>1. IsFiniteSet(lwLog \cup {e})
    BY <1>6, <1>9, CountAdd
  <2>2. \A x \in lwLog \cup {e} : with[x] \in Nat /\ with[x] <= t
    BY <1>8, <1>9
  <2>3. PICK ring, log : ring = lwRing' /\ log = lwLog'
    OBVIOUS
  <2>4. RingOf(ring, t, log, with)
    <3>1. /\ ring.slots = [i \in Places |-> ring.slots[i]]
          /\ ring = [slots |-> ring.slots, cur |-> ring.cur, start |-> ring.start]
          /\ ring.cur \in Places /\ t \in Nat /\ ring.start = 1 + t * SlotLen
      BY <1>9, <1>12, <2>3
    <3>2. log = lwLog \cup {e} /\ ring.cur = w.cur
      BY <1>6, <1>12, <2>3
    <3>3. \A i \in Places : SlotOf(ring.slots[i], OfTurn(log, with, t - AgeOf(ring.cur, i)))
      BY <1>13, <2>3, <3>2
    <3> QED
      BY <2>1, <2>2, <3>1, <3>2, <3>3 DEF RingOf
  <2> QED
    BY <2>3, <2>4
<1>15. TakenInTime(lwLog, with)'
  <2>1. e.stamp = stamp /\ e.filed = lwNow
    BY <1>5
  <2> QED
    BY <1>1, <1>4, <1>6, <1>7, <1>8, <1>9, <2>1 DEF TakenInTime
<1>16. lwRing'.start <= lwNow' /\ \A x \in lwLog' : x.ms \in Nat
  BY <1>6, <1>7, <1>11, <1>12, ServiceAssumption DEF LatencyInv
<1> QED
  BY <1>6, <1>14, <1>15, <1>16 DEF LatencyInv

LEMMA LwReadInv == LatencyInv /\ LwRead => LatencyInv'
<1> SUFFICES ASSUME LatencyInv, LwRead PROVE LatencyInv'
  OBVIOUS
<1>1. PICK turn, turns : RingOf(lwRing, turn, lwLog, turns) /\ TakenInTime(lwLog, turns)
  BY DEF LatencyInv
<1>2. lwRing' = Advance(lwRing, lwNow) /\ UNCHANGED <<lwNow, lwStamp, lwLog>> /\ lwNow \in Nat
  BY DEF LwRead, LatencyInv
<1>3. PICK t \in Nat : RingOf(lwRing', t, lwLog, turns)
                       /\ (lwRing'.start = lwRing.start \/ lwRing'.start <= lwNow)
  BY <1>1, <1>2, AdvanceInv
<1>4. RingOf(lwRing, t, lwLog, turns)'
  BY <1>2, <1>3
<1>5. TakenInTime(lwLog, turns)'
  BY <1>1, <1>2
<1> QED
  BY <1>2, <1>3, <1>4, <1>5 DEF LatencyInv

LEMMA ClockInv ==
    ASSUME LatencyInv, UNCHANGED <<lwRing, lwLog>>,
           \/ LwTick
           \/ \E r \in Recorders : LwStamp(r)
           \/ UNCHANGED <<lwNow, lwStamp>>
    PROVE  LatencyInv'
<1>1. PICK turn, turns : RingOf(lwRing, turn, lwLog, turns) /\ TakenInTime(lwLog, turns)
  BY DEF LatencyInv
<1>2. RingOf(lwRing, turn, lwLog, turns)' /\ TakenInTime(lwLog, turns)'
  BY <1>1
<1>3. lwRing.start \in Nat
  BY <1>1, TurnsIs DEF RingOf
<1>4. CASE LwTick
  <2>1. lwNow' = lwNow + 1 /\ UNCHANGED lwStamp
    BY <1>4 DEF LwTick
  <2>2. /\ lwNow' \in Nat /\ lwRing'.start <= lwNow'
        /\ \A r \in Recorders : lwStamp'[r] \in Nat /\ lwStamp'[r] <= lwNow'
    BY <1>3, <2>1 DEF LatencyInv
  <2> QED
    BY <1>2, <2>1, <2>2 DEF LatencyInv
<1>5. CASE \E r \in Recorders : LwStamp(r)
  <2>1. PICK r \in Recorders : lwStamp' = [lwStamp EXCEPT ![r] = lwNow] /\ lwNow' = lwNow
    BY <1>5 DEF LwStamp
  <2> QED
    BY <1>2, <2>1 DEF LatencyInv
<1>6. CASE UNCHANGED <<lwNow, lwStamp>>
  BY <1>2, <1>6 DEF LatencyInv
<1> QED
  BY <1>4, <1>5, <1>6

LEMMA LatencyStart == ServiceInit => LatencyInv
<1> SUFFICES ASSUME ServiceInit PROVE LatencyInv
  OBVIOUS
<1>1. /\ lwNow = 1 /\ lwLog = {} /\ lwStamp = [r \in Recorders |-> 0]
      /\ lwRing = [slots |-> [i \in Places |-> EmptySlot], cur |-> 0, start |-> 1]
  BY DEF ServiceInit, Places
<1>2. \A i \in Places : OfTurn({}, <<>>, 0 - AgeOf(0, i)) = {}
  BY DEF OfTurn
<1>3. 0 \in Places /\ 0 * SlotLen = 0 /\ Cardinality({}) = 0 /\ IsFiniteSet({})
  BY ServiceAssumption, FS_EmptySet DEF Places
<1>4. RingOf(lwRing, 0, lwLog, <<>>)
  <2>1. /\ lwRing.slots = [i \in Places |-> EmptySlot] /\ lwRing.cur = 0
        /\ lwRing.start = 1 + 0 * SlotLen
        /\ lwRing = [slots |-> lwRing.slots, cur |-> lwRing.cur, start |-> lwRing.start]
    BY <1>1, <1>3
  <2>2. ASSUME NEW i \in Places
        PROVE  SlotOf(lwRing.slots[i], OfTurn(lwLog, <<>>, 0 - AgeOf(lwRing.cur, i)))
    BY <1>1, <1>2, <1>3, <2>1, EmptyIs
  <2>3. lwRing.slots = [i \in Places |-> lwRing.slots[i]]
    BY <2>1
  <2> QED
    BY <1>1, <1>3, <2>1, <2>2, <2>3 DEF RingOf
<1>5. TakenInTime(lwLog, <<>>)
  BY <1>1 DEF TakenInTime
<1>6. lwNow \in Nat /\ lwRing.start <= lwNow
      /\ \A r \in Recorders : lwStamp[r] \in Nat /\ lwStamp[r] <= lwNow
  BY <1>1
<1> QED
  BY <1>1, <1>4, <1>5, <1>6 DEF LatencyInv

LEMMA LatencyStep == LatencyInv /\ [ServiceNext]_serviceVars => LatencyInv'
<1> SUFFICES ASSUME LatencyInv, [ServiceNext]_serviceVars PROVE LatencyInv'
  OBVIOUS
<1>1. CASE UNCHANGED lwVars
  BY <1>1, ClockInv DEF lwVars
<1>2. CASE LwTick \/ \E r \in Recorders : LwStamp(r)
  <2>1. UNCHANGED <<lwRing, lwLog>>
    BY <1>2 DEF LwTick, LwStamp
  <2> QED
    BY <1>2, <2>1, ClockInv
<1>3. CASE UNCHANGED serviceVars
  BY <1>1, <1>3 DEF serviceVars, lwVars
<1> QED
  BY <1>1, <1>2, <1>3, LwReadInv, LwRecordInv DEF ServiceNext, LatencyNext

\* Whoever records and reads, and whenever: a slot counts the samples of its own turn.
THEOREM LatencyInvariant == ServiceSpec => []LatencyInv
BY LatencyStart, LatencyStep, PTL DEF ServiceSpec

\* What a ring still holds of some samples.
HeldOf(S, turns, t) == {e \in S : t < turns[e] + Slots}

\* What the slots count of some of the samples, each of its own turn, is what is held.
LEMMA HeldAre ==
    ASSUME NEW w, NEW t, NEW log, NEW turns, RingOf(w, t, log, turns),
           NEW S \in SUBSET log, NEW c,
           \A i \in Places : c[i] = Cardinality(OfTurn(S, turns, t - AgeOf(w.cur, i)))
    PROVE  TotalOf(c, Places) = Cardinality(HeldOf(S, turns, t))
<1> DEFINE F == [i \in Places |-> OfTurn(S, turns, t - AgeOf(w.cur, i))]
           Held == {e \in S : t < turns[e] + Slots}
<1>1. /\ Slots \in Nat /\ Slots > 0 /\ t \in Nat /\ w.cur \in Places
      /\ IsFiniteSet(log) /\ \A e \in log : turns[e] \in Nat /\ turns[e] <= t
      /\ \A i \in Places : c[i] = Cardinality(F[i])
  BY ServiceAssumption DEF RingOf
<1>2. IsFiniteSet(Places)
  BY <1>1, FS_Interval DEF Places
<1>3. \A i \in Places : IsFiniteSet(F[i]) /\ c[i] \in Nat /\ c[i] = Cardinality(F[i])
  <2> SUFFICES ASSUME NEW i \in Places
               PROVE  IsFiniteSet(F[i]) /\ c[i] \in Nat /\ c[i] = Cardinality(F[i])
    OBVIOUS
  <2>1. F[i] \subseteq log
    BY DEF OfTurn
  <2>2. IsFiniteSet(F[i])
    BY <1>1, <2>1, FS_Subset
  <2> QED
    BY <1>1, <2>2, FS_CardinalityType
<1>4. \A i \in Places : AgeOf(w.cur, i) \in Places
  BY <1>1, AgeIs
<1>5. ASSUME NEW i \in Places, NEW k \in Places, NEW x, x \in F[i], x \in F[k] PROVE i = k
  <2>1. t - AgeOf(w.cur, i) = t - AgeOf(w.cur, k)
    BY <1>5 DEF OfTurn
  <2>2. AgeOf(w.cur, i) = AgeOf(w.cur, k)
    BY <1>1, <1>4, <2>1 DEF Places
  <2> QED
    BY <1>1, <2>2, AgeIs
<1>6. AllOf(Places, F) = Held
  <2>1. ASSUME NEW i \in Places, NEW e \in F[i] PROVE e \in Held
    <3>1. e \in S /\ turns[e] = t - AgeOf(w.cur, i)
      BY <2>1 DEF OfTurn
    <3>2. PICK a \in Places : a = AgeOf(w.cur, i)
      BY <1>4
    <3>3. turns[e] = t - a /\ turns[e] \in Nat /\ t \in Nat /\ Slots \in Nat
      BY <1>1, <3>1, <3>2
    <3>4. t < turns[e] + Slots
      BY <3>3 DEF Places
    <3> QED
      BY <3>1, <3>4
  <2>2. ASSUME NEW e \in Held PROVE \E i \in Places : e \in F[i]
    <3>1. PICK a \in Places : a = t - turns[e]
      BY <1>1, <2>2 DEF Places
    <3>2. PICK i \in Places : AgeOf(w.cur, i) = a
      <4>1. w.cur \in Places
        BY <1>1
      <4> HIDE DEF F, Held
      <4> QED
        BY <4>1, AgeIs
    <3>3. turns[e] = t - AgeOf(w.cur, i)
      BY <1>1, <2>2, <3>1, <3>2 DEF Places
    <3> QED
      BY <2>2, <3>3 DEF OfTurn
  <2> QED
    BY <2>1, <2>2 DEF AllOf
<1> HIDE DEF F, Held
<1>7. TotalOf(c, Places) = Cardinality(AllOf(Places, F))
  <2>1. \A i, k \in Places : \A x : x \in F[i] /\ x \in F[k] => i = k
    BY <1>5
  <2> QED
    BY <1>2, <1>3, <2>1, SumOfSizes
<1> QED
  BY <1>6, <1>7 DEF HeldOf, Held

LEMMA SamplesAre ==
    ASSUME NEW w, NEW t, NEW log, NEW turns, RingOf(w, t, log, turns)
    PROVE  /\ SamplesOf(w.slots) = Cardinality(HeldOf(log, turns, t))
           /\ DOMAIN HistOf(w.slots) = BucketIds
           /\ \A b \in BucketIds : HistOf(w.slots)[b]
                                     = Cardinality(OfBucket(HeldOf(log, turns, t), b))
<1>1. DOMAIN w.slots = Places
      /\ \A i \in Places : SlotOf(w.slots[i], OfTurn(log, turns, t - AgeOf(w.cur, i)))
  BY DEF RingOf
<1>2. SamplesOf(w.slots) = Cardinality(HeldOf(log, turns, t))
  <2>1. PICK c : c = [i \in Places |-> w.slots[i].count]
    OBVIOUS
  <2>2. \A i \in Places : c[i] = Cardinality(OfTurn(log, turns, t - AgeOf(w.cur, i)))
    BY <1>1, <2>1 DEF SlotOf
  <2>3. TotalOf(c, Places) = Cardinality(HeldOf(log, turns, t))
    BY <2>2, HeldAre
  <2> QED
    BY <1>1, <2>1, <2>3 DEF SamplesOf
<1>3. ASSUME NEW b \in BucketIds
      PROVE  HistOf(w.slots)[b] = Cardinality(OfBucket(HeldOf(log, turns, t), b))
  <2>1. PICK c : c = [i \in Places |-> w.slots[i].hist[b]]
    OBVIOUS
  <2>2. PICK S \in SUBSET log : S = OfBucket(log, b)
    BY DEF OfBucket
  <2>3. \A n : OfBucket(OfTurn(log, turns, n), b) = OfTurn(S, turns, n)
    BY <2>2 DEF OfBucket, OfTurn
  <2>4. \A i \in Places : c[i] = Cardinality(OfTurn(S, turns, t - AgeOf(w.cur, i)))
    BY <1>1, <2>1, <2>3 DEF SlotOf
  <2>5. TotalOf(c, Places) = Cardinality(HeldOf(S, turns, t))
    BY <2>4, HeldAre
  <2>6. HeldOf(S, turns, t) = OfBucket(HeldOf(log, turns, t), b)
    BY <2>2 DEF HeldOf, OfBucket
  <2> QED
    BY <1>1, <2>1, <2>5, <2>6 DEF HistOf
<1> QED
  BY <1>2, <1>3 DEF HistOf

\* The window forgets on the clock: whoever records beside whom, and however late, a read
\* counts every sample taken within all but the last slot of the window, and none that
\* was filed a window ago (record_at, advance and summary_at of latency.rs).
THEOREM WindowForgets == ServiceSpec => []WindowForgetsOnTheClock
<1>1. LatencyInv => WindowForgetsOnTheClock
  <2> SUFFICES ASSUME LatencyInv PROVE WindowForgetsOnTheClock
    OBVIOUS
  <2> DEFINE young == {e \in lwLog : lwNow - e.stamp <= WindowLength - SlotLen}
             live == {e \in lwLog : lwNow - e.filed < WindowLength}
  <2>1. PICK turn, turns : RingOf(lwRing, turn, lwLog, turns) /\ TakenInTime(lwLog, turns)
    BY DEF LatencyInv
  <2>2. PICK w : w = Advance(lwRing, lwNow)
    OBVIOUS
  <2>3. PICK t \in Nat : /\ RingOf(w, t, lwLog, turns) /\ lwNow < 1 + (t + 1) * SlotLen
                         /\ w.start = lwRing.start \/ w.start <= lwNow
    BY <2>1, <2>2, AdvanceInv DEF LatencyInv
  <2>4. lwNow \in Nat /\ 1 + t * SlotLen <= lwNow /\ IsFiniteSet(lwLog)
        /\ \A e \in lwLog : turns[e] \in Nat /\ turns[e] <= t
    BY <2>3 DEF RingOf, LatencyInv
  <2> DEFINE held == {e \in lwLog : t < turns[e] + Slots}
  <2>5. Summary(lwNow).samples = Cardinality(held)
    <3>1. Summary(lwNow).samples = SamplesOf(w.slots)
      BY <2>2 DEF Summary
    <3> QED
      BY <2>3, <3>1, SamplesAre DEF HeldOf
  <2>6. Slots \in Nat /\ WindowLength = Slots * SlotLen /\ WindowLength \in Nat
    BY ServiceAssumption DEF WindowLength
  <2>7. (t + 1) * SlotLen = t * SlotLen + SlotLen /\ t * SlotLen \in Nat
    BY TurnsIs
  <2>8. ASSUME NEW e \in lwLog
        PROVE  /\ e.stamp \in Nat /\ e.filed \in Nat
               /\ e.stamp < 1 + turns[e] * SlotLen + SlotLen /\ turns[e] * SlotLen \in Nat
               /\ 1 + turns[e] * SlotLen <= e.filed
               /\ (turns[e] + Slots) * SlotLen = turns[e] * SlotLen + WindowLength
               /\ turns[e] + Slots \in Nat
    <3>1. (turns[e] + 1) * SlotLen = turns[e] * SlotLen + SlotLen
      BY <2>4, TurnsIs
    <3>2. turns[e] + Slots \in Nat
      BY <2>4, <2>6
    <3>3. /\ e.stamp \in Nat /\ e.filed \in Nat
          /\ e.stamp < 1 + (turns[e] + 1) * SlotLen /\ 1 + turns[e] * SlotLen <= e.filed
      BY <2>1 DEF TakenInTime
    <3>4. turns[e] * SlotLen \in Nat /\ SlotLen \in Nat
      BY <2>4, TurnsIs
    <3>5. (turns[e] + Slots) * SlotLen = turns[e] * SlotLen + WindowLength
      BY <2>4, <2>6, TurnsIs
    <3>6. e.stamp < 1 + turns[e] * SlotLen + SlotLen
      BY <3>1, <3>3, <3>4
    <3> QED
      BY <3>2, <3>3, <3>4, <3>5, <3>6
  <2>9. ASSUME NEW e \in young PROVE e \in held
    <3>1. turns[e] + Slots <= t => turns[e] * SlotLen + WindowLength <= t * SlotLen
      BY <2>4, <2>8, TurnsIs
    <3>2. lwNow - e.stamp <= WindowLength - SlotLen
      BY <2>9
    <3>3. ~ (turns[e] + Slots <= t)
      BY <2>4, <2>6, <2>7, <2>8, <3>1, <3>2, TurnsIs
    <3> QED
      BY <2>4, <2>8, <3>3
  <2>10. ASSUME NEW e \in held PROVE e \in live
    <3>1. t + 1 \in Nat /\ t + 1 <= turns[e] + Slots
      BY <2>8
    <3>2. (t + 1) * SlotLen <= turns[e] * SlotLen + WindowLength
      BY <2>8, <3>1, TurnsIs
    <3>3. lwNow - e.filed < WindowLength
      BY <2>3, <2>4, <2>6, <2>7, <2>8, <3>2, TurnsIs
    <3> QED
      BY <3>3
  <2> HIDE DEF young, live, held
  <2>11. young \subseteq held /\ held \subseteq live
    BY <2>9, <2>10
  <2>12. held \subseteq lwLog /\ live \subseteq lwLog
    BY DEF held, live
  <2>13. IsFiniteSet(held) /\ IsFiniteSet(live)
    BY <2>4, <2>12, FS_Subset
  <2>14. Cardinality(young) <= Cardinality(held) /\ Cardinality(held) <= Cardinality(live)
    BY <2>11, <2>13, FS_Subset
  <2> QED
    BY <2>5, <2>14 DEF WindowForgetsOnTheClock, young, live
<1> QED
  BY <1>1, LatencyInvariant, PTL

----------------------------------------------------------------------------
(* The latency window: the percentile                                      *)

\* The least of some numbers.
LEMMA LeastOf ==
    ASSUME NEW S \in SUBSET Nat, S # {}
    PROVE  \E x \in S : \A y \in S : x <= y
<1> DEFINE Less == OpToRel(<, Nat)
<1>1. IsWellFoundedOn(Less, Nat)
  BY Zenon, NatLessThanWellFounded
<1>2. \A x, y \in Nat : x < y => <<x, y>> \in Less
  BY Zenon DEF OpToRel
<1> HIDE DEF Less
<1>3. PICK x \in S : \A y \in S : ~ (<<y, x>> \in Less)
  BY <1>1, WFMin
<1>4. ASSUME NEW y \in S PROVE x <= y
  <2>1. x \in Nat /\ y \in Nat
    OBVIOUS
  <2>2. ~ (y < x)
    BY <1>2, <1>3, <2>1
  <2> QED
    BY <2>1, <2>2
<1> QED
  BY <1>4

\* The bounds of the buckets.
Bounds == [i \in 0..Buckets |-> 2^i]

LEMMA BoundsAre ==
    /\ Buckets \in Nat /\ Buckets > 0
    /\ \A i \in 0..Buckets : Bounds[i] \in Nat /\ Bounds[i] = 2^i
    /\ Bounds[0] = 1
    /\ \A i \in BucketIds : Bounds[i + 1] = 2 * Bounds[i] /\ Bounds[i] > 0
    /\ \A i \in BucketIds : Bounds[i] = 2^i /\ Bounds[i + 1] = 2^(i + 1)
<1>1. Buckets \in Nat /\ Buckets > 0
  BY ServiceAssumption
<1>2. \A i \in 0..Buckets : Bounds[i] = 2^i
  BY DEF Bounds
<1>3. ASSUME NEW i \in 0..Buckets PROVE 2^i \in Nat \ {0} /\ 2^(i + 1) = 2 * 2^i
  BY DoublingAssumption
<1>4. \A i \in BucketIds : i \in 0..Buckets /\ i + 1 \in 0..Buckets
  BY <1>1 DEF BucketIds
<1>5. 0 \in 0..Buckets /\ 2^0 = 1
  BY <1>1, DoublingAssumption
<1>6. \A i \in 0..Buckets : Bounds[i] \in Nat /\ Bounds[i] # 0
  BY <1>2, <1>3
<1>7. Bounds[0] = 1
  BY <1>2, <1>5
<1>8. ASSUME NEW i \in BucketIds
      PROVE  Bounds[i + 1] = 2 * Bounds[i] /\ Bounds[i] = 2^i /\ Bounds[i + 1] = 2^(i + 1)
  BY <1>2, <1>3, <1>4
<1>9. ASSUME NEW i \in BucketIds PROVE Bounds[i] > 0
  BY <1>4, <1>6
<1> QED
  BY <1>1, <1>2, <1>6, <1>7, <1>8, <1>9

LEMMA BoundsGrow ==
    ASSUME NEW a \in 0..Buckets, NEW b \in 0..Buckets, a <= b
    PROVE  Bounds[a] <= Bounds[b]
<1> DEFINE S == {c \in Nat : a <= c /\ c <= Buckets /\ Bounds[c] < Bounds[a]}
<1>1. Buckets \in Nat
  BY BoundsAre
<1> SUFFICES ASSUME ~ (Bounds[a] <= Bounds[b]) PROVE FALSE
  OBVIOUS
<1>2. b \in S
  BY <1>1, BoundsAre
<1>3. PICK c \in S : \A d \in S : c <= d
  BY <1>2, LeastOf
<1>4. c \in 0..Buckets /\ c # a /\ c - 1 \in 0..Buckets /\ a <= c - 1 /\ c - 1 \in BucketIds
  BY <1>1, <1>3, BoundsAre DEF BucketIds
<1>5. c - 1 \notin S
  BY <1>1, <1>3, <1>4
<1>6. Bounds[c - 1] >= Bounds[a]
  BY <1>1, <1>4, <1>5, BoundsAre
<1>7. Bounds[(c - 1) + 1] = 2 * Bounds[c - 1]
  BY <1>4, BoundsAre
<1>8. (c - 1) + 1 = c /\ Bounds[c - 1] \in Nat /\ Bounds[c] \in Nat /\ Bounds[a] \in Nat
  BY <1>1, <1>4, BoundsAre
<1>9. Bounds[c] < Bounds[a]
  BY <1>3
<1> QED
  BY <1>6, <1>7, <1>8, <1>9

\* Where a duration belongs.
InBucket(ms, i) ==
    /\ i \in BucketIds
    /\ i = 0 \/ ms >= Bounds[i]
    /\ i = Buckets - 1 \/ ms < Bounds[i + 1]

LEMMA BucketIsOne ==
    ASSUME NEW m \in Nat, NEW n \in Nat, m <= n, NEW i, NEW j, InBucket(m, i), InBucket(n, j)
    PROVE  i <= j
<1>1. /\ i \in BucketIds /\ j \in BucketIds /\ Buckets \in Nat
      /\ i = 0 \/ m >= Bounds[i]
      /\ j = Buckets - 1 \/ n < Bounds[j + 1]
  BY BoundsAre DEF InBucket
<1> SUFFICES ASSUME j < i PROVE FALSE
  BY <1>1 DEF BucketIds
<1>2. i \in 0..Buckets /\ j + 1 \in 0..Buckets /\ j + 1 <= i
  BY <1>1 DEF BucketIds
<1>3. Bounds[j + 1] <= Bounds[i] /\ Bounds[j + 1] \in Nat /\ Bounds[i] \in Nat
  BY <1>2, BoundsGrow, BoundsAre
<1>4. i # 0 /\ j # Buckets - 1
  BY <1>1 DEF BucketIds
<1> QED
  BY <1>1, <1>3, <1>4

LEMMA BucketIs ==
    ASSUME NEW ms \in Nat
    PROVE  InBucket(ms, BucketOf(ms))
<1> DEFINE S == {i \in Nat : i \in BucketIds /\ (i = Buckets - 1 \/ ms < Bounds[i + 1])}
<1>1. Buckets \in Nat /\ Buckets > 0
  BY BoundsAre
<1>2. Buckets - 1 \in S
  BY <1>1 DEF BucketIds
<1>3. PICK i \in S : \A k \in S : i <= k
  BY <1>2, LeastOf
<1>4. i \in BucketIds /\ (i = Buckets - 1 \/ ms < Bounds[i + 1])
  OBVIOUS
<1>5. i = 0 \/ ms >= Bounds[i]
  <2> SUFFICES ASSUME i # 0 PROVE ms >= Bounds[i]
    OBVIOUS
  <2>1. i - 1 \notin S /\ i - 1 \in BucketIds /\ i - 1 # Buckets - 1 /\ (i - 1) + 1 = i
    BY <1>1, <1>3 DEF BucketIds
  <2>2. i - 1 \in Nat
    BY <1>3
  <2>3. ~ (ms < Bounds[i])
    BY <2>1, <2>2
  <2>4. Bounds[i] \in Nat
    BY <1>1, <1>3, BoundsAre DEF BucketIds
  <2> QED
    BY <2>3, <2>4
<1>6. InBucket(ms, i)
  BY <1>4, <1>5 DEF InBucket
<1>7. ASSUME NEW k \in BucketIds
      PROVE  InBucket(ms, k) <=> /\ k = 0 \/ ms >= 2^k
                                 /\ k = Buckets - 1 \/ ms < 2^(k + 1)
  <2>1. Bounds[k] = 2^k /\ Bounds[k + 1] = 2^(k + 1)
    BY BoundsAre
  <2> QED
    BY <2>1, Zenon DEF InBucket
<1>8. \E k \in BucketIds : /\ k = 0 \/ ms >= 2^k
                           /\ k = Buckets - 1 \/ ms < 2^(k + 1)
  BY <1>4, <1>6, <1>7, Zenon
<1>9. /\ BucketOf(ms) \in BucketIds
      /\ BucketOf(ms) = 0 \/ ms >= 2^BucketOf(ms)
      /\ BucketOf(ms) = Buckets - 1 \/ ms < 2^(BucketOf(ms) + 1)
  BY <1>8, Zenon DEF BucketOf
<1> QED
  BY <1>7, <1>9, Zenon

LEMMA Quotient ==
    ASSUME NEW x \in Nat, NEW d \in Nat, d > 0
    PROVE  /\ x \div d \in Nat /\ d * (x \div d) <= x /\ x < d * (x \div d) + d
OBVIOUS

\* A place in a bucket is within its bounds.
LEMMA WithinIs ==
    ASSUME NEW lo \in Nat, NEW hi \in Nat, lo < hi, NEW n \in Nat, NEW place \in 1..n,
           NEW p, p = Within(lo, hi, place, n)
    PROVE  p \in Nat /\ 1000 * lo <= p /\ p < 1000 * hi
<1>1. PICK span \in Nat : span = 1000 * (hi - lo) /\ span > 0
  OBVIOUS
<1>2. PICK into \in Nat : into = 2 * place - 1 /\ into < 2 * n
  OBVIOUS
<1>3. PICK d \in Nat : d = 2 * n /\ d > 0
  OBVIOUS
<1>4. PICK x \in Nat : x = span * into
  BY <1>1, <1>2
<1>5. x < span * d
  BY <1>1, <1>2, <1>3, <1>4
<1>6. PICK q \in Nat : q = x \div d /\ d * q <= x
  BY <1>3, <1>4, Quotient
<1>7. d * q < span * d
  BY <1>1, <1>3, <1>4, <1>5, <1>6
<1>8. q < span
  BY <1>1, <1>3, <1>6, <1>7
<1>9. Within(lo, hi, place, n) = 1000 * lo + q
  <2>1. 1000 * (hi - lo) * (2 * place - 1) = x
    BY <1>1, <1>2, <1>4
  <2>2. Within(lo, hi, place, n) = 1000 * lo + x \div d
    BY <1>3, <2>1 DEF Within
  <2> QED
    BY <1>6, <2>2
<1> QED
  BY <1>1, <1>8, <1>9

LEMMA WithinBucket ==
    ASSUME NEW b \in BucketIds, NEW n \in Nat, NEW place \in 1..n
    PROVE  LET m == Within(BucketLo(b), BucketHi(b), place, n) \div 1000
           IN  m \in Nat /\ InBucket(m, b)
<1>1. /\ Bounds[b] = 2^b /\ Bounds[b + 1] = 2^(b + 1) /\ Bounds[b + 1] = 2 * Bounds[b]
      /\ Bounds[b] > 0 /\ Bounds[b] \in Nat
  BY BoundsAre DEF BucketIds
<1>2. BucketHi(b) = Bounds[b + 1] /\ BucketLo(b) = IF b = 0 THEN 0 ELSE Bounds[b]
  BY <1>1 DEF BucketHi, BucketLo
<1>3. PICK lo \in Nat, hi \in Nat : lo = BucketLo(b) /\ hi = BucketHi(b) /\ lo < hi
  BY <1>1, <1>2
<1>4. PICK p : p = Within(lo, hi, place, n)
  OBVIOUS
<1>5. p \in Nat /\ 1000 * lo <= p /\ p < 1000 * hi
  BY <1>3, <1>4, WithinIs
<1>6. PICK m \in Nat : m = p \div 1000 /\ lo <= m /\ m < hi
  BY <1>5
<1>7. InBucket(m, b)
  BY <1>2, <1>3, <1>6 DEF InBucket
<1> QED
  BY <1>3, <1>4, <1>6, <1>7

\* The samples up to a bucket.
UpTo(S, i) == {e \in S : BucketOf(e.ms) <= i}

LEMMA UpToIs ==
    ASSUME NEW S, IsFiniteSet(S), \A e \in S : e.ms \in Nat,
           NEW hist, \A b \in BucketIds : hist[b] = Cardinality(OfBucket(S, b)),
           NEW i \in Int, i < Buckets
    PROVE  TotalOf(hist, 0..i) = Cardinality(UpTo(S, i))
<1> DEFINE F == [b \in 0..i |-> OfBucket(S, b)]
<1>1. Buckets \in Nat /\ \A b \in 0..i : b \in BucketIds
  BY BoundsAre DEF BucketIds
<1>2. IsFiniteSet(0..i)
  BY FS_Interval, 0 \in Int
<1>3. ASSUME NEW b \in 0..i
      PROVE  IsFiniteSet(F[b]) /\ hist[b] \in Nat /\ hist[b] = Cardinality(F[b])
  <2>1. F[b] \subseteq S
    BY DEF OfBucket
  <2>2. IsFiniteSet(F[b])
    BY <2>1, FS_Subset
  <2> QED
    BY <1>1, <2>2, FS_CardinalityType
<1>4. \A b, c \in 0..i : \A x : x \in F[b] /\ x \in F[c] => b = c
  BY DEF OfBucket
<1>5. \A e \in S : BucketOf(e.ms) \in Nat
  BY BucketIs DEF InBucket, BucketIds
<1>6. AllOf(0..i, F) = UpTo(S, i)
  BY <1>5 DEF AllOf, UpTo, OfBucket
<1> HIDE DEF F
<1>7. TotalOf(hist, 0..i) = Cardinality(AllOf(0..i, F))
  <2>1. \A b \in 0..i : IsFiniteSet(F[b]) /\ hist[b] \in Nat /\ hist[b] = Cardinality(F[b])
    BY <1>3
  <2> QED
    BY <1>2, <1>4, <2>1, SumOfSizes
<1> QED
  BY <1>6, <1>7

\* The percentile of some samples is in the bucket of the sample with its rank.
LEMMA PercentileIs ==
    ASSUME NEW S, IsFiniteSet(S), \A f \in S : f.ms \in Nat,
           NEW hist, \A b \in BucketIds : hist[b] = Cardinality(OfBucket(S, b)),
           NEW total, NEW rank \in Nat, rank = Rank80(total), NEW e \in S,
           Cardinality({f \in S : f.ms < e.ms}) < rank,
           rank <= Cardinality({f \in S : f.ms <= e.ms})
    PROVE  BucketOf(Percentile(hist, total) \div 1000) = BucketOf(e.ms)
<1> DEFINE b == BucketOf(e.ms)
           upTo(i) == TotalOf(hist, 0..i)
<1>1. \A f \in S : InBucket(f.ms, BucketOf(f.ms)) /\ BucketOf(f.ms) \in Nat
  BY BucketIs DEF InBucket, BucketIds
<1>2. b \in BucketIds /\ b \in Nat /\ Buckets \in Nat /\ b < Buckets
  BY <1>1, BoundsAre DEF InBucket, BucketIds
<1>3. \A i \in Int : i < Buckets => /\ upTo(i) = Cardinality(UpTo(S, i))
                                    /\ IsFiniteSet(UpTo(S, i)) /\ Cardinality(UpTo(S, i)) \in Nat
  <2> SUFFICES ASSUME NEW i \in Int, i < Buckets
               PROVE  /\ upTo(i) = Cardinality(UpTo(S, i))
                      /\ IsFiniteSet(UpTo(S, i)) /\ Cardinality(UpTo(S, i)) \in Nat
    OBVIOUS
  <2>1. UpTo(S, i) \subseteq S
    BY DEF UpTo
  <2>2. upTo(i) = Cardinality(UpTo(S, i))
    BY UpToIs
  <2> QED
    BY <2>1, <2>2, FS_Subset, FS_CardinalityType
<1>4. rank <= upTo(b)
  <2> DEFINE low == {f \in S : f.ms <= e.ms}
  <2>1. \A f \in low : BucketOf(f.ms) <= b
    BY <1>1, BucketIsOne
  <2>2. low \subseteq UpTo(S, b)
    BY <2>1 DEF UpTo
  <2>3. Cardinality(low) <= Cardinality(UpTo(S, b)) /\ Cardinality(low) \in Nat
    BY <1>2, <1>3, <2>2, FS_Subset, FS_CardinalityType
  <2> QED
    BY <1>2, <1>3, <2>3
<1>5. ASSUME NEW i \in Int, i < b PROVE upTo(i) < rank
  <2> DEFINE below == {f \in S : f.ms < e.ms}
  <2>1. \A f \in S : ~ (f.ms < e.ms) => BucketOf(f.ms) >= b
    <3> SUFFICES ASSUME NEW f \in S, ~ (f.ms < e.ms) PROVE BucketOf(f.ms) >= b
      OBVIOUS
    <3>1. e.ms <= f.ms /\ e.ms \in Nat /\ f.ms \in Nat
      OBVIOUS
    <3> QED
      BY <1>1, <1>2, <3>1, BucketIsOne
  <2>2. UpTo(S, i) \subseteq below
    BY <1>1, <1>2, <1>5, <2>1 DEF UpTo
  <2>3. IsFiniteSet(below)
    BY FS_Subset
  <2>4. Cardinality(UpTo(S, i)) <= Cardinality(below) /\ Cardinality(below) \in Nat
    BY <2>2, <2>3, FS_Subset, FS_CardinalityType
  <2>5. i < Buckets
    BY <1>2, <1>5
  <2> QED
    BY <1>3, <2>4, <2>5
<1>6. upTo(b) = upTo(b - 1) + hist[b] /\ upTo(b - 1) \in Nat /\ hist[b] \in Nat
  <2>1. UpTo(S, b) = UpTo(S, b - 1) \cup OfBucket(S, b)
        /\ UpTo(S, b - 1) \cap OfBucket(S, b) = {}
    BY <1>1, <1>2 DEF UpTo, OfBucket
  <2>2. OfBucket(S, b) \subseteq S
    BY DEF OfBucket
  <2>3. IsFiniteSet(OfBucket(S, b)) /\ Cardinality(OfBucket(S, b)) \in Nat
    BY <2>2, FS_Subset, FS_CardinalityType
  <2>4. b - 1 \in Int /\ b - 1 < Buckets
    BY <1>2
  <2>5. /\ upTo(b - 1) = Cardinality(UpTo(S, b - 1)) /\ IsFiniteSet(UpTo(S, b - 1))
        /\ Cardinality(UpTo(S, b - 1)) \in Nat
    BY <1>3, <2>4
  <2>6. Cardinality(UpTo(S, b)) = Cardinality(UpTo(S, b - 1)) + Cardinality(OfBucket(S, b))
    <3>1. PICK A, B : A = UpTo(S, b - 1) /\ B = OfBucket(S, b)
      OBVIOUS
    <3>2. IsFiniteSet(A) /\ IsFiniteSet(B) /\ A \cap B = {}
          /\ Cardinality(A) \in Nat /\ Cardinality(B) \in Nat
      BY <2>1, <2>3, <2>5, <3>1
    <3>3. Cardinality(A \cup B) = Cardinality(A) + Cardinality(B) - Cardinality(A \cap B)
      BY <3>2, FS_Union
    <3>4. Cardinality(A \cap B) = 0
      BY <3>2, FS_EmptySet
    <3> QED
      BY <2>1, <3>1, <3>2, <3>3, <3>4
  <2> QED
    BY <1>2, <1>3, <2>3, <2>5, <2>6
<1> DEFINE isAt(i) == upTo(i) >= rank /\ \A j \in 0..(i - 1) : upTo(j) < rank
<1>7. isAt(b)
  BY <1>2, <1>3, <1>4, <1>5
<1>8. ASSUME NEW i \in BucketIds, isAt(i) PROVE i = b
  <2>1. i \in Int /\ i < Buckets /\ i \in Nat
    BY <1>2 DEF BucketIds
  <2>2. ~ (i < b)
    BY <1>3, <1>5, <1>8, <2>1
  <2>3. ~ (b < i)
    <3> SUFFICES ASSUME b < i PROVE FALSE
      OBVIOUS
    <3>1. b \in 0..(i - 1)
      BY <1>2, <2>1
    <3>2. upTo(b) < rank
      BY <1>8, <3>1
    <3> QED
      BY <1>2, <1>3, <1>4, <3>2
  <2> QED
    BY <1>2, <2>1, <2>2, <2>3
<1> HIDE DEF upTo
<1>9. PICK at : at = CHOOSE i \in BucketIds : isAt(i)
  OBVIOUS
<1>10. at = b
  <2> HIDE DEF isAt, b
  <2> QED
    BY <1>2, <1>7, <1>8, <1>9
<1>11. Percentile(hist, total)
         = Within(BucketLo(b), BucketHi(b), rank - (upTo(b) - hist[b]), hist[b])
  <2>1. Percentile(hist, total)
          = Within(BucketLo(at), BucketHi(at), rank - (upTo(at) - hist[at]), hist[at])
    BY <1>9 DEF Percentile, upTo
  <2> QED
    BY <1>10, <2>1
<1>12. rank - (upTo(b) - hist[b]) \in 1..hist[b]
  <2>1. upTo(b - 1) < rank
    BY <1>2, <1>5
  <2> QED
    BY <1>4, <1>6, <2>1
<1>13. PICK n \in Nat : n = hist[b]
  BY <1>6
<1>14. PICK place \in 1..n : place = rank - (upTo(b) - hist[b])
  BY <1>12, <1>13
<1>15. PICK m : m = Percentile(hist, total) \div 1000
  OBVIOUS
<1>16. m = Within(BucketLo(b), BucketHi(b), place, n) \div 1000
  BY <1>11, <1>13, <1>15, <1>14
<1>17. m \in Nat /\ InBucket(m, b)
  <2> HIDE DEF isAt, b
  <2> QED
    BY <1>2, <1>16, WithinBucket
<1>18. InBucket(m, BucketOf(m)) /\ BucketOf(m) \in Nat
  BY <1>17, BucketIs DEF InBucket, BucketIds
<1>19. BucketOf(m) <= b /\ b <= BucketOf(m)
  BY <1>17, <1>18, BucketIsOne
<1> QED
  BY <1>2, <1>15, <1>18, <1>19

\* What a router is told of the 80th percentile is of the analyses recorded: it is in the
\* bucket of the sample that has that rank, for any durations and any number of buckets
\* (percentile_micros and bucket_of of latency.rs).
THEOREM PercentileIsOfItsSample == ServiceSpec => []PercentileInItsBucket
<1>1. LatencyInv => PercentileInItsBucket
  <2> SUFFICES ASSUME LatencyInv PROVE PercentileInItsBucket
    OBVIOUS
  <2>1. PICK turn, turns : RingOf(lwRing, turn, lwLog, turns) /\ TakenInTime(lwLog, turns)
    BY DEF LatencyInv
  <2>2. PICK w : w = Advance(lwRing, lwNow)
    OBVIOUS
  <2>3. PICK t \in Nat : RingOf(w, t, lwLog, turns)
    BY <2>1, <2>2, AdvanceInv DEF LatencyInv
  <2>4. PICK held : held = HeldOf(lwLog, turns, t)
    OBVIOUS
  <2>5. IsFiniteSet(lwLog) /\ held \subseteq lwLog /\ \A f \in lwLog : f.ms \in Nat
    BY <2>3, <2>4 DEF RingOf, HeldOf, LatencyInv
  <2>6. PICK hist : hist = HistOf(w.slots)
    OBVIOUS
  <2>7. /\ SamplesOf(w.slots) = Cardinality(held)
        /\ \A b \in BucketIds : hist[b] = Cardinality(OfBucket(held, b))
    BY <2>3, <2>4, <2>6, SamplesAre
  <2>8. PICK s : s = Summary(lwNow)
    OBVIOUS
  <2>9. s.samples = Cardinality(held)
        /\ s.p80 = IF s.samples = 0 THEN 0 ELSE Percentile(hist, s.samples)
    BY <2>2, <2>6, <2>7, <2>8 DEF Summary
  <2> SUFFICES ASSUME s.samples > 0, s.samples = Cardinality(lwLog), NEW e \in lwLog,
                      Cardinality({f \in lwLog : f.ms < e.ms}) < Rank80(s.samples),
                      Rank80(s.samples) <= Cardinality({f \in lwLog : f.ms <= e.ms})
               PROVE  BucketOf(s.p80 \div 1000) = BucketOf(e.ms)
    BY <2>8 DEF PercentileInItsBucket
  <2>10. held = lwLog
    BY <2>5, <2>9, FS_Subset
  <2>11. s.samples \in Nat /\ s.samples # 0
    BY <2>5, FS_CardinalityType
  <2>12. PICK rank \in Nat : rank = Rank80(s.samples)
    BY <2>11 DEF Rank80
  <2>13. BucketOf(Percentile(hist, s.samples) \div 1000) = BucketOf(e.ms)
    BY <2>5, <2>7, <2>10, <2>12, PercentileIs
  <2> QED
    BY <2>9, <2>11, <2>13
<1> QED
  BY <1>1, LatencyInvariant, PTL

----------------------------------------------------------------------------
(* The latency window: the aging totals of a JobBucket                     *)

Ender(me) ==
    /\ DOMAIN me = {"pc", "n", "m", "left"} /\ me = [field \in DOMAIN me |-> me[field]]
    /\ me.pc \in {"idle", "ms", "halve", "load", "forget"} /\ me.n \in 0..Memory + 1
    /\ me.pc = "halve" => me.n >= Memory

\* Those who have crossed the line, and have not halved the count yet.
Crossed == {t \in Enders : jbEnd[t].pc \in {"ms", "halve"} /\ jbEnd[t].n >= Memory}

\* The count is over the line by those who have yet to halve it, and holds what they
\* will take: the second of two to cross saw no less than half of what the first did.
BucketInv ==
    /\ jbEnd = [t \in Enders |-> jbEnd[t]] /\ \A t \in Enders : Ender(jbEnd[t])
    /\ jbCount \in 0..Memory + 1
    /\ jbCount >= Memory => Crossed # {}
    /\ jbCount = Memory + 1 => \E t, u \in Crossed : t # u
    /\ \A t \in Crossed : Halved(jbEnd[t].n) <= jbCount
    /\ \A t, u \in Crossed : t # u => Halved(jbEnd[t].n) + Halved(jbEnd[u].n) <= jbCount

\* Of any three threads two are the same.
AtMostTwo == \A t, u, v \in Enders : t = u \/ u = v \/ t = v

LEMMA TwoAreNotThree ==
    ASSUME IsFiniteSet(Enders), Cardinality(Enders) <= 2
    PROVE  AtMostTwo
<1> SUFFICES ASSUME NEW t \in Enders, NEW u \in Enders, NEW v \in Enders, t # u, u # v, t # v
             PROVE  FALSE
  BY DEF AtMostTwo
<1>1. IsFiniteSet({t}) /\ Cardinality({t}) = 1
  BY FS_Singleton
<1>2. PICK S : S = {t} \cup {u}
  OBVIOUS
<1>3. IsFiniteSet(S) /\ Cardinality(S) = 2 /\ v \notin S
  <2>1. u \notin {t}
    OBVIOUS
  <2>2. IsFiniteSet(S) /\ Cardinality(S) = Cardinality({t}) + 1
    BY <1>1, <1>2, <2>1, CountAdd
  <2> QED
    BY <1>1, <1>2, <2>2
<1>4. IsFiniteSet(S \cup {v}) /\ Cardinality(S \cup {v}) = 3
  BY <1>3, CountAdd
<1>5. S \cup {v} \subseteq Enders
  BY <1>2
<1>6. 3 <= Cardinality(Enders) /\ Cardinality(Enders) \in Nat
  BY <1>4, <1>5, FS_Subset, FS_CardinalityType
<1> QED
  BY <1>6

\* Within its width a counter counts.
LEMMA NoWrap ==
    /\ \A c \in 0..Memory : WrapAdd(c, 1) = c + 1
    /\ \A c \in 0..Memory + 1, h \in Nat : h <= c => WrapSub(c, h) = c - h
<1>1. PICK modulus \in Nat : modulus = Modulus /\ Memory + 1 < modulus
  BY WidthAssumption DEF Modulus
<1>2. \A x \in Nat : x < modulus => x % modulus = x /\ (x + modulus) % modulus = x
  BY <1>1, ServiceAssumption
<1>3. ASSUME NEW c \in 0..Memory PROVE WrapAdd(c, 1) = c + 1
  <2>1. c + 1 \in Nat /\ c + 1 < modulus
    BY <1>1, ServiceAssumption
  <2> QED
    BY <1>1, <1>2, <2>1 DEF WrapAdd
<1>4. ASSUME NEW c \in 0..Memory + 1, NEW h \in Nat, h <= c PROVE WrapSub(c, h) = c - h
  <2>1. c - h \in Nat /\ c - h < modulus /\ c + modulus - h = (c - h) + modulus
    BY <1>1, <1>4, ServiceAssumption
  <2> QED
    BY <1>1, <1>2, <2>1 DEF WrapSub
<1> QED
  BY <1>3, <1>4

LEMMA HalvedIs ==
    /\ \A n \in Nat : Halved(n) \in Nat /\ Halved(n) <= n
    /\ \A n \in Nat : n >= Memory => Halved(n) >= 1
    /\ \A n, k \in Nat : n >= Memory /\ k <= Memory + 1 => Halved(n) + Halved(k) <= n
BY ServiceAssumption DEF Halved

\* One thread goes on, and the others are where they were.
LEMMA EnderGoes ==
    ASSUME BucketInv, NEW t \in Enders, NEW me, Ender(me), JbTo(t, me)
    PROVE  /\ jbEnd' = [u \in Enders |-> jbEnd'[u]] /\ jbEnd'[t] = me
           /\ \A u \in Enders \ {t} : jbEnd'[u] = jbEnd[u]
           /\ \A u \in Enders : Ender(jbEnd'[u])
           /\ Crossed' = IF me.pc \in {"ms", "halve"} /\ me.n >= Memory THEN Crossed \cup {t}
                         ELSE Crossed \ {t}
<1>1. jbEnd' = [u \in Enders |-> IF u = t THEN me ELSE jbEnd[u]]
  BY DEF BucketInv, JbTo
<1>2. \A u \in Enders : Ender(jbEnd'[u])
  BY <1>1 DEF BucketInv
<1> QED
  BY <1>1, <1>2 DEF Crossed

\* A thread that is as it was for the count leaves the count as it was.
LEMMA QuietEnder ==
    ASSUME BucketInv, NEW t \in Enders, NEW me, Ender(me), JbTo(t, me), jbCount' = jbCount,
           Crossed' = Crossed, me.n = jbEnd[t].n \/ t \notin Crossed
    PROVE  BucketInv'
<1>1. \A u \in Crossed : jbEnd'[u].n = jbEnd[u].n
  BY EnderGoes DEF Crossed
<1> QED
  BY <1>1, EnderGoes DEF BucketInv

LEMMA IdleIs ==
    ASSUME NEW left
    PROVE  /\ Ender(JbIdle(left)) /\ JbIdle(left).pc = "idle"
           /\ \A n \in 0..Memory + 1 :
                LET me == [JbIdle(left) EXCEPT !.pc = "ms", !.n = n] IN
                Ender(me) /\ me.pc = "ms" /\ me.n = n
<1>1. JbIdle(left) = [pc |-> "idle", n |-> 0, m |-> 0, left |-> left] /\ 0 \in 0..Memory + 1
  BY ServiceAssumption DEF JbIdle
<1>2. Ender(JbIdle(left)) /\ JbIdle(left).pc = "idle"
  BY <1>1 DEF Ender
<1>3. PICK idle : idle = JbIdle(left)
  OBVIOUS
<1>4. ASSUME NEW n \in 0..Memory + 1, NEW me, me = [idle EXCEPT !.pc = "ms", !.n = n]
      PROVE  Ender(me) /\ me.pc = "ms" /\ me.n = n
  BY <1>2, <1>3, <1>4 DEF Ender
<1> QED
  BY <1>2, <1>3, <1>4

LEMMA JbCountInv ==
    ASSUME BucketInv, AtMostTwo, NEW t \in Enders, JbCount(t)
    PROVE  BucketInv'
<1>1. t \notin Crossed /\ jbCount \in 0..Memory + 1 /\ \A u \in Crossed : u \in Enders /\ u # t
  BY DEF JbCount, Crossed, BucketInv
<1>2. jbCount # Memory + 1
  BY <1>1 DEF BucketInv, AtMostTwo
<1>3. PICK n : n = jbCount'
  OBVIOUS
<1>4. jbCount \in 0..Memory /\ n = jbCount + 1 /\ n \in 0..Memory + 1
  BY <1>1, <1>2, <1>3, NoWrap, ServiceAssumption DEF JbCount
<1>5. PICK me : me = [JbIdle(jbEnd[t].left - 1) EXCEPT !.pc = "ms", !.n = n]
  OBVIOUS
<1>6. Ender(me) /\ me.pc = "ms" /\ me.n = n /\ JbTo(t, me)
  BY <1>3, <1>4, <1>5, IdleIs DEF JbCount
<1>7. /\ jbEnd' = [u \in Enders |-> jbEnd'[u]] /\ jbEnd'[t] = me
      /\ \A u \in Enders \ {t} : jbEnd'[u] = jbEnd[u]
      /\ \A u \in Enders : Ender(jbEnd'[u])
      /\ Crossed' = IF n >= Memory THEN Crossed \cup {t} ELSE Crossed
  BY <1>1, <1>6, EnderGoes
<1>8. \A u \in Crossed : /\ jbEnd'[u] = jbEnd[u] /\ jbEnd[u].n \in Nat /\ jbEnd[u].n <= Memory + 1
                         /\ Halved(jbEnd[u].n) <= jbCount
  BY <1>1, <1>7, ServiceAssumption DEF BucketInv, Ender
<1>9. jbCount' >= Memory => Crossed' # {}
  BY <1>3, <1>7
<1>10. jbCount' = Memory + 1 => \E u, v \in Crossed' : u # v
  <2> SUFFICES ASSUME n = Memory + 1 PROVE \E u, v \in Crossed' : u # v
    BY <1>3
  <2>1. jbCount >= Memory /\ n >= Memory
    BY <1>4, ServiceAssumption
  <2>2. PICK u \in Crossed : TRUE
    BY <2>1 DEF BucketInv
  <2> QED
    BY <1>1, <1>7, <2>1, <2>2
<1>11. \A u \in Crossed : Halved(jbEnd'[u].n) <= n
  <2> SUFFICES ASSUME NEW u \in Crossed PROVE Halved(jbEnd'[u].n) <= n
    OBVIOUS
  <2>1. Halved(jbEnd[u].n) \in Nat /\ Halved(jbEnd[u].n) <= jbCount /\ jbEnd'[u] = jbEnd[u]
    BY <1>8, HalvedIs
  <2> QED
    BY <1>4, <2>1
<1>12. n >= Memory => Halved(n) <= n /\ \A u \in Crossed : Halved(n) + Halved(jbEnd'[u].n) <= n
  BY <1>4, <1>8, HalvedIs
<1>13. \A u, v \in Crossed : u = v
  BY <1>1 DEF AtMostTwo
<1>14. \A u \in Crossed : Halved(n) + Halved(jbEnd'[u].n) = Halved(jbEnd'[u].n) + Halved(n)
  BY <1>4, <1>8, HalvedIs
<1>15. \A u \in Crossed' : Halved(jbEnd'[u].n) <= n
  BY <1>6, <1>7, <1>11, <1>12
<1>16. \A u, v \in Crossed' : u # v => Halved(jbEnd'[u].n) + Halved(jbEnd'[v].n) <= n
  BY <1>6, <1>7, <1>12, <1>13, <1>14
<1> QED
  BY <1>3, <1>4, <1>7, <1>9, <1>10, <1>15, <1>16 DEF BucketInv

LEMMA JbMsInv ==
    ASSUME BucketInv, NEW t \in Enders, NEW ms, JbMs(t, ms)
    PROVE  BucketInv'
<1>1. PICK old : old = jbEnd[t]
  OBVIOUS
<1>2. Ender(old) /\ old.pc = "ms" /\ (t \in Crossed <=> old.n >= Memory)
  BY <1>1 DEF BucketInv, JbMs, Crossed
<1>3. CASE old.n >= Memory
  <2>1. PICK me : me = [old EXCEPT !.pc = "halve"]
    OBVIOUS
  <2>2. Ender(me) /\ me.pc = "halve" /\ me.n = old.n
    BY <1>2, <1>3, <2>1 DEF Ender
  <2>3. JbTo(t, me)
    BY <1>1, <1>3, <2>1 DEF JbMs
  <2>4. Crossed' = Crossed
    BY <1>2, <1>3, <2>2, <2>3, EnderGoes
  <2> QED
    BY <1>1, <2>2, <2>3, <2>4, QuietEnder DEF JbMs
<1>4. CASE ~(old.n >= Memory)
  <2>1. PICK me : me = JbIdle(old.left)
    OBVIOUS
  <2>2. Ender(me) /\ me.pc = "idle"
    BY <2>1, IdleIs
  <2>3. JbTo(t, me) /\ jbCount' = jbCount
    BY <1>1, <1>4, <2>1 DEF JbMs
  <2>4. Crossed' = Crossed \ {t}
    BY <2>2, <2>3, EnderGoes
  <2> QED
    BY <1>2, <1>4, <2>2, <2>3, <2>4, QuietEnder
<1> QED
  BY <1>3, <1>4

LEMMA JbHalveInv ==
    ASSUME BucketInv, AtMostTwo, NEW t \in Enders, JbHalve(t)
    PROVE  BucketInv'
<1>1. PICK old : old = jbEnd[t]
  OBVIOUS
<1>2. Ender(old) /\ old.pc = "halve" /\ t \in Crossed /\ old.n >= Memory /\ old.n \in Nat
  BY <1>1, ServiceAssumption DEF BucketInv, JbHalve, Crossed, Ender
<1>3. PICK h : h = Halved(old.n)
  OBVIOUS
<1>4. h \in Nat /\ h >= 1 /\ h <= jbCount
  BY <1>1, <1>2, <1>3, HalvedIs DEF BucketInv
<1>5. jbCount \in 0..Memory + 1 /\ jbCount' = jbCount - h
  BY <1>1, <1>3, <1>4, NoWrap DEF BucketInv, JbHalve
<1>6. PICK me : me = [old EXCEPT !.pc = "load"]
  OBVIOUS
<1>7. Ender(me) /\ me.pc = "load" /\ JbTo(t, me)
  BY <1>1, <1>2, <1>6 DEF Ender, JbHalve
<1>8. /\ jbEnd' = [u \in Enders |-> jbEnd'[u]] /\ Crossed' = Crossed \ {t}
      /\ \A u \in Enders \ {t} : jbEnd'[u] = jbEnd[u]
      /\ \A u \in Enders : Ender(jbEnd'[u])
  BY <1>7, EnderGoes
<1>9. jbCount' \in 0..Memory + 1 /\ jbCount' # Memory + 1
      /\ (jbCount' >= Memory => jbCount = Memory + 1)
  BY <1>4, <1>5, ServiceAssumption
<1>10. jbCount' >= Memory => Crossed' # {}
  BY <1>8, <1>9 DEF BucketInv
<1>11. \A u, v \in Crossed' : u = v
  BY <1>8 DEF Crossed, AtMostTwo
<1>12. ASSUME NEW u \in Crossed' PROVE Halved(jbEnd'[u].n) <= jbCount'
  <2>1. u \in Crossed /\ u # t /\ u \in Enders
    BY <1>8 DEF Crossed
  <2>2. jbEnd'[u] = jbEnd[u] /\ h + Halved(jbEnd[u].n) <= jbCount
    BY <1>1, <1>2, <1>3, <1>8, <2>1 DEF BucketInv
  <2>3. jbEnd[u].n \in Nat
    BY <2>1, ServiceAssumption DEF BucketInv, Ender
  <2>4. Halved(jbEnd[u].n) \in Nat
    BY <2>3, HalvedIs
  <2> QED
    BY <1>4, <1>5, <2>2, <2>4
<1> QED
  BY <1>8, <1>9, <1>10, <1>11, <1>12 DEF BucketInv

LEMMA JbLoadInv ==
    ASSUME BucketInv, NEW t \in Enders, JbLoad(t)
    PROVE  BucketInv'
<1>1. PICK old : old = jbEnd[t]
  OBVIOUS
<1>2. PICK m : m = jbMs
  OBVIOUS
<1>3. PICK me : me = [old EXCEPT !.pc = "forget", !.m = m]
  OBVIOUS
<1>4. Ender(me) /\ me.pc = "forget" /\ me.n = old.n /\ JbTo(t, me) /\ t \notin Crossed
  BY <1>1, <1>2, <1>3 DEF BucketInv, Ender, JbLoad, Crossed
<1>5. Crossed' = Crossed
  <2>1. Crossed' = Crossed \ {t}
    BY <1>4, EnderGoes
  <2> QED
    BY <1>4, <2>1
<1> QED
  BY <1>4, <1>5, QuietEnder DEF JbLoad

LEMMA JbForgetInv ==
    ASSUME BucketInv, NEW t \in Enders, JbForget(t)
    PROVE  BucketInv'
<1>1. PICK me : me = JbIdle(jbEnd[t].left)
  OBVIOUS
<1>2. Ender(me) /\ me.pc = "idle" /\ JbTo(t, me) /\ jbCount' = jbCount /\ t \notin Crossed
  BY <1>1, IdleIs DEF JbForget, Crossed
<1>3. Crossed' = Crossed \ {t}
  BY <1>2, EnderGoes
<1> QED
  BY <1>2, <1>3, QuietEnder

LEMMA BucketStart == ServiceInit => BucketInv
<1> SUFFICES ASSUME ServiceInit PROVE BucketInv
  OBVIOUS
<1>1. \A t \in Enders : jbEnd[t] = JbIdle(MaxRecords)
  BY DEF ServiceInit
<1>2. Crossed = {}
  BY <1>1, IdleIs DEF Crossed
<1>3. jbEnd = [t \in Enders |-> jbEnd[t]] /\ \A t \in Enders : Ender(jbEnd[t])
  BY <1>1, IdleIs DEF ServiceInit
<1>4. jbCount \in 0..Memory + 1 /\ ~(jbCount >= Memory) /\ jbCount # Memory + 1
  BY ServiceAssumption DEF ServiceInit
<1> QED
  BY <1>2, <1>3, <1>4 DEF BucketInv

LEMMA BucketStep == AtMostTwo /\ BucketInv /\ [ServiceNext]_serviceVars => BucketInv'
<1> SUFFICES ASSUME AtMostTwo, BucketInv, [ServiceNext]_serviceVars PROVE BucketInv'
  OBVIOUS
<1>1. CASE UNCHANGED serviceVars \/ UNCHANGED jbVars
  BY <1>1 DEF serviceVars, jbVars, BucketInv, Crossed
<1>2. CASE BucketNext
  BY <1>2, JbCountInv, JbMsInv, JbHalveInv, JbLoadInv, JbForgetInv DEF BucketNext
<1> QED
  BY <1>1, <1>2 DEF ServiceNext

\* Who has crossed the line, and what is left for them to halve, at every step, for
\* as many threads as the comment of JobBucket::record speaks of.
THEOREM BucketInvariant ==
    ASSUME IsFiniteSet(Enders), Cardinality(Enders) <= 2
    PROVE  ServiceSpec => []BucketInv
<1>1. AtMostTwo
  BY TwoAreNotThree
<1>2. BucketInv /\ [ServiceNext]_serviceVars => BucketInv'
  BY <1>1, BucketStep
<1> QED
  BY <1>2, BucketStart, PTL DEF ServiceSpec

\* Two threads that end analyses side by side keep the count within what is remembered:
\* crossing the line together they forget more, and nothing else.  (Three do not.)
THEOREM TwoThreadsKeepTheCount ==
    ASSUME IsFiniteSet(Enders), Cardinality(Enders) <= 2
    PROVE  ServiceSpec => []JobCountSane
<1>1. BucketInv => JobCountSane
  <2> SUFFICES ASSUME BucketInv PROVE JobCountSane
    OBVIOUS
  <2>1. Cardinality(Enders) \in Nat /\ (Enders # {} => Cardinality(Enders) # 0)
    BY FS_CardinalityType, FS_EmptySet
  <2>2. jbCount >= Memory => Enders # {}
    BY DEF BucketInv, Crossed
  <2>3. jbCount \in 0..Memory + 1
    BY DEF BucketInv
  <2> QED
    BY <2>1, <2>2, <2>3, ServiceAssumption DEF JobCountSane
<1> QED
  BY <1>1, BucketInvariant, PTL

\* What routers are told of past analyses is of the analyses recorded, for as many threads
\* as the comment of JobBucket::record speaks of, and whatever they record.
THEOREM FiguresHold ==
    ASSUME IsFiniteSet(Enders), Cardinality(Enders) <= 2
    PROVE  ServiceSpec => []FiguresAreOfTheRecords
<1>1. PercentileInItsBucket /\ JobCountSane => FiguresAreOfTheRecords
  BY DEF FiguresAreOfTheRecords
<1> QED
  BY <1>1, PercentileIsOfItsSample, TwoThreadsKeepTheCount, PTL

============================================================================
