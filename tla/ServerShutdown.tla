--------------------------- MODULE ServerShutdown ---------------------------
(***************************************************************************)
(* The server's connections and its end: serve, run, AppState::stop and    *)
(* drain, and Tasks of src/src/server/mod.rs, and the drop of the runtime  *)
(* in src/src/main.rs.                                                     *)
(*                                                                         *)
(* An accept loop hands connections to tasks of their own under a permit.  *)
(* A request that leads an analysis leaves an owned task behind, counted   *)
(* in Tasks::live, which awaits a blocking thread.  On a signal the loop   *)
(* stops, open connections get a window, their analyses are cancelled, the *)
(* owned tasks get a window, and the runtime is dropped: every task goes,  *)
(* with what it holds, and the threads still running are waited for.       *)
(* Windows are timers that may fire at any moment.                         *)
(***************************************************************************)
EXTENDS Naturals, FiniteSets

CONSTANTS
    Conns,          \* clients; each connects once and sends one request
    MaxConnections, \* MAX_CONNECTIONS
    MaxErrors       \* bound: failures of accept()

ASSUME ShutdownAssumption == MaxConnections \in Nat \ {0} /\ MaxErrors \in Nat

VARIABLES
    ssServe,    \* where serve, then drain, then main are
    ssSignal,   \* a signal was received
    ssFree,     \* free permits of `connections`
    ssErrors,   \* accept failures so far
    ssConn,     \* ssConn[c]: the connection
    ssThread,   \* ssThread[c]: the blocking thread of c's analysis
    ssTold,     \* ssTold[c]: its cancellation flag
    ssTask,     \* ssTask[t]: the owned task t
    ssLive,     \* Tasks::live
    ssDrain     \* drained(): [at, enabled, woken]

shutdownVars == <<ssServe, ssSignal, ssFree, ssErrors, ssConn, ssThread, ssTold, ssTask,
                  ssLive, ssDrain>>

Lead(c)   == <<c, "lead">>     \* the leader's task
Follow(c) == <<c, "follow">>   \* the task that follows a timed-out thread
Owned     == Conns \X {"lead", "follow"}

\* The runtime still runs its tasks.
ProcessUp == ssServe \notin {"waiting", "gone"}

ShutdownInit ==
    /\ ssServe = "permit" /\ ssSignal = FALSE /\ ssFree = MaxConnections /\ ssErrors = 0
    /\ ssConn = [c \in Conns |-> "none"]
    /\ ssThread = [c \in Conns |-> "none"]
    /\ ssTold = [c \in Conns |-> FALSE]
    /\ ssTask = [t \in Owned |-> "none"]
    /\ ssLive = 0
    /\ ssDrain = [at |-> 1, enabled |-> FALSE, woken |-> FALSE]

----------------------------------------------------------------------------
(* Accepting                                                               *)

\* acquire_owned: the permit is held across the accept.
TakeConnPermit ==
    /\ ssServe = "permit" /\ ssFree > 0
    /\ ssServe' = "accept" /\ ssFree' = ssFree - 1
    /\ UNCHANGED <<ssSignal, ssErrors, ssConn, ssThread, ssTold, ssTask, ssLive, ssDrain>>

Accept(c) ==
    /\ ssServe = "accept" /\ ssConn[c] = "backlog"
    /\ ssServe' = "permit"
    /\ ssConn' = [ssConn EXCEPT ![c] = "open"]
    /\ UNCHANGED <<ssSignal, ssFree, ssErrors, ssThread, ssTold, ssTask, ssLive, ssDrain>>

PermitBack == ssFree + 1

\* accept() fails: the permit is dropped before the pause.
AcceptFails ==
    /\ ssServe = "accept" /\ ssErrors < MaxErrors
    /\ ssServe' = "pause" /\ ssErrors' = ssErrors + 1
    /\ ssFree' = PermitBack
    /\ UNCHANGED <<ssSignal, ssConn, ssThread, ssTold, ssTask, ssLive, ssDrain>>

PauseEnds ==
    /\ ssServe = "pause" /\ ssServe' = "permit"
    /\ UNCHANGED <<ssSignal, ssFree, ssErrors, ssConn, ssThread, ssTold, ssTask, ssLive, ssDrain>>

SignalComes ==
    /\ ~ssSignal /\ ProcessUp
    /\ ssSignal' = TRUE
    /\ UNCHANGED <<ssServe, ssFree, ssErrors, ssConn, ssThread, ssTold, ssTask, ssLive, ssDrain>>

\* What the flags become when stop() runs: everything registered is told.
Registered(c) == ssThread[c] = "running"
StopAll == [c \in Conns |-> ssTold[c] \/ Registered(c)]

\* The `stop` future of run only raises the shutdown watch.
SignalLeaves == ssTold

\* `stop` resolves in either select: the listener closes, and with it the
\* connections nobody accepted.
StopAccepting ==
    /\ ssSignal /\ ssServe \in {"permit", "accept"}
    /\ ssServe' = "draining"
    /\ ssFree' = IF ssServe = "accept" THEN ssFree + 1 ELSE ssFree
    /\ ssConn' = [c \in Conns |-> IF ssConn[c] = "backlog" THEN "closed" ELSE ssConn[c]]
    /\ ssTold' = SignalLeaves
    /\ UNCHANGED <<ssSignal, ssErrors, ssThread, ssTask, ssLive, ssDrain>>

----------------------------------------------------------------------------
(* Connections and their analyses                                          *)

Connect(c) ==
    /\ ssConn[c] = "none" /\ ssServe \in {"permit", "accept", "pause"}
    /\ ssConn' = [ssConn EXCEPT ![c] = "backlog"]
    /\ UNCHANGED <<ssServe, ssSignal, ssFree, ssErrors, ssThread, ssTold, ssTask, ssLive, ssDrain>>

\* The answer is written, or the client leaves: the permit goes with the task.
Close(c) ==
    /\ ssConn[c] \in {"open", "waits", "answered"} /\ ProcessUp
    /\ ssConn' = [ssConn EXCEPT ![c] = "closed"]
    /\ ssFree' = ssFree + 1
    /\ UNCHANGED <<ssServe, ssSignal, ssErrors, ssThread, ssTold, ssTask, ssLive, ssDrain>>

\* Tasks::spawn counts before it spawns.
SpawnOwned(t) ==
    /\ ssTask' = [ssTask EXCEPT ![t] = "live"]
    /\ ssLive' = ssLive + 1

\* The request is in, its body too, and leads: lead admits it and spawns the
\* leader's task.  Nothing here asks whether the server is stopping.
SendRequest(c) ==
    /\ ssConn[c] = "open" /\ ProcessUp
    /\ ssConn' = [ssConn EXCEPT ![c] = "waits"]
    /\ SpawnOwned(Lead(c))
    /\ UNCHANGED <<ssServe, ssSignal, ssFree, ssErrors, ssThread, ssTold, ssDrain>>

\* RequestGuard::new and run: registered, and on a thread.
Register(c) ==
    /\ ssTask[Lead(c)] = "live" /\ ssThread[c] = "none" /\ ProcessUp
    /\ ssThread' = [ssThread EXCEPT ![c] = "running"]
    /\ UNCHANGED <<ssServe, ssSignal, ssFree, ssErrors, ssConn, ssTold, ssTask, ssLive, ssDrain>>

\* The blocking thread returns, whether or not it was told to; nothing stops
\* it, not even the end of the runtime.
RunReturns(c) ==
    /\ ssThread[c] = "running"
    /\ ssThread' = [ssThread EXCEPT ![c] = "returned"]
    /\ UNCHANGED <<ssServe, ssSignal, ssFree, ssErrors, ssConn, ssTold, ssTask, ssLive, ssDrain>>

\* follow: an owned task of its own takes the guard over.
FollowOwned(c) ==
    /\ ssTask' = [ssTask EXCEPT ![Follow(c)] = "live", ![Lead(c)] = "publish"]
    /\ ssLive' = ssLive + 1

\* The analysis timeout.
RunTimesOut(c) ==
    /\ ssTask[Lead(c)] = "live" /\ ssThread[c] = "running" /\ ProcessUp
    /\ ssTold' = [ssTold EXCEPT ![c] = TRUE]
    /\ FollowOwned(c)
    /\ UNCHANGED <<ssServe, ssSignal, ssFree, ssErrors, ssConn, ssThread, ssDrain>>

\* run is over: the guard drops; the verdict is filed inside the owned task.
TasksJoined(c) ==
    /\ ssTask[Lead(c)] = "live" /\ ssThread[c] = "returned" /\ ProcessUp
    /\ ssTold' = [ssTold EXCEPT ![c] = TRUE]
    /\ ssTask' = [ssTask EXCEPT ![Lead(c)] = "publish"]
    /\ UNCHANGED <<ssServe, ssSignal, ssFree, ssErrors, ssConn, ssThread, ssLive, ssDrain>>

\* The outcome is published; TaskDone is dropped next.
Publish(c) ==
    /\ ssTask[Lead(c)] = "publish" /\ ProcessUp
    /\ ssTask' = [ssTask EXCEPT ![Lead(c)] = "done"]
    /\ ssConn' = [ssConn EXCEPT ![c] = IF @ = "waits" THEN "answered" ELSE @]
    /\ UNCHANGED <<ssServe, ssSignal, ssFree, ssErrors, ssThread, ssTold, ssLive, ssDrain>>

FollowedOut(c) ==
    /\ ssTask[Follow(c)] = "live" /\ ssThread[c] = "returned" /\ ProcessUp
    /\ ssTask' = [ssTask EXCEPT ![Follow(c)] = "done"]
    /\ UNCHANGED <<ssServe, ssSignal, ssFree, ssErrors, ssConn, ssThread, ssTold, ssLive, ssDrain>>

\* TaskDone::drop: the count goes down, and the last one out then wakes the
\* waiters there are.
TaskSub(t) ==
    /\ ssTask[t] = "done" /\ ProcessUp
    /\ ssLive' = ssLive - 1
    /\ ssTask' = [ssTask EXCEPT ![t] = IF ssLive = 1 THEN "notify" ELSE "gone"]
    /\ UNCHANGED <<ssServe, ssSignal, ssFree, ssErrors, ssConn, ssThread, ssTold, ssDrain>>

TaskNotify(t) ==
    /\ ssTask[t] = "notify" /\ ProcessUp
    /\ ssTask' = [ssTask EXCEPT ![t] = "gone"]
    /\ ssDrain' = [ssDrain EXCEPT !.woken = @ \/ ssDrain.enabled]
    /\ UNCHANGED <<ssServe, ssSignal, ssFree, ssErrors, ssConn, ssThread, ssTold, ssLive>>

----------------------------------------------------------------------------
(* The end                                                                 *)

AllClosed == \A c \in Conns : ssConn[c] \in {"none", "closed"}

\* Every connection closed in the window: on to drain(), which stops first.
ConnsClosed ==
    /\ ssServe \in {"draining", "grace"} /\ AllClosed
    /\ ssServe' = "owned" /\ ssTold' = StopAll
    /\ UNCHANGED <<ssSignal, ssFree, ssErrors, ssConn, ssThread, ssTask, ssLive, ssDrain>>

\* DRAIN_TIMEOUT: overrun cancels what runs.
WindowOver ==
    /\ ssServe = "draining" /\ ~AllClosed
    /\ ssServe' = "grace" /\ ssTold' = StopAll
    /\ UNCHANGED <<ssSignal, ssFree, ssErrors, ssConn, ssThread, ssTask, ssLive, ssDrain>>

\* Mutation: the grace is waited for again while a connection is open.
GraceRestarts ==
    /\ ssServe = "grace" /\ ~AllClosed
    /\ ssTold' = StopAll
    /\ UNCHANGED <<ssServe, ssSignal, ssFree, ssErrors, ssConn, ssThread, ssTask, ssLive, ssDrain>>

\* CANCEL_GRACE: on with connections open; drain() cancels again.
GraceOver ==
    /\ ssServe = "grace" /\ ~AllClosed
    /\ ssServe' = "owned" /\ ssTold' = StopAll
    /\ UNCHANGED <<ssSignal, ssFree, ssErrors, ssConn, ssThread, ssTask, ssLive, ssDrain>>

\* drained registers the waiter, then reads the count.
DrainOrder == <<"enable", "read">>

\* One step of drained.
DrainStep ==
    /\ ssServe = "owned" /\ ssDrain.at \in {1, 2}
    /\ \/ /\ DrainOrder[ssDrain.at] = "enable"
          /\ ssDrain' = [at |-> ssDrain.at + 1, enabled |-> TRUE, woken |-> FALSE]
          /\ UNCHANGED ssServe
       \/ /\ DrainOrder[ssDrain.at] = "read" /\ ssLive = 0
          /\ ssServe' = "exit" /\ UNCHANGED ssDrain
       \/ /\ DrainOrder[ssDrain.at] = "read" /\ ssLive # 0
          /\ ssDrain' = [ssDrain EXCEPT !.at = @ + 1]
          /\ UNCHANGED ssServe
    /\ UNCHANGED <<ssSignal, ssFree, ssErrors, ssConn, ssThread, ssTold, ssTask, ssLive>>

DrainWoken ==
    /\ ssServe = "owned" /\ ssDrain.at = 3 /\ ssDrain.woken
    /\ ssDrain' = [at |-> 1, enabled |-> FALSE, woken |-> FALSE]
    /\ UNCHANGED <<ssServe, ssSignal, ssFree, ssErrors, ssConn, ssThread, ssTold, ssTask, ssLive>>

\* DRAIN_TIMEOUT again: the rest is abandoned.
DrainAbandons ==
    /\ ssServe = "owned" /\ ssDrain.at = 3
    /\ ssServe' = "exit"
    /\ UNCHANGED <<ssSignal, ssFree, ssErrors, ssConn, ssThread, ssTold, ssTask, ssLive, ssDrain>>

\* Mutation: a dropped guard tells nobody.
GuardDropsSilently == ssTold

\* RequestGuard::drop: whoever dropped the guard, the thread is told.
GuardDropTells == [c \in Conns |-> ssTold[c] \/ ssThread[c] = "running"]

\* main returns: the runtime drops every task, open connections among them,
\* and waits for the blocking threads.
RuntimeDropped ==
    /\ ssServe = "exit"
    /\ ssServe' = "waiting"
    /\ ssTask' = [t \in Owned |-> IF ssTask[t] = "none" THEN "none" ELSE "gone"]
    /\ ssConn' = [c \in Conns |-> IF ssConn[c] = "none" THEN "none" ELSE "closed"]
    /\ ssTold' = GuardDropTells
    /\ UNCHANGED <<ssSignal, ssFree, ssErrors, ssThread, ssLive, ssDrain>>

ProcessGone ==
    /\ ssServe = "waiting" /\ \A c \in Conns : ssThread[c] # "running"
    /\ ssServe' = "gone"
    /\ UNCHANGED <<ssSignal, ssFree, ssErrors, ssConn, ssThread, ssTold, ssTask, ssLive, ssDrain>>

ServerStep ==
    \/ TakeConnPermit \/ PauseEnds \/ StopAccepting \/ ConnsClosed \/ WindowOver \/ GraceOver
    \/ DrainStep \/ DrainWoken \/ DrainAbandons \/ RuntimeDropped \/ ProcessGone
    \/ \E t \in Owned : TaskSub(t) \/ TaskNotify(t)
    \/ \E c \in Conns : Accept(c) \/ Register(c) \/ TasksJoined(c) \/ Publish(c) \/ FollowedOut(c)

ShutdownNext ==
    \/ ServerStep \/ AcceptFails \/ SignalComes
    \/ \E c \in Conns : Connect(c) \/ Close(c) \/ SendRequest(c) \/ RunTimesOut(c) \/ RunReturns(c)

ShutdownSpec == ShutdownInit /\ [][ShutdownNext]_shutdownVars

\* The server's own steps and its timers go on.  A connection ends once it is
\* answered.  A thread that was told to stop notices; another may run on.
ShutdownFairness ==
    /\ WF_shutdownVars(ServerStep)
    /\ \A c \in Conns :
          /\ WF_shutdownVars(Accept(c))
          /\ WF_shutdownVars(ssConn[c] = "answered" /\ Close(c))
          /\ WF_shutdownVars(ssTold[c] /\ RunReturns(c))

ShutdownFairSpec == ShutdownSpec /\ ShutdownFairness

----------------------------------------------------------------------------
(* Properties                                                              *)

\* The permits are there: each is free, with the acceptor or with a connection.
ShutdownTypeOK ==
    ProcessUp => ssFree + (IF ssServe = "accept" THEN 1 ELSE 0)
          + Cardinality({c \in Conns : ssConn[c] \in {"open", "waits", "answered"}})
          = MaxConnections

\* Draining cannot sleep through its wake-up: when it waits with nothing left
\* to wait for, a wake-up has come or is on its way.
NoLostWakeup ==
    ssServe = "owned" /\ ssDrain.at = 3 /\ ~ssDrain.woken /\ ssLive = 0 =>
        \E t \in Owned : ssTask[t] = "notify"

\* Draining ends early only over a quiet server: at the step that reads the
\* count as zero no analysis runs, not a timed-out one either, and none has an
\* outcome to file.
DrainedIsQuiet ==
    [][ssServe = "owned" /\ ssServe' = "exit" /\ ssDrain.at # 3 =>
          \A c \in Conns :
             ssThread[c] # "running" /\ ssTask[Lead(c)] \notin {"live", "publish"}]_shutdownVars

\* An answer that can land in the window is not thrown away: until the window
\* is over, an analysis is told to stop only at its own timeout.
WindowHonored ==
    ssServe \in {"permit", "accept", "pause", "draining"} =>
        \A c \in Conns :
           ssThread[c] = "running" /\ ssTold[c] => ssTask[Lead(c)] # "live"

\* The process never waits for an analysis that was not told to stop, though a
\* request may register one after the last stop(): its guard tells it.
WaitsOnlyForTheTold ==
    ssServe = "waiting" => \A c \in Conns : ssThread[c] = "running" => ssTold[c]

\* A signal ends the process: whatever clients, timers and threads that were
\* not told to stop do.
SignalEndsServer == ssSignal ~> ssServe = "gone"

\* Whoever the server stops, waits for or leaves is told so in its time: no permit, no
\* wake-up and no analysis is forgotten between accept loop, window and drain.
ShutdownIsOrderly ==
    /\ [](ShutdownTypeOK /\ NoLostWakeup /\ WindowHonored /\ WaitsOnlyForTheTold)
    /\ DrainedIsQuiet
=============================================================================
