---------------------------- MODULE MCServerLive ----------------------------
(* What the server promises to end: its flights, the answers on a stream,  *)
(* its shutdown, its idle worker, and the waits for the memory that server *)
(* and worker share, on small instances side by side.  A behaviour picks   *)
(* one of them and takes steps of that one only, under that one's own      *)
(* fairness, so the states are the sum of theirs.                          *)
EXTENDS MCAnalysisFlights, ServerShutdown, IdleWorker, StreamedAnswer, MCMemoryAdmission

MCName == {[field |-> "purl", key |-> "normalized", asked |-> "typed"]}

VARIABLE part

liveVars == <<vars, shutdownVars, idleVars, streamVars, admissionVars, part>>

LiveInit ==
    /\ part \in {"flights", "shutdown", "idle", "stream", "admission"}
    /\ Init /\ ShutdownInit /\ IdleInit /\ StreamInit /\ AdmissionInit

LiveNext ==
    /\ UNCHANGED part
    /\ \/ /\ part = "flights" /\ Next
          /\ UNCHANGED <<shutdownVars, idleVars, streamVars, admissionVars>>
       \/ /\ part = "shutdown" /\ ShutdownNext
          /\ UNCHANGED <<vars, idleVars, streamVars, admissionVars>>
       \/ /\ part = "idle" /\ IdleNext
          /\ UNCHANGED <<vars, shutdownVars, streamVars, admissionVars>>
       \/ /\ part = "stream" /\ StreamNext
          /\ UNCHANGED <<vars, shutdownVars, idleVars, admissionVars>>
       \/ /\ part = "admission" /\ AdmissionNext
          /\ UNCHANGED <<vars, shutdownVars, idleVars, streamVars>>

\* Fairness, ShutdownFairness, IdleFairness, StreamFairness and AdmissionFairness, in the
\* behaviours that pick each.
LiveFairness ==
    /\ \A r \in Requests :
          /\ WF_vars(part = "flights" /\ Attends(r))
          /\ WF_vars(part = "flights" /\ Proceeds(r))
          /\ WF_vars(part = "flights" /\ OrphanReaped(r))
    /\ WF_shutdownVars(part = "shutdown" /\ ServerStep)
    /\ \A c \in Conns :
          /\ WF_shutdownVars(part = "shutdown" /\ Accept(c))
          /\ WF_shutdownVars(part = "shutdown" /\ ssConn[c] = "answered" /\ Close(c))
          /\ WF_shutdownVars(part = "shutdown" /\ ssTold[c] /\ RunReturns(c))
    /\ WF_idleVars(part = "idle" /\ Supervisor) /\ SF_idleVars(part = "idle" /\ Prepare)
    /\ WF_idleVars(part = "idle" /\ Exec) /\ WF_idleVars(part = "idle" /\ StrayExits)
    /\ WF_idleVars(part = "idle" /\ Restart)
    /\ \A r \in Analyses : WF_idleVars(part = "idle" /\ Leave(r))
    /\ \A c \in Riders : WF_streamVars(part = "stream" /\ Serve(c))
    /\ \A j \in Jobs : WF_admissionVars(part = "admission" /\ Scheduled(j))

LiveSpec == LiveInit /\ [][LiveNext]_liveVars /\ LiveFairness

\* However often the idle worker dies or the server exits, and whatever either leaves in
\* the cgroup, the supervisor gets another one running, unless it spawns it into a frozen one.
IdleWorkerComesBack == part = "idle" => WorkerComesBackUnlessFrozen

\* Every attached request is answered, a stream without a reader lets its run go, and
\* what a run holds comes back when its thread does.
FlightsEnd == EveryRequestAnswered /\ CoreReturned /\ GoneIsLetGo
=============================================================================
