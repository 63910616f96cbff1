--------------------------- MODULE MCHopperParts ---------------------------
(* What the server and the worker ask of hopper and do with its answers,    *)
(* and the scratch trees that both make, on small instances side by side: a *)
(* behaviour picks one component and takes steps of that one only, so that  *)
(* the states are the sum of theirs and each behaves as it does alone.      *)
EXTENDS CorpusReads, JobSource, ResultPosts, WorkerTelemetry, ScratchTrees, MCLocalIndex, TLC

CONSTANTS
    r1, r2,                   \* readers, claims, hands, processes
    p0,                       \* a third process
    sighted, small, mid, big  \* jobs of the source

MCSymmetry == Permutations({r1, r2})

MCAddresses == <<"replica", "primary">>

MCJobSize == [j \in Rows |-> CASE j = small -> 1 [] j = big -> 3 [] OTHER -> 2]

MCOutcomes == {
    [kind |-> "failed", opinion |-> "no", deps |-> FALSE],
    [kind |-> "verdict", opinion |-> "required", deps |-> TRUE],
    [kind |-> "verdict", opinion |-> "optional", deps |-> FALSE]}

VARIABLE part

partVars ==
    <<crVars, sourceVars, postVars, metricVars, analysisTimeVars, indexVars,
      scratchVars, part>>

PartsInit ==
    /\ part \in {"corpus", "source", "posts", "metrics", "times", "index", "scratch"}
    /\ CorpusInit /\ SourceInit /\ PostsInit /\ MetricsInit /\ AnalysisTimeInit /\ IndexInit
    /\ ScratchInit
    /\ part # "source" => jsOrder = "fifo"
    /\ part # "index" => \A f \in DOMAIN liFile : liFile[f].bytes = d1

PartsNext ==
    /\ UNCHANGED part
    /\ \/ /\ part = "corpus" /\ CorpusNext
          /\ UNCHANGED <<sourceVars, postVars, metricVars, analysisTimeVars, indexVars, scratchVars>>
       \/ /\ part = "source" /\ SourceNext
          /\ UNCHANGED <<crVars, postVars, metricVars, analysisTimeVars, indexVars, scratchVars>>
       \/ /\ part = "posts" /\ PostsNext
          /\ UNCHANGED <<crVars, sourceVars, metricVars, analysisTimeVars, indexVars, scratchVars>>
       \/ /\ part = "metrics" /\ MetricsNext
          /\ UNCHANGED <<crVars, sourceVars, postVars, analysisTimeVars, indexVars, scratchVars>>
       \/ /\ part = "times" /\ AnalysisTimeNext
          /\ UNCHANGED <<crVars, sourceVars, postVars, metricVars, indexVars, scratchVars>>
       \/ /\ part = "index" /\ IndexNext
          /\ UNCHANGED <<crVars, sourceVars, postVars, metricVars, analysisTimeVars, scratchVars>>
       \/ /\ part = "scratch" /\ ScratchNext
          /\ UNCHANGED <<crVars, sourceVars, postVars, metricVars, analysisTimeVars, indexVars>>

PartsSpec == PartsInit /\ [][PartsNext]_partVars
=============================================================================
