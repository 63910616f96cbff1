-------------------------- MODULE MCWorkerPipeline --------------------------
(* Small instances of WorkerPipeline for TLC: one permit in each lane.      *)
EXTENDS WorkerPipeline, TLC

MCLanePermits == [l \in Lanes |-> 1]

\* Jobs of one lane are interchangeable, and so are the slots.
Symmetry ==
    Permutations(SmallJobs) \cup Permutations(Jobs \ SmallJobs) \cup Permutations(Slots)
=============================================================================
