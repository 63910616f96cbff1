--------------------------- MODULE AdmissionGate ---------------------------
(***************************************************************************)
(* What the memory admission gate of src/src/admission.rs promises to the  *)
(* analyses that go through it, with the counter, the compare-and-swap     *)
(* loop and the wake-ups left out: a job is admitted in one atomic step,   *)
(* only when nothing else holds memory (the forward-progress hatch) or     *)
(* when every estimate admitted so far still fits under the ceiling.       *)
(* MemoryAdmission is shown to implement this specification.               *)
(***************************************************************************)
EXTENDS Naturals, FiniteSets

CONSTANTS
    Jobs,       \* analyses that ask for admission
    Estimates   \* footprints a job may be charged, in units of memory

VARIABLES
    ceiling,    \* the configured ceiling; 0 disables the gate
    est,        \* est[j]: what job j is charged (0 until it asks)
    stage       \* stage[j]: where job j stands

gateVars == <<ceiling, est, stage>>

\* The units of memory charged to the jobs of S, one element per unit: the
\* sum of their estimates is the cardinality of this set.
UnitsOf(e, S) == UNION {{j} \X (1 .. e[j]) : j \in S}

Admitted == {j \in Jobs : stage[j] = "in"}

Init ==
    /\ ceiling \in Nat
    /\ est = [j \in Jobs |-> 0]
    /\ stage = [j \in Jobs |-> "new"]

Ask(j) ==
    /\ stage[j] = "new"
    /\ \E e \in Estimates : est' = [est EXCEPT ![j] = e]
    /\ stage' = [stage EXCEPT ![j] = "asked"]
    /\ UNCHANGED ceiling

Admit(j) ==
    /\ stage[j] = "asked"
    /\ \/ ceiling = 0
       \/ Admitted = {}
       \/ Cardinality(UnitsOf(est, Admitted \cup {j})) <= ceiling
    /\ stage' = [stage EXCEPT ![j] = "in"]
    /\ UNCHANGED <<ceiling, est>>

\* A job leaves by finishing, or by being dropped while it still waits.
Leave(j) ==
    /\ stage[j] \in {"asked", "in"}
    /\ stage' = [stage EXCEPT ![j] = "out"]
    /\ UNCHANGED <<ceiling, est>>

Next == \E j \in Jobs : Ask(j) \/ Admit(j) \/ Leave(j)

Spec == Init /\ [][Next]_gateVars
=============================================================================
