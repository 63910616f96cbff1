----------------------- MODULE MemoryAdmissionProofs -----------------------
(***************************************************************************)
(* Proofs about MemoryAdmission for any set of jobs, any ceiling, any      *)
(* estimate parameters and any memory readings.                            *)
(*                                                                         *)
(* The sum of the holders' estimates is the cardinality of the set Units,  *)
(* so admitting and releasing a job are facts about the union and the      *)
(* difference of finite sets, and no induction over the jobs is needed.    *)
(***************************************************************************)
EXTENDS MemoryAdmission, FiniteSetTheorems, TLAPS

\* Charging one more job, not charged before, adds exactly its estimate.
LEMMA UnitsAdd ==
    ASSUME NEW e, NEW S, NEW j, j \notin S, e[j] \in Nat,
           IsFiniteSet(UnitsOf(e, S))
    PROVE  /\ IsFiniteSet(UnitsOf(e, S \cup {j}))
           /\ Cardinality(UnitsOf(e, S \cup {j})) = Cardinality(UnitsOf(e, S)) + e[j]
<1> DEFINE U == UnitsOf(e, S)
           V == {j} \X (1 .. e[j])
<1>1. IsFiniteSet({j}) /\ Cardinality({j}) = 1
  BY FS_Singleton
<1>2. IsFiniteSet(1 .. e[j]) /\ Cardinality(1 .. e[j]) = e[j]
  <2>1. PICK n \in Nat : n = e[j]
    OBVIOUS
  <2>2. IsFiniteSet(1 .. n) /\ Cardinality(1 .. n) = n
    <3>1. (IF 1 > n THEN 0 ELSE n - 1 + 1) = n
      OBVIOUS
    <3> QED
      BY <3>1, FS_Interval
  <2> QED
    BY <2>1, <2>2
<1>3. IsFiniteSet(V) /\ Cardinality(V) = e[j]
  <2>1. IsFiniteSet(V) /\ Cardinality(V) = Cardinality({j}) * Cardinality(1 .. e[j])
    BY <1>1, <1>2, FS_Product
  <2> QED
    BY <1>1, <1>2, <2>1
<1>4. UnitsOf(e, S \cup {j}) = U \cup V
  BY DEF UnitsOf
<1>5. U \cap V = {}
  BY DEF UnitsOf
<1>6. Cardinality(U) \in Nat
  BY FS_CardinalityType
<1>7. /\ IsFiniteSet(U \cup V)
      /\ Cardinality(U \cup V) = Cardinality(U) + Cardinality(V) - Cardinality(U \cap V)
  BY <1>3, FS_Union
<1>8. Cardinality(U \cap V) = 0
  BY <1>5, FS_EmptySet
<1>9. Cardinality(U \cup V) = Cardinality(U) + e[j]
  <2> HIDE DEF U, V
  <2> QED
    BY <1>3, <1>6, <1>7, <1>8
<1> QED
  BY <1>4, <1>7, <1>9

\* Releasing a charged job takes exactly its estimate off, and its estimate
\* was at most the whole sum.
LEMMA UnitsRemove ==
    ASSUME NEW e, NEW S, NEW j \in S, e[j] \in Nat,
           IsFiniteSet(UnitsOf(e, S))
    PROVE  /\ IsFiniteSet(UnitsOf(e, S \ {j}))
           /\ Cardinality(UnitsOf(e, S)) = Cardinality(UnitsOf(e, S \ {j})) + e[j]
<1>1. UnitsOf(e, S \ {j}) \in SUBSET UnitsOf(e, S)
  BY DEF UnitsOf
<1>2. IsFiniteSet(UnitsOf(e, S \ {j}))
  BY <1>1, FS_Subset
<1>3. (S \ {j}) \cup {j} = S
  OBVIOUS
<1>4. j \notin S \ {j}
  OBVIOUS
<1> QED
  BY <1>2, <1>3, <1>4, UnitsAdd

\* With positive estimates nothing is charged only when nobody is.
LEMMA UnitsEmpty ==
    ASSUME NEW e, NEW S, \A j \in S : e[j] \in Nat \ {0},
           IsFiniteSet(UnitsOf(e, S))
    PROVE  Cardinality(UnitsOf(e, S)) = 0 <=> S = {}
<1>1. S = {} => UnitsOf(e, S) = {}
  BY DEF UnitsOf
<1>2. ASSUME NEW j \in S
      PROVE  UnitsOf(e, S) # {}
  <2>1. <<j, 1>> \in {j} \X (1 .. e[j])
    OBVIOUS
  <2> QED
    BY <2>1 DEF UnitsOf
<1> QED
  BY <1>1, <1>2, FS_EmptySet

----------------------------------------------------------------------------
\* Every estimate a job may be charged is a positive number.
LEMMA EstimatePositive == PossibleEstimates \subseteq Nat \ {0}
<1>1. ASSUME NEW archive \in BOOLEAN, NEW onDisk \in OnDiskSizes
      PROVE  DynamicEstimateBytes(archive, onDisk) \in Nat \ {0}
  <2> DEFINE bytes == IF onDisk < 0 THEN 0 ELSE onDisk
  <2>1. bytes \in Nat
    BY SizesAssumption
  <2>2. bytes * ArchiveMultiplier \in Nat
    BY <2>1, MultiplierAssumption
  <2>3. bytes * ArchiveMultiplier + FlatEstimateBytes \in Nat \ {0}
    BY <2>2, FlatAssumption
  <2> HIDE DEF bytes
  <2>4. Smaller(bytes * ArchiveMultiplier + FlatEstimateBytes, MaxArchiveBytes) \in Nat \ {0}
    BY <2>3, MaxArchiveAssumption DEF Smaller
  <2> QED
    BY <2>4, FlatAssumption DEF DynamicEstimateBytes, bytes
<1> QED
  BY <1>1, FixedAssumption DEF PossibleEstimates, EstimateBytes

\* Every step of the gate preserves the type invariant.
LEMMA TypeStep == AdmissionTypeOK /\ [AdmissionNext]_admissionVars => AdmissionTypeOK'
<1> SUFFICES ASSUME AdmissionTypeOK, [AdmissionNext]_admissionVars PROVE AdmissionTypeOK'
  OBVIOUS
<1> USE DEF AdmissionTypeOK, Pcs, Goto
<1>1. ASSUME NEW j \in Jobs, Estimated(j) PROVE AdmissionTypeOK'
  BY <1>1, EstimatePositive DEF Estimated
<1>2. ASSUME NEW j \in Jobs, Enlist(j) PROVE AdmissionTypeOK'
  BY <1>2, ReadingsAssumption DEF Enlist
<1>3. ASSUME NEW j \in Jobs, ReserveDisabled(j) PROVE AdmissionTypeOK'
  BY <1>3 DEF ReserveDisabled
<1>4. ASSUME NEW j \in Jobs, LoadReserved(j) PROVE AdmissionTypeOK'
  BY <1>4 DEF LoadReserved
<1>5. ASSUME NEW j \in Jobs, CasOk(j) PROVE AdmissionTypeOK'
  BY <1>5 DEF CasOk, Return, NoProbe
<1>6. ASSUME NEW j \in Jobs, CasFail(j) PROVE AdmissionTypeOK'
  BY <1>6 DEF CasFail
<1>7. ASSUME NEW j \in Jobs, RefuseReserve(j) PROVE AdmissionTypeOK'
  BY <1>7 DEF RefuseReserve, Return, NoProbe
<1>8. ASSUME NEW j \in Jobs, ReclaimDone(j) PROVE AdmissionTypeOK'
  BY <1>8 DEF ReclaimDone
<1>9. ASSUME NEW j \in Jobs, Woken(j) \/ Repoll(j) PROVE AdmissionTypeOK'
  BY <1>9 DEF Woken, Repoll
<1>10. ASSUME NEW j \in Jobs, Dropped(j) PROVE AdmissionTypeOK'
  BY <1>10 DEF Dropped
<1>11. ASSUME NEW j \in Jobs, List(j) PROVE AdmissionTypeOK'
  BY <1>11 DEF List
<1>12. ASSUME NEW j \in Jobs, ReleaseReserved(j) PROVE AdmissionTypeOK'
  BY <1>12 DEF ReleaseReserved, SaturatingSub
<1>13. ASSUME NEW j \in Jobs, ReleaseUnlist(j) PROVE AdmissionTypeOK'
  BY <1>13 DEF ReleaseUnlist
<1>14. ASSUME NEW j \in Jobs, ReleaseNotify(j) PROVE AdmissionTypeOK'
  BY <1>14 DEF ReleaseNotify
<1>15. CASE UNCHANGED admissionVars
  BY <1>15 DEF admissionVars
<1> QED
  BY <1>1, <1>2, <1>3, <1>4, <1>5, <1>6, <1>7, <1>8, <1>9, <1>10, <1>11,
     <1>12, <1>13, <1>14, <1>15 DEF AdmissionNext, AdmitStep, GuardDrops

\* The type invariant of the gate holds in every reachable state.
THEOREM TypeCorrect == AdmissionSpec => []AdmissionTypeOK
<1>1. AdmissionInit => AdmissionTypeOK
  BY CeilingsAssumption DEF AdmissionInit, AdmissionTypeOK, NoProbe, Pcs
<1> QED
  BY <1>1, TypeStep, PTL DEF AdmissionSpec

----------------------------------------------------------------------------
\* The inductive invariant.  The sum of the estimates must be known finite for
\* its cardinality to move by one estimate at a time; that the counter is
\* exactly that sum is what makes a counter of zero mean an idle gate, and so
\* what makes the hatch admit a single job.
IInv ==
    /\ AdmissionTypeOK
    /\ IsFiniteSet(Units)
    /\ ReservedIsSum
    /\ CeilingOrHatch

\* A counter of zero means nobody holds a reservation, and conversely.
LEMMA ZeroMeansIdle == IInv => HatchOnlyWhenIdle
<1> SUFFICES ASSUME IInv PROVE HatchOnlyWhenIdle
  OBVIOUS
<1>1. \A j \in Holders : est[j] \in Nat \ {0}
  BY DEF IInv, AdmissionTypeOK, Holders
<1> QED
  BY <1>1, UnitsEmpty DEF IInv, ReservedIsSum, HatchOnlyWhenIdle, Units

\* Initially nothing is reserved.
LEMMA InitInv == AdmissionInit => IInv
<1> SUFFICES ASSUME AdmissionInit PROVE IInv
  OBVIOUS
<1>1. AdmissionTypeOK
  BY CeilingsAssumption DEF AdmissionInit, AdmissionTypeOK, NoProbe, Pcs
<1>2. Units = {}
  BY DEF AdmissionInit, Units, UnitsOf, Holders
<1>3. IsFiniteSet(Units) /\ Cardinality(Units) = 0
  BY <1>2, FS_EmptySet
<1> QED
  BY <1>1, <1>3, CeilingsAssumption DEF IInv, AdmissionInit, ReservedIsSum, CeilingOrHatch

\* A step that leaves the holders, their estimates and the counter alone
\* preserves the invariant.
LEMMA QuietStep ==
    ASSUME IInv, AdmissionTypeOK', Holders' = Holders, ceiling' = ceiling,
           reserved' = reserved, \A j \in Holders : est'[j] = est[j]
    PROVE  IInv'
<1>1. Units' = Units
  BY DEF Units, UnitsOf
<1> QED
  BY <1>1 DEF IInv, ReservedIsSum, CeilingOrHatch

\* A step in which job j starts to hold and the counter grows by its estimate.
LEMMA ReserveStep ==
    ASSUME IInv, AdmissionTypeOK', NEW j \in Jobs, j \notin Holders,
           Holders' = Holders \cup {j}, est' = est, ceiling' = ceiling,
           reserved' = reserved + est[j],
           \/ ceiling = 0
           \/ Holders = {}
           \/ reserved + est[j] <= ceiling
    PROVE  IInv'
<1>1. est[j] \in Nat
  BY DEF IInv, AdmissionTypeOK
<1>2. Units' = UnitsOf(est, Holders \cup {j})
  BY DEF Units, UnitsOf
<1>3. /\ IsFiniteSet(Units')
      /\ Cardinality(Units') = Cardinality(Units) + est[j]
  BY <1>1, <1>2, UnitsAdd DEF IInv, Units
<1>4. ReservedIsSum'
  BY <1>3 DEF IInv, ReservedIsSum
<1>5. CeilingOrHatch'
  BY DEF CeilingOrHatch
<1> QED
  BY <1>3, <1>4, <1>5 DEF IInv

\* The step that takes job j's estimate off the counter.
LEMMA ReleaseStep ==
    ASSUME IInv, AdmissionTypeOK', NEW j \in Jobs, j \in Holders,
           Holders' = Holders \ {j}, est' = est, ceiling' = ceiling,
           reserved' = SaturatingSub(reserved, est[j])
    PROVE  IInv'
<1>1. est[j] \in Nat /\ reserved \in Nat
  BY DEF IInv, AdmissionTypeOK
<1>2. Units' = UnitsOf(est, Holders \ {j})
  BY DEF Units, UnitsOf
<1>3. /\ IsFiniteSet(Units')
      /\ Cardinality(Units) = Cardinality(Units') + est[j]
  BY <1>1, <1>2, UnitsRemove DEF IInv, Units
<1>4. Cardinality(Units') \in Nat
  BY <1>3, FS_CardinalityType
<1>5. reserved' = Cardinality(Units')
  BY <1>1, <1>3, <1>4 DEF IInv, ReservedIsSum, SaturatingSub
<1>6. reserved' <= reserved
  BY <1>1, <1>3, <1>4, <1>5 DEF IInv, ReservedIsSum
<1>7. CeilingOrHatch'
  <2> SUFFICES ASSUME ceiling # 0 PROVE reserved' <= ceiling
    BY DEF CeilingOrHatch
  <2>1. CASE reserved <= ceiling
    BY <2>1, <1>1, <1>4, <1>5, <1>6 DEF IInv, AdmissionTypeOK
  <2>2. CASE \E k \in Jobs : Holders = {k}
    <3>1. Units' = {}
      BY <2>2, <1>2 DEF UnitsOf
    <3>2. reserved' = 0
      BY <3>1, <1>5, FS_EmptySet
    <3> QED
      BY <3>2 DEF IInv, AdmissionTypeOK
  <2> QED
    BY <2>1, <2>2 DEF IInv, CeilingOrHatch
<1> QED
  BY <1>3, <1>5, <1>7 DEF IInv, ReservedIsSum

\* Every step of admit() and of the guard's drop preserves the invariant: a
\* job starts to hold in ReserveDisabled or CasOk, stops in ReleaseReserved,
\* and every other step is quiet.
LEMMA InvStep == IInv /\ [AdmissionNext]_admissionVars => IInv'
<1> SUFFICES ASSUME IInv, [AdmissionNext]_admissionVars PROVE IInv'
  OBVIOUS
<1> USE DEF Goto
<1>1. AdmissionTypeOK /\ AdmissionTypeOK'
  BY TypeStep DEF IInv
<1>2. ASSUME NEW j \in Jobs, ReserveDisabled(j) PROVE IInv'
  <2>1. j \notin Holders /\ Holders' = Holders \cup {j}
    BY <1>1, <1>2 DEF ReserveDisabled, Holders, AdmissionTypeOK
  <2> QED
    BY <2>1, <1>1, <1>2, ReserveStep DEF ReserveDisabled
<1>3. ASSUME NEW j \in Jobs, CasOk(j) PROVE IInv'
  <2>1. j \notin Holders /\ Holders' = Holders \cup {j}
    BY <1>1, <1>3 DEF CasOk, Holders, AdmissionTypeOK
  <2>2. reserved = 0 => Holders = {}
    BY ZeroMeansIdle DEF HatchOnlyWhenIdle
  <2>3. reserved # 0 => reserved + est[j] <= ceiling
    BY <1>1, <1>3 DEF CasOk, Refusal, OverReserved, AdmissionTypeOK
  <2> QED
    BY <2>1, <2>2, <2>3, <1>1, <1>3, ReserveStep DEF CasOk
<1>4. ASSUME NEW j \in Jobs, ReleaseReserved(j) PROVE IInv'
  <2>1. j \in Holders /\ Holders' = Holders \ {j}
    BY <1>1, <1>4 DEF ReleaseReserved, Holders, AdmissionTypeOK
  <2> QED
    BY <2>1, <1>1, <1>4, ReleaseStep DEF ReleaseReserved
<1>5. ASSUME NEW j \in Jobs, Estimated(j) PROVE IInv'
  <2>1. Holders' = Holders /\ j \notin Holders
    BY <1>1, <1>5 DEF Estimated, Holders, AdmissionTypeOK
  <2>2. \A k \in Holders : est'[k] = est[k]
    BY <2>1, <1>1, <1>5 DEF Estimated, Holders, AdmissionTypeOK
  <2> QED
    BY <2>1, <2>2, <1>1, <1>5, QuietStep DEF Estimated
<1>6. ASSUME NEW j \in Jobs,
             \/ Enlist(j) \/ LoadReserved(j) \/ CasFail(j) \/ RefuseReserve(j) \/ ReclaimDone(j)
             \/ Woken(j) \/ Repoll(j) \/ Dropped(j) \/ List(j)
             \/ ReleaseUnlist(j) \/ ReleaseNotify(j)
      PROVE  IInv'
  <2>1. Holders' = Holders
    BY <1>1, <1>6 DEF Enlist, LoadReserved, CasFail, RefuseReserve, ReclaimDone, Woken, Repoll,
       Dropped, List, ReleaseUnlist, ReleaseNotify, Holders, AdmissionTypeOK
  <2>2. ceiling' = ceiling /\ reserved' = reserved /\ est' = est
    BY <1>6 DEF Enlist, LoadReserved, CasFail, RefuseReserve, ReclaimDone, Woken, Repoll,
       Dropped, List, ReleaseUnlist, ReleaseNotify
  <2> QED
    BY <2>1, <2>2, <1>1, QuietStep
<1>7. CASE UNCHANGED admissionVars
  <2>1. Holders' = Holders
    BY <1>7 DEF admissionVars, Holders
  <2> QED
    BY <2>1, <1>1, <1>7, QuietStep DEF admissionVars
<1> QED
  BY <1>2, <1>3, <1>4, <1>5, <1>6, <1>7 DEF AdmissionNext, AdmitStep, GuardDrops

\* In every reachable state of the gate, for any number of racing jobs, the
\* counter is the exact sum of the held estimates, each of them positive.
THEOREM CounterExact == AdmissionSpec => []ReservedIsExact
<1>1. IInv => ReservedIsExact
  BY ZeroMeansIdle DEF IInv, ReservedIsExact
<1> QED
  BY <1>1, InitInv, InvStep, PTL DEF AdmissionSpec

\* The held estimates stay under the ceiling unless a single job came through
\* the hatch.
THEOREM CeilingKept == AdmissionSpec => []CeilingOrHatch
<1>1. IInv => CeilingOrHatch
  BY DEF IInv
<1> QED
  BY <1>1, InitInv, InvStep, PTL DEF AdmissionSpec

\* The hatch is open only while nobody holds memory.
THEOREM HatchSound == AdmissionSpec => []HatchOnlyWhenIdle
<1> QED
  BY ZeroMeansIdle, InitInv, InvStep, PTL DEF AdmissionSpec

----------------------------------------------------------------------------
\* A step that adds no unwoken sleeper, and takes away nobody who will notify.
LEMMA StillRemembered ==
    ASSUME SleepersAreRemembered, WillNotify \subseteq WillNotify',
           \A k \in Jobs : TurnedAway(k)' /\ ~notified'[k] => TurnedAway(k) /\ ~notified[k]
    PROVE  SleepersAreRemembered'
BY DEF SleepersAreRemembered

\* A look at the counter remembers whoever made it more than zero; the last statement of
\* a release is what takes a job out of those who will notify, and it wakes every
\* sleeper, and every job that may yet decide to sleep on what it has read.
LEMMA RememberedStep ==
    IInv /\ SleepersAreRemembered /\ [AdmissionNext]_admissionVars => SleepersAreRemembered'
<1> SUFFICES ASSUME IInv, SleepersAreRemembered, [AdmissionNext]_admissionVars PROVE SleepersAreRemembered'
  OBVIOUS
<1> USE DEF Goto
<1>1. /\ maPc \in [Jobs -> Pcs] /\ seen \in [Jobs -> Nat]
      /\ notified \in [Jobs -> BOOLEAN]
  BY DEF IInv, AdmissionTypeOK
<1>2. reserved # 0 => Holders # {}
  BY ZeroMeansIdle DEF HatchOnlyWhenIdle
<1>3. ASSUME NEW j \in Jobs, LoadReserved(j) \/ CasFail(j) PROVE SleepersAreRemembered'
  <2>1. /\ seen' = [seen EXCEPT ![j] = reserved] /\ notified' = notified
        /\ maPc' = [maPc EXCEPT ![j] = "cas"] /\ maPc[j] \in {"load", "cas"}
    BY <1>1, <1>3 DEF LoadReserved, CasFail
  <2>2. WillNotify' = WillNotify /\ Holders \subseteq WillNotify
    BY <1>1, <2>1 DEF WillNotify, Holders
  <2>3. CASE reserved = 0
    <3>1. \A k \in Jobs : TurnedAway(k)' => TurnedAway(k)
      BY <1>1, <2>1, <2>3 DEF TurnedAway
    <3> QED
      BY <2>1, <2>2, <3>1, StillRemembered
  <2>4. CASE reserved # 0
    BY <1>2, <2>2, <2>4 DEF SleepersAreRemembered
  <2> QED
    BY <2>3, <2>4
<1>4. ASSUME NEW j \in Jobs, ReleaseNotify(j) PROVE SleepersAreRemembered'
  <2>1. \A k \in Jobs : TurnedAway(k)' => notified'[k]
    BY <1>1, <1>4 DEF ReleaseNotify, TurnedAway, Enlisted
  <2> QED
    BY <2>1 DEF SleepersAreRemembered
<1>5. ASSUME NEW j \in Jobs,
             \/ Estimated(j) \/ Enlist(j) \/ ReserveDisabled(j) \/ CasOk(j) \/ RefuseReserve(j)
             \/ ReclaimDone(j) \/ Woken(j) \/ Repoll(j) \/ Dropped(j) \/ List(j)
             \/ ReleaseReserved(j) \/ ReleaseUnlist(j)
      PROVE  SleepersAreRemembered'
  <2>1. WillNotify \subseteq WillNotify'
    BY <1>1, <1>5 DEF Estimated, Enlist, ReserveDisabled, CasOk, RefuseReserve, ReclaimDone, Woken,
       Repoll, Dropped, List, ReleaseReserved, ReleaseUnlist, WillNotify
  <2>2. ASSUME NEW k \in Jobs, TurnedAway(k)', ~notified'[k] PROVE TurnedAway(k) /\ ~notified[k]
    BY <1>1, <1>5, <2>2 DEF Estimated, Enlist, ReserveDisabled, CasOk, RefuseReserve, Refusal,
       ReclaimDone, Woken, Repoll, Dropped, List, ReleaseReserved, ReleaseUnlist, Return, TurnedAway
  <2> QED
    BY <2>1, <2>2, StillRemembered
<1>6. CASE UNCHANGED admissionVars
  BY <1>6 DEF admissionVars, SleepersAreRemembered, TurnedAway, WillNotify
<1> QED
  BY <1>3, <1>4, <1>5, <1>6 DEF AdmissionNext, AdmitStep, GuardDrops

\* No release is missed: for any number of jobs that ask, sleep and are dropped beside
\* those that hold and release memory, an unwoken sleeper has somebody who will wake it.
THEOREM NoWakeupIsLost == AdmissionSpec => []SleepersAreRemembered
<1>1. AdmissionInit => SleepersAreRemembered
  BY DEF AdmissionInit, SleepersAreRemembered, TurnedAway
<1> QED
  BY <1>1, RememberedStep, InitInv, InvStep, PTL DEF AdmissionSpec

\* A job admitted beside others passed the live-memory checks of its call.
THEOREM ProbesBind == AdmissionSpec => ProbeBindsBesideOthers
<1> DEFINE P == \A j \in Jobs :
                  (ceiling # 0 /\ Holders # {} /\ j \in Holders' \ Holders)
                     => ~OverRss(j) /\ ~BelowFloor(j)
<1>1. IInv /\ [AdmissionNext]_admissionVars => [P]_admissionVars
  <2> SUFFICES ASSUME IInv, AdmissionNext, ceiling # 0, Holders # {},
                      NEW j \in Jobs, j \in Holders' \ Holders
               PROVE  ~OverRss(j) /\ ~BelowFloor(j)
    OBVIOUS
  <2>1. CasOk(j)
    BY DEF IInv, AdmissionTypeOK, Holders, AdmissionNext, AdmitStep, GuardDrops, Goto, Estimated, Enlist,
       ReserveDisabled, LoadReserved, CasOk, CasFail, RefuseReserve, ReclaimDone, Woken, Repoll,
       Dropped, List, ReleaseReserved, ReleaseUnlist, ReleaseNotify
  <2>2. seen[j] # 0
    BY <2>1, ZeroMeansIdle DEF CasOk, HatchOnlyWhenIdle
  <2> QED
    BY <2>1, <2>2 DEF CasOk, Refusal
<1> QED
  BY <1>1, InitInv, InvStep, PTL DEF AdmissionSpec, ProbeBindsBesideOthers

----------------------------------------------------------------------------
\* The jobs the abstract gate counts as in are the holders.
LEMMA AdmittedAreHolders == Gate!Admitted = Holders
BY DEF Gate!Admitted, Holders, StageOf

\* A job that starts to hold is a step of the abstract gate.
LEMMA GateAdmit ==
    ASSUME IInv, NEW j \in Jobs, ReserveDisabled(j) \/ CasOk(j)
    PROVE  Gate!Admit(j)
<1> USE DEF Goto
<1>1. est[j] \in Nat /\ reserved \in Nat
  BY DEF IInv, AdmissionTypeOK
<1>2. j \notin Holders /\ StageOf(maPc[j]) = "asked"
  BY DEF ReserveDisabled, CasOk, Holders, StageOf
<1>3. \/ ceiling = 0
      \/ Holders = {}
      \/ Cardinality(UnitsOf(est, Holders \cup {j})) <= ceiling
  <2>1. CASE ReserveDisabled(j)
    BY <2>1 DEF ReserveDisabled
  <2>2. CASE CasOk(j)
    <3>1. reserved = 0 => Holders = {}
      BY ZeroMeansIdle DEF HatchOnlyWhenIdle
    <3>2. reserved # 0 => reserved + est[j] <= ceiling
      BY <2>2 DEF CasOk, Refusal, OverReserved, IInv, AdmissionTypeOK
    <3>3. Cardinality(UnitsOf(est, Holders \cup {j})) = reserved + est[j]
      BY <1>1, <1>2, UnitsAdd DEF IInv, ReservedIsSum, Units
    <3> QED
      BY <3>1, <3>2, <3>3
  <2> QED
    BY <2>1, <2>2
<1>4. UnitsOf(est, Holders \cup {j}) = Gate!UnitsOf(est, Gate!Admitted \cup {j})
  BY AdmittedAreHolders DEF UnitsOf, Gate!UnitsOf
<1>5. [k \in Jobs |-> StageOf(maPc[k])]' =
        [[k \in Jobs |-> StageOf(maPc[k])] EXCEPT ![j] = "in"]
  BY DEF ReserveDisabled, CasOk, StageOf, IInv, AdmissionTypeOK
<1>6. UNCHANGED <<ceiling, est>>
  BY DEF ReserveDisabled, CasOk
<1>7. \A S : Gate!Cardinality(S) = Cardinality(S)
  BY DEF Gate!Cardinality, Cardinality
<1> QED
  BY <1>2, <1>3, <1>4, <1>5, <1>6, <1>7, AdmittedAreHolders DEF Gate!Admit

\* Every step of the detailed gate is a step of the abstract one or leaves the
\* abstract state unchanged.
LEMMA GateStep == IInv /\ [AdmissionNext]_admissionVars => [Gate!Next]_(Gate!gateVars)
<1> SUFFICES ASSUME IInv, [AdmissionNext]_admissionVars PROVE [Gate!Next]_(Gate!gateVars)
  OBVIOUS
<1> USE DEF Goto, Gate!gateVars
<1> DEFINE stage == [k \in Jobs |-> StageOf(maPc[k])]
<1>1. maPc \in [Jobs -> Pcs] /\ est \in [Jobs -> Nat]
  BY DEF IInv, AdmissionTypeOK
<1>2. ASSUME NEW j \in Jobs, ReserveDisabled(j) \/ CasOk(j) PROVE Gate!Next
  BY <1>2, GateAdmit DEF Gate!Next
<1>3. ASSUME NEW j \in Jobs, Estimated(j) PROVE Gate!Ask(j)
  <2>1. stage' = [stage EXCEPT ![j] = "asked"] /\ stage[j] = "new"
    BY <1>1, <1>3 DEF Estimated, StageOf
  <2> QED
    BY <2>1, <1>3 DEF Estimated, Gate!Ask
<1>4. ASSUME NEW j \in Jobs, ReleaseReserved(j) \/ Dropped(j) PROVE Gate!Leave(j)
  <2>1. stage' = [stage EXCEPT ![j] = "out"] /\ stage[j] \in {"asked", "in"}
    BY <1>1, <1>4 DEF ReleaseReserved, Dropped, StageOf
  <2> QED
    BY <2>1, <1>4 DEF ReleaseReserved, Dropped, Gate!Leave
<1>5. ASSUME NEW j \in Jobs,
             \/ Enlist(j) \/ LoadReserved(j) \/ CasFail(j) \/ RefuseReserve(j) \/ ReclaimDone(j)
             \/ Woken(j) \/ Repoll(j) \/ List(j)
             \/ ReleaseUnlist(j) \/ ReleaseNotify(j)
      PROVE  UNCHANGED <<ceiling, est, stage>>
  <2>1. stage' = stage
    BY <1>1, <1>5 DEF Enlist, LoadReserved, CasFail, RefuseReserve, ReclaimDone, Woken, Repoll,
       List, ReleaseUnlist, ReleaseNotify, StageOf
  <2> QED
    BY <2>1, <1>5 DEF Enlist, LoadReserved, CasFail, RefuseReserve, ReclaimDone, Woken, Repoll,
       List, ReleaseUnlist, ReleaseNotify
<1>6. CASE UNCHANGED admissionVars
  BY <1>6 DEF admissionVars
<1> QED
  BY <1>2, <1>3, <1>4, <1>5, <1>6 DEF AdmissionNext, AdmitStep, GuardDrops, Gate!Next

\* The compare-and-swap loop with its wake-ups implements one-step admission,
\* for every set of jobs and every ceiling.
THEOREM Refinement == AdmissionSpec => ImplementsGate
<1>1. AdmissionInit => Gate!Init
  BY CeilingsAssumption DEF AdmissionInit, Gate!Init, StageOf
<1> QED
  BY <1>1, GateStep, InitInv, InvStep, PTL DEF AdmissionSpec, ImplementsGate, Gate!Spec
=============================================================================
