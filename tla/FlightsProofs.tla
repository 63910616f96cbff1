--------------------------- MODULE FlightsProofs ---------------------------
(***************************************************************************)
(* That single-flight analyses are exact for any requests, keys, workers   *)
(* and cores.  The inductive invariant says where a flight is registered,  *)
(* where a request belongs, what a flight holds at each stage, and that    *)
(* every counter is the size of the set it stands for: the requests        *)
(* attached to a registered flight, the holders of a core, of each lane's  *)
(* slots, and the threads that outlived their timeout.                     *)
(***************************************************************************)
EXTENDS AnalysisFlights, FiniteSetTheorems, TLAPS

Joinable == {"slot", "core", "spawned", "running", "filing", "retire"}
Late     == {"retire", "send", "settled"}

\* The requests attached to a flight, what holds cores and slots, and the orphans.
Members(f) == {r \in Requests : flight[r] = f}
OnCore     == {f \in Requests : core[f]}
InLane(l)  == {f \in Requests : lane[f] = l}
Orphaned   == {f \in Requests : stage[f] \in Late /\ thread[f] # "none"}

\* The registry holds a flight under its key, from registration to retirement.
RegistryInv ==
    /\ \A k \in Keys : live[k] # None => key[live[k]] = k /\ stage[live[k]] \in Joinable
    /\ \A f \in Requests : stage[f] \in Joinable => key[f] \in Keys /\ live[key[f]] = f

\* What a request has according to where it is.
RequestInv ==
    \A r \in Requests :
        /\ pc[r] # "new" => key[r] \in Keys
        /\ pc[r] \in {"new", "checked", "refused"} => stage[r] = "none"
        /\ stage[r] \in {"slot", "core"} => pc[r] = "leading"
        /\ pc[r] \in {"leading", "waiting"} <=> flight[r] # None
        /\ flight[r] # None => stage[flight[r]] # "none" /\ key[flight[r]] = key[r]

CountInv ==
    /\ \A f \in Requests : IsFiniteSet(Members(f))
    /\ \A k \in Keys : live[k] # None => attached[k] = Cardinality(Members(live[k]))

\* Where a flight is says what it holds: nothing before its slot, its slot and then its
\* core until its guard drops, which follows the thread when the leader goes on.
HoldsInv ==
    \A f \in Requests :
        /\ stage[f] \in {"none", "slot", "filing"} => lane[f] = "none"
        /\ stage[f] = "core" => lane[f] # "none" /\ ~core[f]
        /\ stage[f] \in {"spawned", "running"} => core[f]
        /\ thread[f] # "none" => core[f] /\ stage[f] \in {"running"} \cup Late
        /\ core[f] => lane[f] # "none"
        /\ lane[f] # "none" => core[f] \/ stage[f] = "core"

\* What a flight has for those who wait for it, and who leads it.
AnswerInv ==
    \A f \in Requests :
        /\ stage[f] = "settled" => outcome[f] # "none"
        /\ stage[f] \in {"retire", "send"} => pending[f] # "none"
        /\ stage[f] = "running" => thread[f] # "none"
        /\ pc[f] = "leading" => flight[f] = f /\ stage[f] \in {"slot", "core", "retire", "send"}
        /\ core[f] => thread[f] # "none" \/ stage[f] = "spawned"

CoresExact == IsFiniteSet(OnCore) /\ freeCores + Cardinality(OnCore) = Cores

LanesExact ==
    \A l \in Lanes : IsFiniteSet(InLane(l)) /\ free[l] + Cardinality(InLane(l)) = LaneSize[l]

OrphansExact == IsFiniteSet(Orphaned) /\ orphans = Cardinality(Orphaned)

FlightsInv ==
    /\ TypeOK /\ RegistryInv /\ RequestInv /\ CountInv /\ HoldsInv /\ AnswerInv
    /\ CoresExact /\ LanesExact /\ OrphansExact

----------------------------------------------------------------------------
(* Counting                                                                *)

\* An element that joins a finite set is counted once.
LEMMA CountAdd ==
    ASSUME NEW S, NEW x, IsFiniteSet(S), x \notin S
    PROVE  /\ IsFiniteSet(S \cup {x})
           /\ Cardinality(S \cup {x}) = Cardinality(S) + 1
           /\ Cardinality(S) \in Nat
BY FS_AddElement, FS_CardinalityType

\* One that leaves it was counted once.
LEMMA CountRemove ==
    ASSUME NEW S, NEW x \in S, IsFiniteSet(S)
    PROVE  /\ IsFiniteSet(S \ {x})
           /\ Cardinality(S) = Cardinality(S \ {x}) + 1
           /\ Cardinality(S \ {x}) \in Nat
<1>1. IsFiniteSet(S \ {x}) /\ Cardinality(S \ {x}) = Cardinality(S) - 1
  BY FS_RemoveElement
<1>2. Cardinality(S) \in Nat /\ Cardinality(S \ {x}) \in Nat
  BY <1>1, FS_CardinalityType
<1> QED
  BY <1>1, <1>2

\* The sizes of the lanes are numbers, and add up to the workers wherever two lanes of one
\* slot each fit into them.
LEMMA LaneSizes ==
    /\ LaneSize \in [Lanes -> Nat]
    /\ (LanesOn => Workers >= 2) =>
          LaneSize["flat"] + LaneSize["small"] + LaneSize["whale"] = Workers
<1> USE CountsAssumption, FlagsAssumption
<1>1. /\ LaneSize["flat"] = IF LanesOn THEN 0 ELSE Workers
      /\ LaneSize["small"] = IF LanesOn THEN AtLeast(Workers - WhalePermits, 1) ELSE 0
      /\ LaneSize["whale"] = IF LanesOn THEN WhalePermits ELSE 0
  BY DEF LaneSize, Lanes
<1>2. /\ WhalePermits \in Nat /\ WhalePermits <= Workers
      /\ Workers >= 2 => WhalePermits <= Workers - 1
  BY DEF WhalePermits, AtMost
<1>3. AtLeast(Workers - WhalePermits, 1) \in Nat
  BY <1>2 DEF AtLeast
<1>4. Workers >= 2 => AtLeast(Workers - WhalePermits, 1) = Workers - WhalePermits
  BY <1>2 DEF AtLeast
<1>5. \A l \in Lanes : LaneSize[l] \in Nat
  BY <1>1, <1>2, <1>3 DEF Lanes
<1>6. LaneSize \in [Lanes -> Nat]
  BY <1>5 DEF LaneSize
<1> QED
  BY <1>1, <1>2, <1>4, <1>6

\* A core that is taken, and one that is given back.
LEMMA CoreTaken ==
    ASSUME TypeOK, CoresExact, NEW f \in Requests, ~core[f],
           freeCores' = freeCores - 1, core' = [core EXCEPT ![f] = TRUE]
    PROVE  CoresExact'
<1>1. OnCore' = OnCore \cup {f} /\ f \notin OnCore
  BY DEF OnCore, TypeOK
<1>2. IsFiniteSet(OnCore') /\ Cardinality(OnCore') = Cardinality(OnCore) + 1
      /\ Cardinality(OnCore) \in Nat
  BY <1>1, CountAdd DEF CoresExact
<1>3. freeCores \in Nat /\ freeCores + Cardinality(OnCore) = Cores
  BY DEF CoresExact, TypeOK
<1> QED
  BY <1>2, <1>3 DEF CoresExact

LEMMA CoreGivenBack ==
    ASSUME TypeOK, CoresExact, NEW f \in Requests, core[f],
           freeCores' = freeCores + 1, core' = [core EXCEPT ![f] = FALSE]
    PROVE  CoresExact'
<1>1. OnCore' = OnCore \ {f} /\ f \in OnCore
  BY DEF OnCore, TypeOK
<1>2. IsFiniteSet(OnCore') /\ Cardinality(OnCore) = Cardinality(OnCore') + 1
      /\ Cardinality(OnCore') \in Nat
  BY <1>1, CountRemove DEF CoresExact
<1>3. freeCores \in Nat /\ freeCores + Cardinality(OnCore) = Cores
  BY DEF CoresExact, TypeOK
<1> QED
  BY <1>2, <1>3 DEF CoresExact

\* A slot that is taken, and one that is given back.
LEMMA SlotTaken ==
    ASSUME TypeOK, LanesExact, NEW f \in Requests, NEW l \in Lanes, lane[f] = "none",
           free' = [free EXCEPT ![l] = @ - 1], lane' = [lane EXCEPT ![f] = l]
    PROVE  LanesExact'
<1>1. "none" \notin Lanes /\ free \in [Lanes -> Nat]
      /\ lane \in [Requests -> Lanes \cup {"none"}]
  BY DEF Lanes, TypeOK
<1>2. InLane(l)' = InLane(l) \cup {f} /\ f \notin InLane(l)
  BY <1>1 DEF InLane
<1>3. \A m \in Lanes : m # l => InLane(m)' = InLane(m) /\ free'[m] = free[m]
  BY <1>1 DEF InLane
<1>4. IsFiniteSet(InLane(l)') /\ Cardinality(InLane(l)') = Cardinality(InLane(l)) + 1
      /\ Cardinality(InLane(l)) \in Nat
  BY <1>2, CountAdd DEF LanesExact
<1>5. free'[l] = free[l] - 1 /\ free[l] \in Nat
      /\ free[l] + Cardinality(InLane(l)) = LaneSize[l]
  BY <1>1 DEF LanesExact
<1>6. free'[l] + Cardinality(InLane(l)') = LaneSize[l]
  BY <1>4, <1>5
<1> QED
  BY <1>3, <1>4, <1>6 DEF LanesExact

LEMMA SlotGivenBack ==
    ASSUME TypeOK, LanesExact, NEW f \in Requests, NEW l \in Lanes, lane[f] = l,
           free' = [free EXCEPT ![l] = @ + 1], lane' = [lane EXCEPT ![f] = "none"]
    PROVE  LanesExact'
<1>1. "none" \notin Lanes /\ free \in [Lanes -> Nat]
      /\ lane \in [Requests -> Lanes \cup {"none"}]
  BY DEF Lanes, TypeOK
<1>2. InLane(l)' = InLane(l) \ {f} /\ f \in InLane(l)
  BY <1>1 DEF InLane
<1>3. \A m \in Lanes : m # l => InLane(m)' = InLane(m) /\ free'[m] = free[m]
  BY <1>1 DEF InLane
<1>4. IsFiniteSet(InLane(l)') /\ Cardinality(InLane(l)) = Cardinality(InLane(l)') + 1
      /\ Cardinality(InLane(l)') \in Nat
  BY <1>2, CountRemove DEF LanesExact
<1>5. free'[l] = free[l] + 1 /\ free[l] \in Nat
      /\ free[l] + Cardinality(InLane(l)) = LaneSize[l]
  BY <1>1 DEF LanesExact
<1>6. free'[l] + Cardinality(InLane(l)') = LaneSize[l]
  BY <1>4, <1>5
<1> QED
  BY <1>3, <1>4, <1>6 DEF LanesExact

\* A guard that drops gives both back, and its fields keep their types.
LEMMA GuardDropped ==
    ASSUME TypeOK, HoldsInv, CoresExact, LanesExact, NEW f \in Requests, core[f], DropGuard(f)
    PROVE  /\ CoresExact' /\ LanesExact'
           /\ lane' \in [Requests -> Lanes \cup {"none"}] /\ core' \in [Requests -> BOOLEAN]
           /\ free' \in [Lanes -> Nat] /\ freeCores' \in Nat
<1>1. lane[f] \in Lanes
  BY DEF HoldsInv, TypeOK
<1>2. CoresExact'
  BY CoreGivenBack DEF DropGuard
<1>3. LanesExact'
  BY <1>1, SlotGivenBack DEF DropGuard
<1> QED
  BY <1>1, <1>2, <1>3 DEF DropGuard, TypeOK

----------------------------------------------------------------------------
(* The steps                                                               *)

\* An attachment that is dropped is counted out, of a flight it belongs to and of no other.
LEMMA DetachCounts ==
    ASSUME FlightsInv, NEW r \in Requests, flight[r] # None, Detach(r)
    PROVE  CountInv' /\ attached' \in [Keys -> Nat]
<1> DEFINE f == flight[r]
           k == key[r]
<1>1. /\ f \in Requests /\ k \in Keys
      /\ flight \in [Requests -> Requests \cup {None}] /\ attached \in [Keys -> Nat]
      /\ live \in [Keys -> Requests \cup {None}] /\ live' = live
  BY DEF FlightsInv, TypeOK, RequestInv, Detach
<1>2. /\ {x \in Requests : flight'[x] = f} = Members(f) \ {r}
      /\ r \in Members(f)
      /\ \A g \in Requests : g # f => {x \in Requests : flight'[x] = g} = Members(g)
  BY <1>1, NoneAssumption DEF Members, Detach
<1>3. /\ IsFiniteSet(Members(f) \ {r})
      /\ Cardinality(Members(f)) = Cardinality(Members(f) \ {r}) + 1
      /\ Cardinality(Members(f) \ {r}) \in Nat
  BY <1>1, <1>2, CountRemove DEF FlightsInv, CountInv
<1>4. \A g \in Requests : IsFiniteSet(Members(g)')
  BY <1>2, <1>3 DEF FlightsInv, CountInv, Members
<1>5. \A j \in Keys : live[j] = f => j = k
  BY <1>1, NoneAssumption DEF FlightsInv, RegistryInv, RequestInv
<1>6. live[k] = f => attached'[k] = Cardinality(Members(f) \ {r})
  BY <1>1, <1>3, NoneAssumption DEF FlightsInv, CountInv, Detach
<1>7. \A j \in Keys : live[j] # f => attached'[j] = attached[j]
  BY <1>1 DEF Detach
<1>8. attached' \in [Keys -> Nat]
  BY <1>1, <1>3, <1>5, <1>6, <1>7 DEF Detach
<1>9. ASSUME NEW j \in Keys, live'[j] # None PROVE attached'[j] = Cardinality(Members(live[j])')
  <2>1. CASE live[j] = f
    BY <1>1, <1>2, <1>5, <1>6, <2>1 DEF Members
  <2>2. CASE live[j] # f
    BY <1>1, <1>2, <1>7, <1>9, <2>2 DEF Members, FlightsInv, CountInv
  <2> QED
    BY <2>1, <2>2
<1> QED
  BY <1>1, <1>4, <1>8, <1>9 DEF CountInv

\* Types of the flights, the capacity and the queries, step by step.
LEMMA TypeStep == FlightsInv /\ [Next]_vars => TypeOK'
<1> SUFFICES ASSUME FlightsInv, [Next]_vars PROVE TypeOK'
  OBVIOUS
<1>0. TypeOK /\ HoldsInv /\ CoresExact /\ LanesExact
  BY DEF FlightsInv
<1>1. ASSUME NEW r \in Requests, NEW k \in Keys, Preflight(r, k) PROVE TypeOK'
  BY <1>0, <1>1 DEF Preflight, TypeOK, regVars, runVars, capVars
<1>2. ASSUME NEW r \in Requests, JoinFollow(r) PROVE TypeOK'
  <2>1. key[r] \in Keys
    BY <1>2 DEF FlightsInv, RequestInv, JoinFollow
  <2> QED
    BY <1>0, <1>2, <2>1 DEF JoinFollow, TypeOK, runVars, capVars
<1>3. ASSUME NEW r \in Requests, JoinLead(r) PROVE TypeOK'
  BY <1>0, <1>3 DEF JoinLead, TypeOK, capVars
<1>4. ASSUME NEW r \in Requests, Answer(r) \/ HangUp(r) PROVE TypeOK'
  <2>1. flight[r] # None /\ Detach(r)
    BY <1>4 DEF FlightsInv, RequestInv, Answer, HangUp
  <2>2. attached' \in [Keys -> Nat]
    BY <2>1, DetachCounts
  <2> QED
    BY <1>0, <1>4, <2>2 DEF Answer, HangUp, Detach, TypeOK, runVars, capVars
<1>5. ASSUME NEW f \in Requests, RefuseLoading(f) PROVE TypeOK'
  BY <1>0, <1>5 DEF RefuseLoading, TypeOK, Outcomes, regVars, capVars
<1>6. ASSUME NEW f \in Requests, TakeSlot(f) PROVE TypeOK'
  <2>1. LaneOf(key[f]) \in Lanes
    BY DEF LaneOf, Lanes
  <2>2. /\ lane' \in [Requests -> Lanes \cup {"none"}] /\ free' \in [Lanes -> Nat]
    BY <1>0, <1>6, <2>1 DEF TakeSlot, TypeOK
  <2>3. pending' \in [Requests -> Outcomes]
    BY <1>0, <1>6 DEF TakeSlot, TypeOK, Outcomes
  <2>4. stage' = [stage EXCEPT ![f] = "core"] \/ stage' = [stage EXCEPT ![f] = "retire"]
    BY <1>6 DEF TakeSlot
  <2> QED
    BY <1>0, <1>6, <2>2, <2>3, <2>4 DEF TakeSlot, TypeOK, regVars
<1>7. ASSUME NEW f \in Requests, TakeCore(f) PROVE TypeOK'
  <2>1. lane[f] \in Lanes
    BY <1>0, <1>7 DEF TakeCore, HoldsInv, TypeOK
  <2>2. /\ lane' \in [Requests -> Lanes \cup {"none"}] /\ free' \in [Lanes -> Nat]
        /\ core' \in [Requests -> BOOLEAN] /\ freeCores' \in Nat
    <3>1. CASE freeCores > 0
      <4>1. /\ UNCHANGED <<free, lane>> /\ freeCores' = freeCores - 1
            /\ core' = [core EXCEPT ![f] = TRUE]
        BY <1>7, <3>1 DEF TakeCore
      <4> QED
        BY <1>0, <3>1, <4>1 DEF TypeOK
    <3>2. CASE ~(freeCores > 0)
      <4>1. free' = [free EXCEPT ![lane[f]] = @ + 1] /\ free[lane[f]] + 1 \in Nat
        BY <1>0, <1>7, <2>1, <3>2 DEF TakeCore, TypeOK
      <4>2. lane' = [lane EXCEPT ![f] = "none"] /\ UNCHANGED <<core, freeCores>>
        BY <1>7, <3>2 DEF TakeCore
      <4> QED
        BY <1>0, <4>1, <4>2 DEF TypeOK
    <3> QED
      BY <3>1, <3>2
  <2>3. pending' \in [Requests -> Outcomes]
    BY <1>0, <1>7 DEF TakeCore, TypeOK, Outcomes
  <2>4. /\ stage' = [stage EXCEPT ![f] = "spawned"] \/ stage' = [stage EXCEPT ![f] = "retire"]
        /\ pc' = [pc EXCEPT ![f] = "waiting"] \/ pc' = pc
    BY <1>7 DEF TakeCore
  <2> QED
    BY <1>0, <1>7, <2>2, <2>3, <2>4 DEF TakeCore, TypeOK, regVars
<1>8. ASSUME NEW f \in Requests, Start(f) \/ ThreadReturns(f) PROVE TypeOK'
  <2>1. CASE Start(f)
    BY <1>0, <2>1 DEF Start, TypeOK, regVars, capVars
  <2>2. CASE ThreadReturns(f)
    BY <1>0, <2>2 DEF ThreadReturns, TypeOK, regVars, capVars
  <2> QED
    BY <1>8, <2>1, <2>2
<1>9. ASSUME NEW f \in Requests, Joined(f) PROVE TypeOK'
  <2>1. core[f] /\ DropGuard(f)
    BY <1>0, <1>9 DEF Joined, HoldsInv
  <2>2. /\ lane' \in [Requests -> Lanes \cup {"none"}] /\ core' \in [Requests -> BOOLEAN]
        /\ free' \in [Lanes -> Nat] /\ freeCores' \in Nat
    BY <1>0, <2>1, GuardDropped
  <2>3. pending' \in [Requests -> Outcomes]
    BY <1>0, <1>9 DEF Joined, TypeOK, Outcomes
  <2>4. stage' = [stage EXCEPT ![f] = "filing"] \/ stage' = [stage EXCEPT ![f] = "retire"]
    BY <1>9 DEF Joined
  <2> QED
    BY <1>0, <1>9, <2>2, <2>3, <2>4 DEF Joined, TypeOK, regVars
<1>10. ASSUME NEW f \in Requests, TimesOut(f) PROVE TypeOK'
  BY <1>0, <1>10 DEF TimesOut, TypeOK, Outcomes, regVars, capVars
<1>11. ASSUME NEW f \in Requests, OrphanReaped(f) PROVE TypeOK'
  <2>1. core[f] /\ DropGuard(f)
    BY <1>0, <1>11 DEF OrphanReaped, HoldsInv
  <2>2. /\ lane' \in [Requests -> Lanes \cup {"none"}] /\ core' \in [Requests -> BOOLEAN]
        /\ free' \in [Lanes -> Nat] /\ freeCores' \in Nat
    BY <1>0, <2>1, GuardDropped
  <2>3. f \in Orphaned
    BY <1>11 DEF OrphanReaped, Orphaned, Late
  <2>4. orphans - 1 \in Nat
    <3>1. IsFiniteSet(Orphaned) /\ orphans = Cardinality(Orphaned)
      BY DEF FlightsInv, OrphansExact
    <3>2. /\ Cardinality(Orphaned) = Cardinality(Orphaned \ {f}) + 1
          /\ Cardinality(Orphaned \ {f}) \in Nat
      BY <2>3, <3>1, CountRemove
    <3> QED
      BY <3>1, <3>2
  <2> QED
    BY <1>0, <1>11, <2>2, <2>4 DEF OrphanReaped, TypeOK, regVars
<1>12. ASSUME NEW f \in Requests, File(f) \/ Abandoned(f) PROVE TypeOK'
  <2>1. ArtifactOf[key[f]] \in Artifacts
    <3>1. key[f] \in Keys
      BY <1>12 DEF File, Abandoned, FlightsInv, RegistryInv, Joinable
    <3> QED
      BY <3>1, KindsAssumption
  <2> QED
    BY <1>0, <1>12, <2>1 DEF File, Abandoned, TypeOK, Outcomes, regVars, capVars
<1>13. ASSUME NEW f \in Requests, Retire(f) PROVE TypeOK'
  BY <1>0, <1>13 DEF Retire, TypeOK, capVars
<1>14. ASSUME NEW f \in Requests, Send(f) PROVE TypeOK'
  BY <1>0, <1>14 DEF Send, TypeOK, Outcomes, regVars, capVars
<1>15. ASSUME NEW q \in Queries, NEW a \in Artifacts, StatusRunning(q, a) PROVE TypeOK'
  <2>1. query' \in [Queries -> [step : {"new", "index", "done"},
                               artifact : Artifacts \cup {None}, reported : BOOLEAN,
                               answer : {"none", "running", "complete", "unknown"}]]
    <3> HIDE DEF Reported, Running
    <3> DEFINE Rep == Reported(a)
               Run == Running(a)
    <3>1. Rep \in BOOLEAN /\ Run \in BOOLEAN
      BY DEF Reported, Running
    <3>2. query' = [query EXCEPT ![q] =
                   [step |-> IF Run THEN "done" ELSE "index",
                    artifact |-> a, reported |-> Rep,
                    answer |-> IF Run THEN "running" ELSE "none"]]
      BY <1>15 DEF StatusRunning
    <3> HIDE DEF Rep, Run
    <3> QED
      BY <1>0, <3>1, <3>2 DEF TypeOK
  <2> QED
    BY <1>0, <1>15, <2>1 DEF StatusRunning, TypeOK, regVars, runVars, capVars
<1>16. ASSUME NEW q \in Queries, StatusComplete(q) PROVE TypeOK'
  <2>1. query' \in [Queries -> [step : {"new", "index", "done"},
                               artifact : Artifacts \cup {None}, reported : BOOLEAN,
                               answer : {"none", "running", "complete", "unknown"}]]
    <3> DEFINE Told == IF /\ query[q].artifact \in index
                          /\ KindOf[query[q].artifact] \in {"sha", "purl"}
                         THEN "complete" ELSE "unknown"
               done == [query[q] EXCEPT !.step = "done"]
               told == [done EXCEPT !.answer = Told]
    <3>1. Told \in {"none", "running", "complete", "unknown"}
      OBVIOUS
    <3>2. query' = [query EXCEPT ![q] = told]
      BY <1>0, <1>16 DEF StatusComplete, TypeOK
    <3> HIDE DEF Told
    <3>3. told \in [step : {"new", "index", "done"},
                    artifact : Artifacts \cup {None}, reported : BOOLEAN,
                    answer : {"none", "running", "complete", "unknown"}]
      <4>1. query[q] \in [step : {"new", "index", "done"},
                          artifact : Artifacts \cup {None}, reported : BOOLEAN,
                          answer : {"none", "running", "complete", "unknown"}]
        BY <1>0 DEF TypeOK
      <4>2. done \in [step : {"new", "index", "done"},
                      artifact : Artifacts \cup {None}, reported : BOOLEAN,
                      answer : {"none", "running", "complete", "unknown"}]
        BY ONLY <4>1
      <4> HIDE DEF done
      <4> QED
        BY ONLY <4>2, <3>1
    <3> HIDE DEF told
    <3> QED
      BY <1>0, <3>2, <3>3 DEF TypeOK
  <2> QED
    BY <1>0, <1>16, <2>1 DEF StatusComplete, TypeOK, regVars, runVars, capVars
<1>17. CASE UNCHANGED vars
  BY <1>0, <1>17 DEF vars, TypeOK
<1> QED
  BY <1>1, <1>2, <1>3, <1>4, <1>5, <1>6, <1>7, <1>8, <1>9, <1>10, <1>11, <1>12, <1>13, <1>14,
     <1>15, <1>16, <1>17 DEF Next, Request, Leader, Status

\* The registry: registered by the leader, retired by finish(), and only moved in between.
LEMMA RegistryStep == FlightsInv /\ [Next]_vars => RegistryInv'
<1> SUFFICES ASSUME FlightsInv, [Next]_vars PROVE RegistryInv'
  OBVIOUS
<1>0. TypeOK /\ RegistryInv /\ RequestInv
  BY DEF FlightsInv
<1>1. ASSUME NEW r \in Requests, NEW k \in Keys, Preflight(r, k) PROVE RegistryInv'
  <2>1. stage[r] = "none"
    BY <1>0, <1>1 DEF Preflight, RequestInv
  <2> QED
    BY <1>0, <1>1, <2>1, NoneAssumption
       DEF Preflight, RegistryInv, TypeOK, Joinable, regVars, runVars, capVars
<1>2. ASSUME NEW r \in Requests, JoinFollow(r) PROVE RegistryInv'
  BY <1>0, <1>2 DEF JoinFollow, RegistryInv, runVars, capVars
<1>3. ASSUME NEW r \in Requests, JoinLead(r) PROVE RegistryInv'
  <2>1. key[r] \in Keys /\ stage[r] = "none"
    BY <1>0, <1>3 DEF JoinLead, RequestInv
  <2> QED
    BY <1>0, <1>3, <2>1, NoneAssumption DEF JoinLead, RegistryInv, TypeOK, Joinable, capVars
<1>4. ASSUME NEW r \in Requests, Answer(r) \/ HangUp(r) PROVE RegistryInv'
  BY <1>0, <1>4 DEF Answer, HangUp, Detach, RegistryInv, runVars, capVars
<1>5. ASSUME NEW f \in Requests,
             \/ RefuseLoading(f) \/ TakeSlot(f) \/ TakeCore(f) \/ Start(f) \/ ThreadReturns(f)
             \/ Joined(f) \/ TimesOut(f) \/ OrphanReaped(f) \/ File(f) \/ Abandoned(f)
      PROVE  RegistryInv'
  <2>1. /\ UNCHANGED <<key, live>>
        /\ \/ UNCHANGED stage
           \/ stage[f] \in Joinable /\ \E s \in Joinable : stage' = [stage EXCEPT ![f] = s]
    BY <1>0, <1>5 DEF RefuseLoading, TakeSlot, TakeCore, Start, ThreadReturns, Joined, TimesOut,
       OrphanReaped, File, Abandoned, Joinable, regVars, runVars
  <2> QED
    BY <1>0, <2>1, NoneAssumption DEF RegistryInv, TypeOK
<1>6. ASSUME NEW f \in Requests, Retire(f) PROVE RegistryInv'
  <2>1. key[f] \in Keys /\ live[key[f]] = f
    BY <1>0, <1>6 DEF Retire, RegistryInv, Joinable
  <2>2. \A j \in Keys : live[j] = f => j = key[f]
    BY <1>0, <1>6, NoneAssumption DEF RegistryInv
  <2>3. live' = [live EXCEPT ![key[f]] = None] /\ stage' = [stage EXCEPT ![f] = "send"]
        /\ key' = key
    BY <1>6, <2>1 DEF Retire
  <2> QED
    BY <1>0, <2>1, <2>2, <2>3, NoneAssumption DEF RegistryInv, TypeOK, Joinable
<1>7. ASSUME NEW f \in Requests, Send(f) PROVE RegistryInv'
  BY <1>0, <1>7, NoneAssumption DEF Send, RegistryInv, TypeOK, Joinable, regVars, capVars
<1>8. CASE UNCHANGED <<key, live, stage>>
  BY <1>0, <1>8 DEF RegistryInv
<1>9. ASSUME NEW q \in Queries, Status(q) PROVE UNCHANGED <<key, live, stage>>
  BY <1>9 DEF Status, StatusRunning, StatusComplete, regVars, runVars
<1> QED
  BY <1>1, <1>2, <1>3, <1>4, <1>5, <1>6, <1>7, <1>8, <1>9 DEF Next, Request, Leader, vars

\* Requests: a flight one is attached to keeps its key, and its leader stays until it has its
\* core or its refusal.
LEMMA RequestStep == FlightsInv /\ [Next]_vars => RequestInv'
<1> SUFFICES ASSUME FlightsInv, [Next]_vars PROVE RequestInv'
  OBVIOUS
<1>0. TypeOK /\ RegistryInv /\ RequestInv
  BY DEF FlightsInv
<1>1. ASSUME NEW r \in Requests, NEW k \in Keys, Preflight(r, k) PROVE RequestInv'
  <2>1. flight[r] = None /\ stage[r] = "none"
    BY <1>0, <1>1 DEF Preflight, RequestInv
  <2>2. /\ key' = [key EXCEPT ![r] = k] /\ UNCHANGED <<flight, stage>>
        /\ \E at \in {"answered", "checked", "refused"} : pc' = [pc EXCEPT ![r] = at]
    BY <1>1 DEF Preflight, runVars
  <2>3. \A x \in Requests : flight[x] # r
    BY <1>0, <2>1, NoneAssumption DEF RequestInv
  <2> QED
    BY <1>0, <2>1, <2>2, <2>3, NoneAssumption DEF RequestInv, TypeOK
<1>2. ASSUME NEW r \in Requests, JoinFollow(r) PROVE RequestInv'
  <2>1. /\ key[r] \in Keys /\ live[key[r]] \in Requests /\ stage[r] = "none"
        /\ key[live[key[r]]] = key[r] /\ stage[live[key[r]]] # "none"
    BY <1>0, <1>2 DEF JoinFollow, RequestInv, RegistryInv, TypeOK, Joinable
  <2> QED
    BY <1>0, <1>2, <2>1, NoneAssumption DEF JoinFollow, RequestInv, TypeOK, runVars
<1>3. ASSUME NEW r \in Requests, JoinLead(r) PROVE RequestInv'
  <2>1. key[r] \in Keys
    BY <1>0, <1>3 DEF JoinLead, RequestInv
  <2> QED
    BY <1>0, <1>3, <2>1, NoneAssumption DEF JoinLead, RequestInv, TypeOK
<1>4. ASSUME NEW r \in Requests, Answer(r) \/ HangUp(r) PROVE RequestInv'
  <2>1. /\ flight' = [flight EXCEPT ![r] = None] /\ UNCHANGED <<key, stage>> /\ pc[r] = "waiting"
        /\ \E at \in {"answered", "left"} : pc' = [pc EXCEPT ![r] = at]
    BY <1>4 DEF Answer, HangUp, Detach, runVars
  <2> QED
    BY <1>0, <2>1, NoneAssumption DEF RequestInv, TypeOK
<1>5. ASSUME NEW f \in Requests,
             \/ RefuseLoading(f) \/ TakeSlot(f) \/ Start(f) \/ ThreadReturns(f)
             \/ Joined(f) \/ TimesOut(f) \/ OrphanReaped(f) \/ File(f) \/ Abandoned(f)
             \/ Retire(f)
      PROVE  RequestInv'
  <2>1. /\ UNCHANGED <<key, flight, pc>>
        /\ \/ UNCHANGED stage
           \/ /\ stage[f] \notin {"none", "core"}
              /\ stage[f] # "slot" => \E s \in {"running", "filing", "retire", "send"} :
                                         stage' = [stage EXCEPT ![f] = s]
              /\ stage[f] = "slot" => \E s \in {"core", "retire"} :
                                         stage' = [stage EXCEPT ![f] = s]
    BY <1>0, <1>5 DEF RefuseLoading, TakeSlot, Start, ThreadReturns, Joined, TimesOut,
       OrphanReaped, File, Abandoned, Retire, regVars, runVars
  <2> QED
    BY <1>0, <2>1, NoneAssumption DEF RequestInv, TypeOK
<1>6. ASSUME NEW f \in Requests, TakeCore(f) PROVE RequestInv'
  <2>1. /\ UNCHANGED <<key, flight>> /\ stage[f] = "core" /\ pc[f] = "leading"
        /\ pc' = [pc EXCEPT ![f] = "waiting"] \/ pc' = pc
        /\ \/ stage' = [stage EXCEPT ![f] = "spawned"]
           \/ stage' = [stage EXCEPT ![f] = "retire"]
    BY <1>0, <1>6 DEF TakeCore, RequestInv
  <2> QED
    BY <1>0, <2>1, NoneAssumption DEF RequestInv, TypeOK
<1>7. ASSUME NEW f \in Requests, Send(f) PROVE RequestInv'
  <2>1. /\ UNCHANGED <<key, flight>> /\ stage[f] = "send"
        /\ stage' = [stage EXCEPT ![f] = "settled"]
        /\ pc[f] = "leading" => pc' = [pc EXCEPT ![f] = "waiting"]
        /\ pc[f] # "leading" => pc' = pc
    BY <1>0, <1>7 DEF Send, TypeOK
  <2> QED
    BY <1>0, <2>1, NoneAssumption DEF RequestInv, TypeOK
<1>8. CASE UNCHANGED <<pc, key, flight, stage>>
  BY <1>0, <1>8 DEF RequestInv
<1>9. ASSUME NEW q \in Queries, Status(q) PROVE UNCHANGED <<pc, key, flight, stage>>
  BY <1>9 DEF Status, StatusRunning, StatusComplete, runVars
<1> QED
  BY <1>1, <1>2, <1>3, <1>4, <1>5, <1>6, <1>7, <1>8, <1>9 DEF Next, Request, Leader, vars

\* The count beside a registered flight.
LEMMA CountStep == FlightsInv /\ [Next]_vars => CountInv'
<1> SUFFICES ASSUME FlightsInv, [Next]_vars PROVE CountInv'
  OBVIOUS
<1>0. TypeOK /\ RegistryInv /\ RequestInv /\ CountInv
  BY DEF FlightsInv
<1>1. ASSUME NEW r \in Requests, JoinFollow(r) PROVE CountInv'
  <2> DEFINE k == key[r]
             f == live[key[r]]
  <2>1. /\ k \in Keys /\ f \in Requests /\ flight[r] = None
        /\ flight' = [flight EXCEPT ![r] = f]
        /\ attached' = [attached EXCEPT ![k] = @ + 1] /\ live' = live
        /\ flight \in [Requests -> Requests \cup {None}] /\ attached \in [Keys -> Nat]
    BY <1>0, <1>1 DEF JoinFollow, RequestInv, TypeOK
  <2>2. \A j \in Keys : live[j] = f => j = k
    BY <1>0, <2>1, NoneAssumption DEF RegistryInv
  <2>3. /\ {x \in Requests : flight'[x] = f} = Members(f) \cup {r} /\ r \notin Members(f)
        /\ \A g \in Requests : g # f => {x \in Requests : flight'[x] = g} = Members(g)
    BY <2>1, NoneAssumption DEF Members
  <2>4. /\ IsFiniteSet(Members(f) \cup {r})
        /\ Cardinality(Members(f) \cup {r}) = Cardinality(Members(f)) + 1
    BY <1>0, <2>1, <2>3, CountAdd DEF CountInv
  <2>5. \A g \in Requests : IsFiniteSet(Members(g)')
    BY <1>0, <2>3, <2>4 DEF CountInv, Members
  <2>6. attached'[k] = Cardinality(Members(f) \cup {r})
    BY <1>0, <2>1, <2>4, NoneAssumption DEF CountInv
  <2>7. ASSUME NEW j \in Keys, live'[j] # None PROVE attached'[j] = Cardinality(Members(live[j])')
    <3>1. CASE j = k
      BY <2>1, <2>3, <2>6, <3>1 DEF Members
    <3>2. CASE j # k
      <4>1. live[j] \in Requests /\ live[j] # f /\ attached'[j] = attached[j]
        BY <1>0, <2>1, <2>2, <2>7, <3>2 DEF TypeOK
      <4> QED
        BY <1>0, <2>1, <2>3, <2>7, <4>1 DEF CountInv, Members
    <3> QED
      BY <3>1, <3>2
  <2> QED
    BY <2>1, <2>5, <2>7 DEF CountInv
<1>2. ASSUME NEW r \in Requests, JoinLead(r) PROVE CountInv'
  <2> DEFINE k == key[r]
  <2>1. /\ k \in Keys /\ live[k] = None /\ flight[r] = None /\ stage[r] = "none"
        /\ flight' = [flight EXCEPT ![r] = r]
        /\ attached' = [attached EXCEPT ![k] = 1] /\ live' = [live EXCEPT ![k] = r]
        /\ flight \in [Requests -> Requests \cup {None}] /\ attached \in [Keys -> Nat]
        /\ live \in [Keys -> Requests \cup {None}]
    BY <1>0, <1>2 DEF JoinLead, RequestInv, TypeOK
  <2>2. Members(r) = {} /\ \A j \in Keys : live[j] # r
    BY <1>0, <2>1, NoneAssumption DEF Members, RequestInv, RegistryInv, Joinable
  <2>3. /\ {x \in Requests : flight'[x] = r} = {r}
        /\ \A g \in Requests : g # r => {x \in Requests : flight'[x] = g} = Members(g)
    BY <2>1, <2>2, NoneAssumption DEF Members
  <2>4. IsFiniteSet({r}) /\ Cardinality({r}) = 1
    BY FS_Singleton
  <2>5. \A g \in Requests : IsFiniteSet(Members(g)')
    BY <1>0, <2>3, <2>4 DEF CountInv, Members
  <2>6. ASSUME NEW j \in Keys, live'[j] # None PROVE attached'[j] = Cardinality(Members(live[j])')
    <3>1. CASE j = k
      BY <2>1, <2>3, <2>4, <3>1 DEF Members
    <3>2. CASE j # k
      <4>1. live'[j] = live[j] /\ live[j] \in Requests \ {r} /\ attached'[j] = attached[j]
        BY <2>1, <2>2, <2>6, <3>2
      <4> QED
        BY <1>0, <2>3, <2>6, <4>1 DEF CountInv, Members
    <3> QED
      BY <3>1, <3>2
  <2> QED
    BY <2>1, <2>5, <2>6 DEF CountInv
<1>3. ASSUME NEW r \in Requests, Answer(r) \/ HangUp(r) PROVE CountInv'
  <2>1. flight[r] # None /\ Detach(r)
    BY <1>0, <1>3 DEF RequestInv, Answer, HangUp
  <2> QED
    BY <2>1, DetachCounts
<1>4. ASSUME NEW f \in Requests, Retire(f) PROVE CountInv'
  <2>1. key[f] \in Keys /\ live[key[f]] = f
    BY <1>0, <1>4 DEF Retire, RegistryInv, Joinable
  <2>2. /\ live' = [live EXCEPT ![key[f]] = None]
        /\ attached' = [attached EXCEPT ![key[f]] = 0] /\ flight' = flight
    BY <1>4, <2>1 DEF Retire
  <2>4. \A g \in Requests : IsFiniteSet(Members(g)')
    BY <1>0, <2>2 DEF CountInv, Members
  <2>5. ASSUME NEW j \in Keys, live'[j] # None PROVE attached'[j] = Cardinality(Members(live[j])')
    <3>1. live'[j] = live[j] /\ attached'[j] = attached[j]
      BY <1>0, <2>1, <2>2, <2>5 DEF TypeOK
    <3> QED
      BY <1>0, <2>2, <2>5, <3>1 DEF CountInv, Members
  <2> QED
    BY <2>4, <2>5 DEF CountInv
<1>5. CASE UNCHANGED <<flight, live, attached>>
  BY <1>0, <1>5 DEF CountInv, Members
<1>6. ASSUME NEW r \in Requests,
             \/ \E k \in Keys : Preflight(r, k)
             \/ RefuseLoading(r) \/ TakeSlot(r) \/ TakeCore(r) \/ Start(r) \/ ThreadReturns(r)
             \/ Joined(r) \/ TimesOut(r) \/ OrphanReaped(r) \/ File(r) \/ Abandoned(r) \/ Send(r)
      PROVE  UNCHANGED <<flight, live, attached>>
  BY <1>6 DEF Preflight, RefuseLoading, TakeSlot, TakeCore, Start, ThreadReturns, Joined, TimesOut,
     OrphanReaped, File, Abandoned, Send, regVars
<1>7. ASSUME NEW q \in Queries, Status(q) PROVE UNCHANGED <<flight, live, attached>>
  BY <1>7 DEF Status, StatusRunning, StatusComplete, regVars
<1> QED
  BY <1>1, <1>2, <1>3, <1>4, <1>5, <1>6, <1>7 DEF Next, Request, Leader, vars

\* What a flight holds, and the counters of the capacity.
LEMMA CapacityStep ==
    FlightsInv /\ [Next]_vars => HoldsInv' /\ CoresExact' /\ LanesExact' /\ OrphansExact'
<1> SUFFICES ASSUME FlightsInv, [Next]_vars
             PROVE  HoldsInv' /\ CoresExact' /\ LanesExact' /\ OrphansExact'
  OBVIOUS
<1>0. TypeOK /\ RequestInv /\ HoldsInv /\ CoresExact /\ LanesExact /\ OrphansExact
  BY DEF FlightsInv
<1>1. ASSUME UNCHANGED capVars PROVE CoresExact' /\ LanesExact'
  BY <1>0, <1>1 DEF capVars, CoresExact, OnCore, LanesExact, InLane
<1>2. ASSUME UNCHANGED <<stage, thread, orphans>> PROVE OrphansExact'
  BY <1>0, <1>2 DEF OrphansExact, Orphaned
<1>3. ASSUME NEW f \in Requests, thread[f] = "none", UNCHANGED <<thread, orphans>>,
             \E s \in {"slot", "core", "spawned", "filing", "retire"} :
                stage' = [stage EXCEPT ![f] = s]
      PROVE  OrphansExact'
  <2>1. Orphaned' = Orphaned
    BY <1>0, <1>3 DEF Orphaned, TypeOK
  <2> QED
    BY <1>0, <1>3, <2>1 DEF OrphansExact
<1>4. ASSUME UNCHANGED <<stage, thread, lane, core>> PROVE HoldsInv'
  BY <1>0, <1>4 DEF HoldsInv
<1>5. ASSUME NEW r \in Requests, JoinLead(r)
      PROVE  HoldsInv' /\ CoresExact' /\ LanesExact' /\ OrphansExact'
  <2>1. stage[r] = "none"
    BY <1>0, <1>5 DEF JoinLead, RequestInv
  <2>2. thread[r] = "none"
    BY <1>0, <2>1 DEF HoldsInv, Late
  <2>3. stage' = [stage EXCEPT ![r] = "slot"] /\ UNCHANGED <<thread, orphans, lane, core>>
    BY <1>5 DEF JoinLead, capVars
  <2>4. OrphansExact'
    BY <1>3, <2>2, <2>3
  <2>5. HoldsInv'
    BY <1>0, <2>1, <2>3 DEF HoldsInv, TypeOK, Late
  <2>6. CoresExact' /\ LanesExact'
    BY <1>1, <1>5 DEF JoinLead
  <2> QED
    BY <2>4, <2>5, <2>6
<1>6. ASSUME NEW f \in Requests, RefuseLoading(f) \/ File(f) \/ Abandoned(f)
      PROVE  HoldsInv' /\ CoresExact' /\ LanesExact' /\ OrphansExact'
  <2>1. /\ stage[f] \in {"slot", "filing"} /\ stage' = [stage EXCEPT ![f] = "retire"]
        /\ UNCHANGED <<thread, orphans, lane, core>> /\ UNCHANGED capVars
    BY <1>6 DEF RefuseLoading, File, Abandoned, capVars
  <2>2. thread[f] = "none"
    BY <1>0, <2>1 DEF HoldsInv, Late
  <2>3. OrphansExact'
    BY <1>3, <2>1, <2>2
  <2>4. HoldsInv'
    BY <1>0, <2>1, <2>2 DEF HoldsInv, TypeOK, Late
  <2> QED
    BY <1>1, <2>1, <2>3, <2>4
<1>7. ASSUME NEW f \in Requests, TakeSlot(f)
      PROVE  HoldsInv' /\ CoresExact' /\ LanesExact' /\ OrphansExact'
  <2> DEFINE l == LaneOf(key[f])
  <2>1. /\ l \in Lanes /\ "none" \notin Lanes
    BY DEF LaneOf, Lanes
  <2>2. /\ stage[f] = "slot" /\ lane[f] = "none" /\ thread[f] = "none" /\ ~core[f]
        /\ UNCHANGED <<thread, orphans, core, freeCores>>
    BY <1>0, <1>7 DEF TakeSlot, HoldsInv, Late, TypeOK
  <2>3. CoresExact'
    BY <1>0, <2>2 DEF CoresExact, OnCore
  <2>4. CASE free[l] > 0
    <3>1. /\ free' = [free EXCEPT ![l] = @ - 1] /\ lane' = [lane EXCEPT ![f] = l]
          /\ stage' = [stage EXCEPT ![f] = "core"]
      BY <1>7, <2>4 DEF TakeSlot
    <3>2. LanesExact'
      BY <1>0, <2>1, <2>2, <3>1, SlotTaken
    <3>3. HoldsInv'
      BY <1>0, <2>1, <2>2, <3>1 DEF HoldsInv, TypeOK, Late
    <3>4. OrphansExact'
      BY <1>3, <2>2, <3>1
    <3> QED
      BY <2>3, <3>2, <3>3, <3>4
  <2>5. CASE ~(free[l] > 0)
    <3>1. UNCHANGED <<free, lane>> /\ stage' = [stage EXCEPT ![f] = "retire"]
      BY <1>7, <2>5 DEF TakeSlot
    <3>2. LanesExact'
      BY <1>0, <3>1 DEF LanesExact, InLane
    <3>3. HoldsInv'
      BY <1>0, <2>2, <3>1 DEF HoldsInv, TypeOK, Late
    <3>4. OrphansExact'
      BY <1>3, <2>2, <3>1
    <3> QED
      BY <2>3, <3>2, <3>3, <3>4
  <2> QED
    BY <2>4, <2>5
<1>8. ASSUME NEW f \in Requests, TakeCore(f)
      PROVE  HoldsInv' /\ CoresExact' /\ LanesExact' /\ OrphansExact'
  <2>1. /\ stage[f] = "core" /\ lane[f] \in Lanes /\ thread[f] = "none" /\ ~core[f]
        /\ UNCHANGED <<thread, orphans>>
    BY <1>0, <1>8 DEF TakeCore, HoldsInv, Late, TypeOK
  <2>2. CASE freeCores > 0
    <3>1. /\ freeCores' = freeCores - 1 /\ core' = [core EXCEPT ![f] = TRUE]
          /\ stage' = [stage EXCEPT ![f] = "spawned"] /\ UNCHANGED <<free, lane>>
      BY <1>8, <2>2 DEF TakeCore
    <3>2. CoresExact'
      BY <1>0, <2>1, <2>2, <3>1, CoreTaken
    <3>3. LanesExact'
      BY <1>0, <3>1 DEF LanesExact, InLane
    <3>4. HoldsInv'
      BY <1>0, <2>1, <3>1 DEF HoldsInv, TypeOK, Late
    <3>5. OrphansExact'
      BY <1>3, <2>1, <3>1
    <3> QED
      BY <3>2, <3>3, <3>4, <3>5
  <2>3. CASE ~(freeCores > 0)
    <3>1. /\ free' = [free EXCEPT ![lane[f]] = @ + 1] /\ lane' = [lane EXCEPT ![f] = "none"]
          /\ stage' = [stage EXCEPT ![f] = "retire"] /\ UNCHANGED <<core, freeCores>>
      BY <1>8, <2>3 DEF TakeCore
    <3>2. CoresExact'
      BY <1>0, <3>1 DEF CoresExact, OnCore
    <3>3. LanesExact'
      BY <1>0, <2>1, <3>1, SlotGivenBack
    <3>4. HoldsInv'
      BY <1>0, <2>1, <3>1 DEF HoldsInv, TypeOK, Late
    <3>5. OrphansExact'
      BY <1>3, <2>1, <3>1
    <3> QED
      BY <3>2, <3>3, <3>4, <3>5
  <2> QED
    BY <2>2, <2>3
<1>9. ASSUME NEW f \in Requests, Start(f) \/ ThreadReturns(f)
      PROVE  HoldsInv' /\ CoresExact' /\ LanesExact' /\ OrphansExact'
  <2>1. UNCHANGED capVars /\ UNCHANGED <<orphans, lane, core>>
    BY <1>9 DEF Start, ThreadReturns, capVars
  <2>2. HoldsInv'
    BY <1>0, <1>9, <2>1 DEF Start, ThreadReturns, HoldsInv, TypeOK, Late
  <2>3. Orphaned' = Orphaned
    BY <1>0, <1>9 DEF Start, ThreadReturns, Orphaned, Late, TypeOK
  <2>4. OrphansExact'
    BY <1>0, <2>1, <2>3 DEF OrphansExact
  <2> QED
    BY <1>1, <2>1, <2>2, <2>4
<1>10. ASSUME NEW f \in Requests, Joined(f)
       PROVE  HoldsInv' /\ CoresExact' /\ LanesExact' /\ OrphansExact'
  <2>1. /\ stage[f] = "running" /\ core[f] /\ DropGuard(f) /\ orphans' = orphans
        /\ thread' = [thread EXCEPT ![f] = "none"]
        /\ \E s \in {"filing", "retire"} : stage' = [stage EXCEPT ![f] = s]
    BY <1>0, <1>10 DEF Joined, HoldsInv
  <2>2. CoresExact' /\ LanesExact'
    BY <1>0, <2>1, GuardDropped
  <2>3. HoldsInv'
    BY <1>0, <2>1 DEF DropGuard, HoldsInv, TypeOK, Late
  <2>4. Orphaned' = Orphaned
    BY <1>0, <2>1 DEF Orphaned, Late, TypeOK
  <2>5. OrphansExact'
    BY <1>0, <2>1, <2>4 DEF OrphansExact
  <2> QED
    BY <2>2, <2>3, <2>5
<1>11. ASSUME NEW f \in Requests, TimesOut(f)
       PROVE  HoldsInv' /\ CoresExact' /\ LanesExact' /\ OrphansExact'
  <2>1. /\ stage[f] = "running" /\ thread[f] = "running" /\ orphans' = orphans + 1
        /\ stage' = [stage EXCEPT ![f] = "retire"] /\ UNCHANGED <<thread, lane, core>>
        /\ UNCHANGED capVars
    BY <1>11 DEF TimesOut, capVars
  <2>2. HoldsInv'
    BY <1>0, <2>1 DEF HoldsInv, TypeOK, Late
  <2>3. Orphaned' = Orphaned \cup {f} /\ f \notin Orphaned
    BY <1>0, <2>1 DEF Orphaned, Late, TypeOK
  <2>4. OrphansExact'
    BY <1>0, <2>1, <2>3, CountAdd DEF OrphansExact
  <2> QED
    BY <1>1, <2>1, <2>2, <2>4
<1>12. ASSUME NEW f \in Requests, OrphanReaped(f)
       PROVE  HoldsInv' /\ CoresExact' /\ LanesExact' /\ OrphansExact'
  <2>1. /\ stage[f] \in Late /\ thread[f] # "none" /\ core[f] /\ DropGuard(f)
        /\ orphans' = orphans - 1 /\ thread' = [thread EXCEPT ![f] = "none"] /\ stage' = stage
    BY <1>0, <1>12 DEF OrphanReaped, HoldsInv, Late
  <2>2. CoresExact' /\ LanesExact'
    BY <1>0, <2>1, GuardDropped
  <2>3. HoldsInv'
    BY <1>0, <2>1 DEF DropGuard, HoldsInv, TypeOK, Late
  <2>4. Orphaned' = Orphaned \ {f} /\ f \in Orphaned
    BY <1>0, <2>1 DEF Orphaned, TypeOK
  <2>5. /\ IsFiniteSet(Orphaned') /\ Cardinality(Orphaned) = Cardinality(Orphaned') + 1
        /\ Cardinality(Orphaned') \in Nat
    BY <1>0, <2>4, CountRemove DEF OrphansExact
  <2>6. OrphansExact'
    BY <1>0, <2>1, <2>5 DEF OrphansExact
  <2> QED
    BY <2>2, <2>3, <2>6
<1>13. ASSUME NEW f \in Requests, Retire(f) \/ Send(f)
       PROVE  HoldsInv' /\ CoresExact' /\ LanesExact' /\ OrphansExact'
  <2>1. /\ stage[f] \in Late /\ UNCHANGED <<thread, lane, core, orphans>> /\ UNCHANGED capVars
        /\ \E s \in {"send", "settled"} : stage' = [stage EXCEPT ![f] = s]
    BY <1>13 DEF Retire, Send, Late, capVars
  <2>2. HoldsInv'
    BY <1>0, <2>1 DEF HoldsInv, TypeOK, Late
  <2>3. Orphaned' = Orphaned
    BY <1>0, <2>1 DEF Orphaned, Late, TypeOK
  <2>4. OrphansExact'
    BY <1>0, <2>1, <2>3 DEF OrphansExact
  <2> QED
    BY <1>1, <2>1, <2>2, <2>4
<1>14. CASE UNCHANGED <<stage, thread, orphans, lane, core, free, freeCores>>
  BY <1>1, <1>2, <1>4, <1>14 DEF capVars
<1>15. ASSUME NEW r \in Requests,
              (\E k \in Keys : Preflight(r, k)) \/ JoinFollow(r) \/ Answer(r) \/ HangUp(r)
       PROVE  UNCHANGED <<stage, thread, orphans, lane, core, free, freeCores>>
  BY <1>15 DEF Preflight, JoinFollow, Answer, HangUp, runVars, capVars
<1>16. ASSUME NEW q \in Queries, Status(q)
       PROVE  UNCHANGED <<stage, thread, orphans, lane, core, free, freeCores>>
  BY <1>16 DEF Status, StatusRunning, StatusComplete, runVars, capVars
<1> QED
  BY <1>5, <1>6, <1>7, <1>8, <1>9, <1>10, <1>11, <1>12, <1>13, <1>14, <1>15, <1>16
     DEF Next, Request, Leader, vars

\* What a step leaves to those who wait: an outcome, something to publish, or a thread.
LEMMA AnswerStep == FlightsInv /\ [Next]_vars => AnswerInv'
<1> SUFFICES ASSUME FlightsInv, [Next]_vars PROVE AnswerInv'
  OBVIOUS
<1>0. TypeOK /\ RequestInv /\ HoldsInv /\ AnswerInv
  BY DEF FlightsInv
\* What is said of one flight, so that a step may be looked at through the flight it is of.
<1> DEFINE Ahead(f) ==
              /\ stage[f] = "settled" => outcome[f] # "none"
              /\ stage[f] \in {"retire", "send"} => pending[f] # "none"
              /\ stage[f] = "running" => thread[f] # "none"
              /\ pc[f] = "leading" =>
                    flight[f] = f /\ stage[f] \in {"slot", "core", "retire", "send"}
              /\ core[f] => thread[f] # "none" \/ stage[f] = "spawned"
           Same(g) == UNCHANGED <<stage[g], outcome[g], pending[g], thread[g], core[g], pc[g],
                                  flight[g]>>
<1>1. ASSUME NEW f \in Requests, Ahead(f)', \A g \in Requests \ {f} : Same(g)
      PROVE  AnswerInv'
  BY <1>0, <1>1 DEF AnswerInv
<1>2. ASSUME NEW r \in Requests, \E k \in Keys : Preflight(r, k) PROVE AnswerInv'
  <2>1. /\ UNCHANGED <<stage, outcome, pending, thread, flight, core>>
        /\ pc'[r] # "leading" /\ \A g \in Requests \ {r} : pc'[g] = pc[g]
    BY <1>0, <1>2 DEF Preflight, runVars, capVars, TypeOK
  <2> QED
    BY <1>0, <1>1, <2>1 DEF AnswerInv
<1>3. ASSUME NEW r \in Requests, JoinFollow(r) PROVE AnswerInv'
  <2>1. /\ UNCHANGED <<stage, outcome, pending, thread, core>> /\ pc'[r] = "waiting"
        /\ \A g \in Requests \ {r} : pc'[g] = pc[g] /\ flight'[g] = flight[g]
    BY <1>0, <1>3 DEF JoinFollow, runVars, capVars, TypeOK
  <2> QED
    BY <1>0, <1>1, <2>1 DEF AnswerInv
<1>4. ASSUME NEW r \in Requests, JoinLead(r) PROVE AnswerInv'
  <2>1. /\ UNCHANGED <<outcome, pending, thread, core>>
        /\ stage'[r] = "slot" /\ pc'[r] = "leading" /\ flight'[r] = r /\ stage[r] = "none"
        /\ \A g \in Requests \ {r} : UNCHANGED <<stage[g], pc[g], flight[g]>>
    BY <1>0, <1>4 DEF JoinLead, capVars, RequestInv, TypeOK
  <2> QED
    BY <1>0, <1>1, <2>1 DEF AnswerInv
<1>5. ASSUME NEW r \in Requests, Answer(r) \/ HangUp(r) PROVE AnswerInv'
  <2>1. /\ UNCHANGED <<stage, outcome, pending, thread, core>> /\ pc'[r] \in {"answered", "left"}
        /\ \A g \in Requests \ {r} : pc'[g] = pc[g] /\ flight'[g] = flight[g]
    BY <1>0, <1>5 DEF Answer, HangUp, Detach, runVars, capVars, TypeOK
  <2> QED
    BY <1>0, <1>1, <2>1 DEF AnswerInv
<1>6. ASSUME NEW f \in Requests, RefuseLoading(f) \/ TakeSlot(f) PROVE AnswerInv'
  <2>1. /\ stage[f] = "slot" /\ UNCHANGED <<pc, flight, outcome, thread, core>>
        /\ \/ stage'[f] = "retire" /\ pending'[f] = "refused"
           \/ stage'[f] = "core" /\ pending' = pending
        /\ \A g \in Requests \ {f} : UNCHANGED <<stage[g], pending[g]>>
    BY <1>0, <1>6 DEF RefuseLoading, TakeSlot, capVars, TypeOK
  <2> QED
    BY <1>0, <1>1, <2>1 DEF AnswerInv
<1>7. ASSUME NEW f \in Requests, TakeCore(f) PROVE AnswerInv'
  <2>1. /\ stage[f] = "core" /\ UNCHANGED <<flight, outcome, thread>>
        /\ \/ stage'[f] = "spawned" /\ pc'[f] = "waiting"
           \/ stage'[f] = "retire" /\ pending'[f] = "refused" /\ pc' = pc /\ core' = core
        /\ \A g \in Requests \ {f} : UNCHANGED <<stage[g], pending[g], pc[g], core[g]>>
    BY <1>0, <1>7 DEF TakeCore, TypeOK
  <2> QED
    BY <1>0, <1>1, <2>1 DEF AnswerInv
<1>8. ASSUME NEW f \in Requests, Start(f) \/ ThreadReturns(f) PROVE AnswerInv'
  <2>1. /\ UNCHANGED <<pc, flight, outcome, pending, core>> /\ thread'[f] # "none"
        /\ stage'[f] = "running" \/ stage'[f] = stage[f]
        /\ stage[f] = "spawned" \/ stage'[f] = stage[f]
        /\ \A g \in Requests \ {f} : UNCHANGED <<stage[g], thread[g]>>
    BY <1>0, <1>8 DEF Start, ThreadReturns, capVars, TypeOK
  <2> QED
    BY <1>0, <1>1, <2>1 DEF AnswerInv
<1>9. ASSUME NEW f \in Requests, Joined(f) \/ OrphanReaped(f) PROVE AnswerInv'
  <2>1. /\ UNCHANGED <<pc, flight, outcome>> /\ thread'[f] = "none" /\ ~core'[f]
        /\ \/ stage[f] = "running" /\ stage'[f] = "filing"
           \/ stage[f] = "running" /\ stage'[f] = "retire" /\ pending'[f] = "failed"
           \/ stage[f] # "running" /\ stage' = stage /\ pending' = pending
        /\ \A g \in Requests \ {f} : UNCHANGED <<stage[g], pending[g], thread[g], core[g]>>
    BY <1>0, <1>9 DEF Joined, OrphanReaped, DropGuard, TypeOK
  <2> QED
    BY <1>0, <1>1, <2>1 DEF AnswerInv
<1>10. ASSUME NEW f \in Requests, TimesOut(f) \/ File(f) \/ Abandoned(f) PROVE AnswerInv'
  <2>1. /\ UNCHANGED <<pc, flight, outcome, thread, core>>
        /\ stage[f] \in {"running", "filing"} /\ stage'[f] = "retire" /\ pending'[f] # "none"
        /\ \A g \in Requests \ {f} : UNCHANGED <<stage[g], pending[g]>>
    BY <1>0, <1>10 DEF TimesOut, File, Abandoned, capVars, TypeOK
  <2> QED
    BY <1>0, <1>1, <2>1 DEF AnswerInv
<1>11. ASSUME NEW f \in Requests, Retire(f) \/ Send(f) PROVE AnswerInv'
  <2>1. /\ UNCHANGED <<flight, thread, core>>
        /\ \/ /\ stage[f] = "retire" /\ stage'[f] = "send"
              /\ UNCHANGED <<pc, pending, outcome>>
           \/ /\ stage[f] = "send" /\ stage'[f] = "settled"
              /\ outcome'[f] = pending[f] /\ pc'[f] # "leading"
        /\ \A g \in Requests \ {f} : UNCHANGED <<stage[g], pending[g], outcome[g], pc[g]>>
    BY <1>0, <1>11 DEF Retire, Send, capVars, TypeOK
  <2> QED
    BY <1>0, <1>1, <2>1 DEF AnswerInv
<1>12. CASE UNCHANGED <<stage, outcome, pending, thread, pc, flight, core>>
  BY <1>0, <1>12 DEF AnswerInv
<1>13. ASSUME NEW q \in Queries, Status(q)
       PROVE  UNCHANGED <<stage, outcome, pending, thread, pc, flight, core>>
  BY <1>13 DEF Status, StatusRunning, StatusComplete, runVars, capVars
<1> HIDE DEF Ahead, Same
<1> QED
  BY <1>2, <1>3, <1>4, <1>5, <1>6, <1>7, <1>8, <1>9, <1>10, <1>11, <1>12, <1>13
     DEF Next, Request, Leader, vars, runVars, capVars

LEMMA FlightsInitInv == Init => FlightsInv
<1> SUFFICES ASSUME Init PROVE FlightsInv
  OBVIOUS
<1>1. TypeOK
  <2>1. \A q \in Queries : query[q] = [step |-> "new", artifact |-> None, reported |-> FALSE,
                                      answer |-> "none"]
    BY DEF Init, NoQuery
  <2>2. query \in [Queries -> [step : {"new", "index", "done"},
                               artifact : Artifacts \cup {None}, reported : BOOLEAN,
                               answer : {"none", "running", "complete", "unknown"}]]
    BY DEF Init, NoQuery
  <2> QED
    BY <2>2, LaneSizes, CountsAssumption DEF Init, TypeOK, Outcomes
<1>2. RegistryInv /\ RequestInv /\ HoldsInv /\ AnswerInv
  BY NoneAssumption DEF Init, RegistryInv, RequestInv, HoldsInv, AnswerInv, Joinable
<1>3. \A f \in Requests : Members(f) = {}
  BY NoneAssumption DEF Init, Members
<1>4. OnCore = {} /\ (\A l \in Lanes : InLane(l) = {}) /\ Orphaned = {}
  BY DEF Init, OnCore, InLane, Lanes, Orphaned, Late
<1>5. IsFiniteSet({}) /\ Cardinality({}) = 0
  BY FS_EmptySet
<1>6. CountInv
  BY <1>3, <1>5 DEF Init, CountInv
<1>7. CoresExact /\ LanesExact /\ OrphansExact
  BY <1>4, <1>5, LaneSizes, CountsAssumption DEF Init, CoresExact, LanesExact, OrphansExact
<1> QED
  BY <1>1, <1>2, <1>6, <1>7 DEF FlightsInv

\* The invariant of the flights holds in every run.
THEOREM FlightsInvariant == Spec => []FlightsInv
<1>1. FlightsInv /\ [Next]_vars => FlightsInv'
  BY TypeStep, RegistryStep, RequestStep, CountStep, CapacityStep, AnswerStep DEF FlightsInv
<1> QED
  BY <1>1, FlightsInitInv, PTL DEF Spec

\* However requests come, leave and reconnect, and however the run ends, a flight can be joined
\* from its registration until finish() retires it, and not after (flight.rs).
THEOREM FlightsStayJoinable == Spec => []JoinableWhileRunning
<1>1. FlightsInv => JoinableWhileRunning
  BY NoneAssumption DEF FlightsInv, RegistryInv, TypeOK, JoinableWhileRunning, Joinable
<1> QED
  BY <1>1, FlightsInvariant, PTL

\* The count beside a registered flight is the number of its requests, for any number of them:
\* an attachment that is dropped late never counts out a successor's (Attachment::drop).
THEOREM AttachedStaysExact == Spec => []AttachedExact
<1>1. FlightsInv => AttachedExact
  BY DEF FlightsInv, CountInv, Members, AttachedExact
<1> QED
  BY <1>1, FlightsInvariant, PTL

\* And each of these requests has an answer ahead, whoever times out, panics or dies on the
\* way: an outcome, a value to publish, or a task or thread that goes on (Flights::finish,
\* Publisher::drop, RequestGuard::run).
THEOREM AttachedAreAnswered == Spec => []AttachedAreServed
<1>1. FlightsInv => AnswerAhead
  <2> SUFFICES ASSUME FlightsInv PROVE AnswerAhead
    OBVIOUS
  <2>1. AnswerInv /\ RequestInv
    BY DEF FlightsInv
  <2>2. \A r \in Requests : pc[r] \in {"leading", "waiting"} =>
           flight[r] \in Requests /\ stage[flight[r]] # "none"
    BY <2>1 DEF RequestInv, FlightsInv, TypeOK
  <2> QED
    BY <2>1, <2>2 DEF AnswerInv, AnswerAhead
<1> QED
  BY <1>1, AttachedStaysExact, FlightsInvariant, PTL DEF AttachedAreServed

\* No permit is lost or minted, for any number of workers and cores: every core and slot is
\* free or held by an analysis whose guard lives, one that outlived its timeout included
\* (RequestGuard).
THEOREM CapacityStaysHonest == Spec => []CapacityHonest
<1>1. FlightsInv => CapacityHonest
  <2> SUFFICES ASSUME FlightsInv PROVE CapacityHonest
    OBVIOUS
  <2> DEFINE Threads == {f \in Requests : thread[f] = "running"}
  <2>1. IsFiniteSet(OnCore) /\ freeCores + Cardinality(OnCore) = Cores
    BY DEF FlightsInv, CoresExact
  <2>2. Threads \subseteq OnCore
    BY DEF FlightsInv, HoldsInv, OnCore
  <2>3. /\ Cardinality(Threads) <= Cardinality(OnCore)
        /\ Cardinality(Threads) \in Nat /\ Cardinality(OnCore) \in Nat
    BY <2>1, <2>2, FS_Subset, FS_CardinalityType
  <2>4. freeCores + Cardinality(Threads) <= Cores
    BY <2>1, <2>3 DEF FlightsInv, TypeOK
  <2>5. \A l \in Lanes : free[l] + Cardinality(InLane(l)) = LaneSize[l]
    BY DEF FlightsInv, LanesExact
  <2> QED
    BY <2>1, <2>4, <2>5 DEF CapacityHonest, OnCore, InLane
<1> QED
  BY <1>1, FlightsInvariant, PTL

\* What the server reports as active_tasks() is the number of analyses that hold a slot, for any
\* number of workers, flat or in lanes.  The one exception is a single worker with lanes, for
\* which SlotLanes::new makes two slots and saturating_sub reports none.
THEOREM CapacityStaysExact ==
    ASSUME LanesOn => Workers >= 2
    PROVE  Spec => []CapacityIsExact
<1>1. FlightsInv => ActiveTasksExact
  <2> SUFFICES ASSUME FlightsInv PROVE ActiveTasksExact
    OBVIOUS
  <2> DEFINE Flat == InLane("flat")
             Small == InLane("small")
             Whale == InLane("whale")
             Holders == {f \in Requests : lane[f] # "none"}
  <2>1. /\ IsFiniteSet(Flat) /\ IsFiniteSet(Small) /\ IsFiniteSet(Whale)
        /\ free["flat"] + Cardinality(Flat) = LaneSize["flat"]
        /\ free["small"] + Cardinality(Small) = LaneSize["small"]
        /\ free["whale"] + Cardinality(Whale) = LaneSize["whale"]
    BY DEF FlightsInv, LanesExact, Lanes
  <2>2. /\ Holders = (Flat \cup Small) \cup Whale
        /\ Flat \cap Small = {} /\ (Flat \cup Small) \cap Whale = {}
    BY DEF FlightsInv, TypeOK, InLane, Lanes
  <2>3. IsFiniteSet(Flat \cup Small)
    BY <2>1, FS_Union
  <2>4. Cardinality(Flat \cup Small) = Cardinality(Flat) + Cardinality(Small)
    <3>1. Cardinality(Flat \cup Small)
            = Cardinality(Flat) + Cardinality(Small) - Cardinality(Flat \cap Small)
      BY <2>1, FS_Union
    <3>2. Cardinality(Flat \cap Small) = 0
      BY <2>2, FS_EmptySet
    <3>3. Cardinality(Flat) \in Nat /\ Cardinality(Small) \in Nat
      BY <2>1, FS_CardinalityType
    <3> HIDE DEF Flat, Small
    <3> QED
      BY <3>1, <3>2, <3>3
  <2>5. Cardinality(Holders) = Cardinality(Flat \cup Small) + Cardinality(Whale)
    <3>1. Cardinality((Flat \cup Small) \cup Whale)
            = Cardinality(Flat \cup Small) + Cardinality(Whale)
              - Cardinality((Flat \cup Small) \cap Whale)
      BY <2>1, <2>3, FS_Union
    <3>2. Cardinality((Flat \cup Small) \cap Whale) = 0
      BY <2>2, FS_EmptySet
    <3>3. Cardinality(Flat \cup Small) \in Nat /\ Cardinality(Whale) \in Nat
      BY <2>1, <2>3, FS_CardinalityType
    <3>4. Holders = (Flat \cup Small) \cup Whale
      BY <2>2
    <3> HIDE DEF Flat, Small, Whale, Holders
    <3> QED
      BY <3>1, <3>2, <3>3, <3>4
  <2>6. /\ Cardinality(Flat) \in Nat /\ Cardinality(Small) \in Nat /\ Cardinality(Whale) \in Nat
        /\ free["flat"] \in Nat /\ free["small"] \in Nat /\ free["whale"] \in Nat
    BY <2>1, FS_CardinalityType DEF FlightsInv, TypeOK, Lanes
  <2>7. LaneSize["flat"] + LaneSize["small"] + LaneSize["whale"] = Workers
    BY LaneSizes
  <2> HIDE DEF Flat, Small, Whale, Holders
  <2>8. /\ LaneSize["flat"] \in Nat /\ LaneSize["small"] \in Nat /\ LaneSize["whale"] \in Nat
        /\ Workers \in Nat
    BY LaneSizes, CountsAssumption DEF Lanes
  <2>9. Workers - FreeSlots = Cardinality(Holders) /\ Workers >= FreeSlots
    BY <2>1, <2>4, <2>5, <2>6, <2>7, <2>8 DEF FreeSlots
  <2> QED
    BY <2>9 DEF ActiveTasksExact, ActiveTasks, Holders
<1>2. Spec => []CapacityHonest
  BY CapacityStaysHonest
<1>3. FlightsInv => TypeOK
  BY DEF FlightsInv
<1> QED
  BY <1>1, <1>2, <1>3, FlightsInvariant, PTL DEF CapacityIsExact

----------------------------------------------------------------------------
(* GET /status                                                             *)

\* What a flight reports is in the index, and a status call that saw a report looks there.
IndexInv ==
    /\ \A f \in Requests :
          pending[f] = "report" \/ outcome[f] = "report" =>
             stage[f] # "none" /\ key[f] \in Keys /\ ArtifactOf[key[f]] \in index
    /\ \A q \in Queries :
          /\ query[q].step = "index" => query[q].artifact \in Artifacts
          /\ query[q].step = "index" /\ query[q].reported => query[q].artifact \in index

LEMMA IndexStep ==
    ASSUME ~IndexLossy, \A a \in Artifacts : KindOf[a] # "url",
           FlightsInv, IndexInv, StatusNoGap, [Next]_vars
    PROVE  IndexInv' /\ StatusNoGap'
<1>0. TypeOK /\ RegistryInv /\ RequestInv
  BY DEF FlightsInv
<1>1. ASSUME UNCHANGED <<query>>, index \subseteq index',
             \A f \in Requests :
                \/ /\ key'[f] = key[f] /\ (stage[f] # "none" => stage'[f] # "none")
                   /\ pending'[f] = "report" \/ outcome'[f] = "report" =>
                         pending[f] = "report" \/ outcome[f] = "report"
                \/ ~(pending'[f] = "report" \/ outcome'[f] = "report")
                \/ stage'[f] # "none" /\ key'[f] \in Keys /\ ArtifactOf[key'[f]] \in index'
      PROVE  IndexInv' /\ StatusNoGap'
  BY <1>1 DEF IndexInv, StatusNoGap
<1>2. ASSUME NEW r \in Requests, NEW k \in Keys, Preflight(r, k) PROVE IndexInv' /\ StatusNoGap'
  <2>1. /\ UNCHANGED <<query, index, stage, pending, outcome>>
        /\ \A f \in Requests \ {r} : key'[f] = key[f]
    BY <1>0, <1>2 DEF Preflight, TypeOK, runVars
  <2>2. stage[r] = "none"
    BY <1>0, <1>2 DEF Preflight, RequestInv
  <2>3. ~(pending[r] = "report" \/ outcome[r] = "report")
    BY <2>2 DEF IndexInv
  <2> QED
    BY <1>1, <2>1, <2>3
<1>3. ASSUME NEW r \in Requests,
             \/ JoinFollow(r) \/ JoinLead(r) \/ Answer(r) \/ HangUp(r)
             \/ RefuseLoading(r) \/ TakeSlot(r) \/ TakeCore(r) \/ Start(r) \/ ThreadReturns(r)
             \/ Joined(r) \/ TimesOut(r) \/ OrphanReaped(r) \/ Abandoned(r) \/ Retire(r) \/ Send(r)
      PROVE  IndexInv' /\ StatusNoGap'
  <2>1. /\ UNCHANGED <<query, index, key>>
        /\ \A f \in Requests : stage[f] # "none" => stage'[f] # "none"
    BY <1>0, <1>3 DEF JoinFollow, JoinLead, Answer, HangUp, RefuseLoading, TakeSlot, TakeCore, Start,
       ThreadReturns, Joined, TimesOut, OrphanReaped, Abandoned, Retire, Send, TypeOK, runVars
  <2>2. \A f \in Requests : pending'[f] = "report" \/ outcome'[f] = "report" =>
                               pending[f] = "report" \/ outcome[f] = "report"
    BY <1>0, <1>3 DEF JoinFollow, JoinLead, Answer, HangUp, RefuseLoading, TakeSlot, TakeCore,
       Start, ThreadReturns, Joined, TimesOut, OrphanReaped, Abandoned, Retire, Send, TypeOK,
       runVars
  <2> QED
    BY <1>1, <2>1, <2>2
<1>4. ASSUME NEW f \in Requests, File(f) PROVE IndexInv' /\ StatusNoGap'
  <2>1. key[f] \in Keys
    BY <1>0, <1>4 DEF File, RegistryInv, Joinable
  <2>2. /\ UNCHANGED <<query, key, outcome>> /\ index \subseteq index'
        /\ \A g \in Requests \ {f} : pending'[g] = pending[g] /\ stage'[g] = stage[g]
        /\ stage'[f] # "none"
        /\ pending'[f] = "report" => ArtifactOf[key[f]] \in index'
    BY <1>0, <1>4 DEF File, TypeOK
  <2>3. outcome[f] = "report" => ArtifactOf[key[f]] \in index
    BY DEF IndexInv
  <2> QED
    BY <1>1, <2>1, <2>2, <2>3
<1>5. ASSUME NEW q \in Queries, NEW a \in Artifacts, StatusRunning(q, a)
      PROVE  IndexInv' /\ StatusNoGap'
  <2>1. Reported(a) => a \in index
    BY <1>0, NoneAssumption DEF Reported, IndexInv
  <2> DEFINE Rep == Reported(a)
             Run == Running(a)
             new == [step |-> IF Run THEN "done" ELSE "index", artifact |-> a,
                     reported |-> Rep, answer |-> IF Run THEN "running" ELSE "none"]
  <2>2. query' = [query EXCEPT ![q] = new] /\ UNCHANGED <<key, stage, pending, outcome, index>>
    BY <1>5 DEF StatusRunning, runVars
  <2> HIDE DEF Rep, Run
  <2>3. /\ new.step = "index" => new.artifact \in Artifacts
        /\ new.step = "index" /\ new.reported => new.artifact \in index
        /\ new.answer # "unknown"
    BY <2>1 DEF Rep
  <2>4. query'[q] = new /\ \A p \in Queries \ {q} : query'[p] = query[p]
    BY <1>0, <2>2 DEF TypeOK
  <2> HIDE DEF new
  <2> QED
    BY <2>2, <2>3, <2>4 DEF IndexInv, StatusNoGap
<1>6. ASSUME NEW q \in Queries, StatusComplete(q) PROVE IndexInv' /\ StatusNoGap'
  <2> DEFINE told == query'[q]
  <2>1. UNCHANGED <<key, stage, pending, outcome, index>> /\ query[q].step = "index"
    BY <1>6 DEF StatusComplete, runVars
  <2>2. \A p \in Queries \ {q} : query'[p] = query[p]
    BY <1>0, <1>6 DEF StatusComplete, TypeOK
  <2>3. /\ told.step = "done" /\ (told.reported <=> query[q].reported)
        /\ told.answer = "unknown" => ~(/\ query[q].artifact \in index
                                        /\ KindOf[query[q].artifact] \in {"sha", "purl"})
    BY <1>0, <1>6 DEF StatusComplete, TypeOK
  <2>4. /\ query[q].artifact \in Artifacts
        /\ query[q].reported => query[q].artifact \in index
    BY <2>1 DEF IndexInv
  <2>5. KindOf[query[q].artifact] \in {"sha", "purl"}
    BY <2>4, KindsAssumption
  <2>6. told.answer = "unknown" => ~told.reported
    BY <2>3, <2>4, <2>5
  <2> HIDE DEF told
  <2> QED
    BY <2>1, <2>2, <2>3, <2>6 DEF IndexInv, StatusNoGap, told
<1>7. CASE UNCHANGED vars
  BY <1>7 DEF vars, IndexInv, StatusNoGap
<1> QED
  BY <1>2, <1>3, <1>4, <1>5, <1>6, <1>7 DEF Next, Request, Leader, Status

LEMMA IndexInitInv == Init => IndexInv /\ StatusNoGap
BY DEF Init, NoQuery, IndexInv, StatusNoGap

\* A status call never misses a report that was filed before it came, for any number of
\* calls, analyses and keys, where the index takes what is filed and the artifact is named by
\* digest or PURL: only those forms are looked up (file() before finish(), /status in
\* handlers.rs).
THEOREM StatusLeavesNoGap ==
    ASSUME ~IndexLossy, \A a \in Artifacts : KindOf[a] # "url"
    PROVE  Spec => []StatusNoGap
<1>1. FlightsInv /\ IndexInv /\ StatusNoGap /\ [Next]_vars => IndexInv' /\ StatusNoGap'
  BY IndexStep
<1> QED
  BY <1>1, IndexInitInv, FlightsInvariant, PTL DEF Spec
=============================================================================
