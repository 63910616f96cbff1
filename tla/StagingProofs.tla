--------------------------- MODULE StagingProofs ---------------------------
(***************************************************************************)
(* That the two staging budgets are exact and cover every byte, for any    *)
(* jobs, sizes, hints and limits, and that no reservation waits for itself *)
(* or in a circle with the gate and the tails.  A sum over the jobs is the *)
(* cardinality of a set with one element per byte held, so that a          *)
(* reservation that changes is a fact about finite sets.  The inductive    *)
(* invariant says what a download holds in each phase: without it a        *)
(* reservation could be made over one that is still there, and its bytes   *)
(* would never come back; and that a sleeper is short of bytes right now.  *)
(***************************************************************************)
EXTENDS StagingBudget, FiniteSetTheorems, TLAPS

Top == Limit + SpoolBudget + MaxJobBytes

\* One element per byte that f gives a job.
Bytes(f) == {u \in Jobs \X (1 .. Top) : u[2] <= f[u[1]]}

\* What a download holds in each phase.
HoldsInv ==
    \A j \in Jobs :
        /\ place[j] = "claimed" => phase[j] = "none"
        /\ phase[j] \notin {"headers", "body", "fetched"} => memory[j] = 0
        /\ phase[j] \notin {"spool", "fetched"} => spooled[j] = 0 /\ written[j] = 0
        /\ phase[j] = "fetched" /\ spooled[j] = 0 => memory[j] = Body[j]

Waiting == {"waits", "waitsAgain"}

\* What is asked for can be had, and nobody sleeps who could have it.
WaitsInv ==
    \A j \in Jobs :
        /\ place[j] = "done" => phase[j] = "none"
        /\ phase[j] \in Reserving \cup Waiting => ask[j] <= Limit
        /\ phase[j] \in Waiting => used + ask[j] > Limit

MemoryExact ==
    /\ IsFiniteSet(Bytes(memory)) /\ used = Total(memory) /\ used <= Limit
    /\ \A j \in Jobs : memory[j] <= Limit

\* Beyond its budget the spool has one payload.
SpoolExact ==
    /\ IsFiniteSet(Bytes(spooled)) /\ spoolUsed = Total(spooled)
    /\ \A j \in Jobs : spooled[j] <= Top /\ written[j] <= spooled[j]
    /\ spoolUsed > SpoolBudget => \E j \in Jobs : \A k \in Jobs : spooled[k] > 0 <=> k = j

StagingInv == TypeOK /\ HoldsInv /\ WaitsInv /\ MemoryExact /\ SpoolExact

----------------------------------------------------------------------------
(* Sums                                                                    *)

LEMMA Sizes ==
    /\ Limit \in Nat \ {0} /\ SpoolBudget \in Nat \ {0} /\ GrowStep \in Nat \ {0}
    /\ MaxJobBytes \in Nat \ {0} /\ Threshold \in 1 .. Limit /\ Top \in Nat
    /\ Top = Limit + SpoolBudget + MaxJobBytes
    /\ \A j \in Jobs : Hint[j] \in 0 .. MaxJobBytes /\ Body[j] \in 1 .. MaxJobBytes
BY SizesAssumption, ThresholdAssumption DEF Top

\* A job's bytes are as many as it is given.
LEMMA BytesOfOne ==
    ASSUME NEW j, NEW n \in Nat
    PROVE  IsFiniteSet({j} \X (1 .. n)) /\ Cardinality({j} \X (1 .. n)) = n
<1>1. IsFiniteSet({j}) /\ Cardinality({j}) = 1
  BY FS_Singleton
<1>2. IsFiniteSet(1 .. n) /\ Cardinality(1 .. n) = n
  BY FS_Interval
<1>3. /\ IsFiniteSet({j} \X (1 .. n))
      /\ Cardinality({j} \X (1 .. n)) = Cardinality({j}) * Cardinality(1 .. n)
  BY <1>1, <1>2, FS_Product
<1>4. Cardinality({j}) * Cardinality(1 .. n) = n
  BY <1>1, <1>2
<1> QED
  BY <1>3, <1>4

\* The sum is the bytes of one job and those of the others.
LEMMA TotalSplit ==
    ASSUME NEW f \in [Jobs -> Nat], NEW j \in Jobs, f[j] <= Top,
           IsFiniteSet({u \in Bytes(f) : u[1] # j})
    PROVE  /\ IsFiniteSet(Bytes(f))
           /\ Total(f) = Cardinality({u \in Bytes(f) : u[1] # j}) + f[j]
<1> DEFINE Others == {u \in Bytes(f) : u[1] # j}
           Own == {j} \X (1 .. f[j])
<1>1. IsFiniteSet(Own) /\ Cardinality(Own) = f[j] /\ f[j] \in Nat
  BY BytesOfOne
<1>2. Bytes(f) = Others \cup Own /\ Others \cap Own = {}
  BY Sizes DEF Bytes
<1>3. /\ IsFiniteSet(Others \cup Own)
      /\ Cardinality(Others \cup Own)
           = Cardinality(Others) + Cardinality(Own) - Cardinality(Others \cap Own)
  BY <1>1, FS_Union
<1>4. Cardinality(Others \cap Own) = 0 /\ Cardinality(Others) \in Nat
  BY <1>2, FS_EmptySet, FS_CardinalityType
<1>5. Total(f) = Cardinality(Bytes(f))
  BY DEF Total, Bytes, Top
<1> HIDE DEF Others, Own
<1>6. IsFiniteSet(Bytes(f)) /\ Total(f) = Cardinality(Others) + f[j]
  BY <1>1, <1>2, <1>3, <1>4, <1>5
<1> QED
  BY <1>6 DEF Others

\* A reservation that changes changes the sum by as much.
LEMMA TotalMoves ==
    ASSUME NEW f \in [Jobs -> Nat], NEW j \in Jobs, NEW n \in Nat, f[j] <= Top, n <= Top,
           IsFiniteSet(Bytes(f))
    PROVE  /\ IsFiniteSet(Bytes([f EXCEPT ![j] = n]))
           /\ Total([f EXCEPT ![j] = n]) = Total(f) - f[j] + n
           /\ Total(f) \in Nat /\ Total([f EXCEPT ![j] = n]) \in Nat
           /\ Total(f) >= f[j]
<1> DEFINE g == [f EXCEPT ![j] = n]
           Others == {u \in Bytes(f) : u[1] # j}
<1>1. IsFiniteSet(Others) /\ Cardinality(Others) \in Nat
  BY FS_Subset, FS_CardinalityType
<1>2. g \in [Jobs -> Nat] /\ g[j] = n
  OBVIOUS
<1>3. {u \in Bytes(g) : u[1] # j} = Others
  BY DEF Bytes
<1>4. Total(f) = Cardinality(Others) + f[j] /\ f[j] \in Nat
  BY <1>1, TotalSplit
<1>5. IsFiniteSet(Bytes(g)) /\ Total(g) = Cardinality(Others) + n
  <2>1. IsFiniteSet(Bytes(g)) /\ Total(g) = Cardinality({u \in Bytes(g) : u[1] # j}) + g[j]
    <3> HIDE DEF g
    <3> QED
      BY <1>1, <1>2, <1>3, TotalSplit
  <2> QED
    BY <1>2, <1>3, <2>1
<1> HIDE DEF Others
<1> QED
  BY <1>1, <1>4, <1>5

\* The sum is nothing exactly when nobody holds anything.
LEMMA TotalZero ==
    ASSUME NEW f \in [Jobs -> Nat], \A j \in Jobs : f[j] <= Top, IsFiniteSet(Bytes(f))
    PROVE  Total(f) = 0 <=> \A j \in Jobs : f[j] = 0
<1>1. Total(f) = Cardinality(Bytes(f))
  BY DEF Total, Bytes, Top
<1>2. Total(f) = 0 <=> Bytes(f) = {}
  BY <1>1, FS_EmptySet
<1>3. (\A j \in Jobs : f[j] = 0) => Bytes(f) = {}
  BY DEF Bytes
<1>4. ASSUME NEW j \in Jobs, f[j] # 0 PROVE Bytes(f) # {}
  <2>1. <<j, 1>> \in Bytes(f)
    BY <1>4, Sizes DEF Bytes
  <2> QED
    BY <2>1
<1> QED
  BY <1>2, <1>3, <1>4

----------------------------------------------------------------------------
(* Reservations                                                            *)

\* A job's memory becomes m bytes and the budget follows.
LEMMA MemoryMoves ==
    ASSUME TypeOK, MemoryExact, NEW j \in Jobs, NEW m \in 0 .. Limit,
           memory' = [memory EXCEPT ![j] = m],
           used' = used - memory[j] + m, used - memory[j] + m <= Limit
    PROVE  MemoryExact' /\ memory' \in [Jobs -> Nat] /\ used' \in Nat
<1>1. /\ memory \in [Jobs -> Nat] /\ memory[j] <= Top /\ m <= Top /\ m \in Nat
      /\ IsFiniteSet(Bytes(memory)) /\ used = Total(memory)
  BY Sizes DEF TypeOK, MemoryExact
<1>2. /\ IsFiniteSet(Bytes(memory')) /\ Total(memory') = Total(memory) - memory[j] + m
      /\ Total(memory') \in Nat
  BY <1>1, TotalMoves
<1>3. \A k \in Jobs : memory'[k] <= Limit
  BY <1>1, Sizes DEF MemoryExact
<1>4. Bytes(memory)' = Bytes(memory') /\ Total(memory)' = Total(memory')
  BY DEF Bytes, Total
<1> QED
  BY <1>1, <1>2, <1>3, <1>4 DEF MemoryExact

\* It keeps m of what it has: the rest goes back, and every waiter looks again.
LEMMA MemoryKept ==
    ASSUME TypeOK, MemoryExact, NEW j \in Jobs, NEW m \in 0 .. memory[j], NEW p, Keep(j, m, p)
    PROVE  MemoryExact' /\ memory' \in [Jobs -> Nat] /\ used' \in Nat
<1>1. /\ memory[j] \in Nat /\ used \in Nat /\ memory[j] <= Limit /\ used <= Limit
      /\ Limit \in Nat /\ m \in Nat /\ m <= memory[j]
  BY Sizes DEF TypeOK, MemoryExact
<1>2. memory' = [memory EXCEPT ![j] = m] /\ used' = used - (memory[j] - m)
  BY DEF Keep
<1>3. m \in 0 .. Limit /\ used' = used - memory[j] + m /\ used - memory[j] + m <= Limit
  BY <1>1, <1>2
<1> QED
  BY <1>2, <1>3, MemoryMoves

\* A payload's bytes on the disk become n, within the budget or alone.
LEMMA SpoolGrows ==
    ASSUME TypeOK, SpoolExact, NEW j \in Jobs, NEW n \in Nat, n <= Top, spooled[j] <= n,
           n > spooled[j] => SpoolFits(n - spooled[j]),
           spooled' = [spooled EXCEPT ![j] = n], spoolUsed' = spoolUsed + n - spooled[j]
    PROVE  /\ IsFiniteSet(Bytes(spooled')) /\ spoolUsed' = Total(spooled')
           /\ spooled' \in [Jobs -> Nat] /\ spoolUsed' \in Nat
           /\ \A k \in Jobs : spooled'[k] <= Top
           /\ spoolUsed' > SpoolBudget =>
                 \E i \in Jobs : \A k \in Jobs : spooled'[k] > 0 <=> k = i
<1>1. /\ spooled \in [Jobs -> Nat] /\ spooled[j] <= Top /\ IsFiniteSet(Bytes(spooled))
      /\ spoolUsed = Total(spooled) /\ \A k \in Jobs : spooled[k] <= Top
  BY DEF TypeOK, SpoolExact
<1>2. /\ IsFiniteSet(Bytes(spooled')) /\ Total(spooled') = Total(spooled) - spooled[j] + n
      /\ Total(spooled') \in Nat /\ Total(spooled) \in Nat
  BY <1>1, TotalMoves
<1>3. spoolUsed' = Total(spooled')
  BY <1>1, <1>2
<1>4. /\ spooled' \in [Jobs -> Nat] /\ \A k \in Jobs : spooled'[k] <= Top
      /\ spooled'[j] = n /\ \A k \in Jobs \ {j} : spooled'[k] = spooled[k]
  BY <1>1
<1>5. ASSUME spoolUsed' > SpoolBudget
      PROVE  \E i \in Jobs : \A k \in Jobs : spooled'[k] > 0 <=> k = i
  <2>1. CASE n = spooled[j]
    <3>1. spooled' = spooled /\ spoolUsed' = spoolUsed
      BY <1>1, <1>2, <2>1
    <3> QED
      BY <1>5, <3>1 DEF SpoolExact
  <2>2. CASE n > spooled[j]
    <3>1. spoolUsed = 0
      BY <1>1, <1>2, <1>5, <2>2, Sizes DEF SpoolFits
    <3>2. \A k \in Jobs : spooled[k] = 0
      BY <1>1, <3>1, TotalZero
    <3>3. \A k \in Jobs : spooled'[k] > 0 <=> k = j
      BY <1>1, <1>4, <2>2, <3>2
    <3> QED
      BY <3>3
  <2> QED
    BY <1>1, <2>1, <2>2
<1> QED
  BY <1>2, <1>3, <1>4, <1>5

\* A payload leaves the disk: what is left is within the budget, or as alone as it was.
LEMMA SpoolShrinks ==
    ASSUME TypeOK, SpoolExact, NEW j \in Jobs, SpoolDropped(j)
    PROVE  SpoolExact' /\ spooled' \in [Jobs -> Nat] /\ written' \in [Jobs -> Nat]
           /\ spoolUsed' \in Nat
<1>1. /\ spooled \in [Jobs -> Nat] /\ spooled[j] <= Top /\ IsFiniteSet(Bytes(spooled))
      /\ spoolUsed = Total(spooled) /\ \A k \in Jobs : spooled[k] <= Top
  BY DEF TypeOK, SpoolExact
<1>2. /\ spooled' = [spooled EXCEPT ![j] = 0] /\ written' = [written EXCEPT ![j] = 0]
      /\ spoolUsed' = spoolUsed - spooled[j]
  BY DEF SpoolDropped
<1>3. /\ IsFiniteSet(Bytes(spooled')) /\ Total(spooled') = Total(spooled) - spooled[j]
      /\ Total(spooled') \in Nat /\ Total(spooled) \in Nat
  <2> DEFINE rest == [spooled EXCEPT ![j] = 0]
  <2>1. 0 \in Nat /\ 0 <= Top
    BY Sizes
  <2>2. /\ IsFiniteSet(Bytes(rest)) /\ Total(rest) = Total(spooled) - spooled[j] + 0
        /\ Total(rest) \in Nat /\ Total(spooled) \in Nat
    BY <1>1, <2>1, TotalMoves
  <2> HIDE DEF rest
  <2>3. Total(rest) = Total(spooled) - spooled[j]
    BY <1>1, <2>2
  <2>4. spooled' = rest
    BY <1>2 DEF rest
  <2> QED
    BY <2>2, <2>3, <2>4
<1>4. spoolUsed' = Total(spooled') /\ spoolUsed' \in Nat
  BY <1>1, <1>2, <1>3
<1>5. /\ spooled' \in [Jobs -> Nat] /\ written' \in [Jobs -> Nat]
      /\ spooled'[j] = 0 /\ \A k \in Jobs \ {j} : spooled'[k] = spooled[k]
      /\ \A k \in Jobs : spooled'[k] <= Top /\ written'[k] <= spooled'[k]
  BY <1>1, <1>2, Sizes DEF TypeOK, SpoolExact
<1>6. ASSUME spoolUsed' > SpoolBudget
      PROVE  \E i \in Jobs : \A k \in Jobs : spooled'[k] > 0 <=> k = i
  <2>1. spoolUsed > SpoolBudget
    BY <1>1, <1>2, <1>3, <1>6, Sizes
  <2>2. PICK i \in Jobs : \A k \in Jobs : spooled[k] > 0 <=> k = i
    BY <2>1 DEF SpoolExact
  <2>3. i # j
    <3>1. SUFFICES ASSUME i = j PROVE FALSE
      OBVIOUS
    <3>2. \A k \in Jobs : spooled'[k] = 0
      BY <1>1, <1>5, <2>2, <3>1
    <3>3. Total(spooled') = 0
      BY <1>3, <1>5, <3>2, TotalZero
    <3> QED
      BY <1>4, <1>6, <3>3, Sizes
  <2>4. spooled[j] = 0
    BY <1>1, <2>2, <2>3
  <2> QED
    BY <1>5, <2>2, <2>3, <2>4
<1>7. Bytes(spooled)' = Bytes(spooled') /\ Total(spooled)' = Total(spooled')
  BY DEF Bytes, Total
<1> QED
  BY <1>3, <1>4, <1>5, <1>6, <1>7 DEF SpoolExact

----------------------------------------------------------------------------
(* The steps                                                               *)

\* The input budget, through every download and every failure.
LEMMA MemoryStep ==
    StagingInv /\ [Next]_vars => MemoryExact' /\ memory' \in [Jobs -> Nat] /\ used' \in Nat
<1> DEFINE Goal == MemoryExact' /\ memory' \in [Jobs -> Nat] /\ used' \in Nat
<1> SUFFICES ASSUME StagingInv, [Next]_vars PROVE Goal
  OBVIOUS
<1>0. TypeOK /\ HoldsInv /\ MemoryExact
  BY DEF StagingInv
<1>1. CASE UNCHANGED <<memory, used>>
  <2>1. Bytes(memory)' = Bytes(memory) /\ Total(memory)' = Total(memory)
    BY <1>1 DEF Bytes, Total
  <2> QED
    BY <1>0, <1>1, <2>1 DEF MemoryExact, TypeOK
<1>2. ASSUME NEW j \in Jobs, Reserve(j) PROVE Goal
  <2>1. CASE used + ask[j] <= Limit
    <3>1. /\ memory' = [memory EXCEPT ![j] = ask[j]] /\ used' = used + ask[j] /\ memory[j] = 0
          /\ used \in Nat /\ ask[j] \in Nat /\ Limit \in Nat
      BY <1>0, <1>2, <2>1, Sizes DEF Reserve, Reserving, HoldsInv, TypeOK
    <3>2. /\ ask[j] \in 0 .. Limit /\ used' = used - memory[j] + ask[j]
          /\ used - memory[j] + ask[j] <= Limit
      BY <2>1, <3>1
    <3> QED
      BY <1>0, <3>1, <3>2, MemoryMoves
  <2>2. CASE ~(used + ask[j] <= Limit)
    BY <1>1, <1>2, <2>2 DEF Reserve
  <2> QED
    BY <2>1, <2>2
<1>3. ASSUME NEW j \in Jobs, Headers(j) PROVE Goal
  <2>1. Keep(j, 0, "reserveAgain") \/ UNCHANGED <<memory, used>>
    BY <1>3 DEF Headers
  <2>2. 0 \in 0 .. memory[j]
    BY <1>0 DEF TypeOK
  <2> QED
    BY <1>0, <1>1, <2>1, <2>2, MemoryKept
<1>4. ASSUME NEW j \in Jobs, BodyRead(j) PROVE Goal
  <2>1. \/ Keep(j, 0, "reroute")
        \/ Body[j] <= memory[j] /\ Keep(j, Body[j], "fetched")
    BY <1>4 DEF BodyRead
  <2>2. 0 \in 0 .. memory[j] /\ (Body[j] <= memory[j] => Body[j] \in 0 .. memory[j])
    BY <1>0, Sizes DEF TypeOK
  <2> QED
    BY <1>0, <2>1, <2>2, MemoryKept
<1>5. ASSUME NEW j \in Jobs, InputFails(j) \/ Analyzed(j) PROVE Goal
  <2>1. Keep(j, 0, "failed") \/ Keep(j, 0, "none")
    BY <1>5 DEF InputFails, Analyzed
  <2>2. 0 \in 0 .. memory[j]
    BY <1>0 DEF TypeOK
  <2> QED
    BY <1>0, <2>1, <2>2, MemoryKept
<1>6. ASSUME NEW j \in Jobs,
             \/ Route(j) \/ Reroute(j) \/ SpoolRefused(j) \/ Chunk(j) \/ SpoolFails(j)
             \/ Prefetch(j) \/ Stage(j) \/ Dispatch(j)
      PROVE  Goal
  BY <1>1, <1>6 DEF Route, Reroute, SpoolRefused, Chunk, SpoolFails, Prefetch, Stage, Dispatch
<1> QED
  BY <1>1, <1>2, <1>3, <1>4, <1>5, <1>6 DEF Next, Download, vars

\* What a chunk's reservation becomes covers it, and stays below the largest job.
LEMMA CoverIsEnough ==
    ASSUME TypeOK, SpoolExact, NEW j \in Jobs, NEW w \in 1 .. Body[j]
    PROVE  /\ Covered(j, w) \in Nat /\ Covered(j, w) <= Top
           /\ spooled[j] <= Covered(j, w) /\ w <= Covered(j, w)
<1> DEFINE stepped == AtMost(w + GrowStep, AtLeast(MaxJobBytes, w))
<1>1. /\ w \in Nat /\ w <= MaxJobBytes /\ spooled[j] \in Nat /\ spooled[j] <= Top
      /\ MaxJobBytes <= Top /\ GrowStep \in Nat /\ MaxJobBytes \in Nat
  BY Sizes DEF TypeOK, SpoolExact
<1>2. stepped \in Nat /\ w <= stepped /\ stepped <= MaxJobBytes
  BY <1>1 DEF AtMost, AtLeast
<1> HIDE DEF stepped
<1>3. CASE w <= spooled[j]
  BY <1>1, <1>3 DEF Covered
<1>4. CASE w > spooled[j]
  <2>1. Covered(j, w) \in {stepped, w}
    BY <1>1, <1>4 DEF Covered, stepped
  <2> QED
    BY <1>1, <1>2, <1>4, <2>1, Sizes
<1> QED
  BY <1>1, <1>3, <1>4

\* The spool, through every chunk and every failure.
LEMMA SpoolStep ==
    StagingInv /\ [Next]_vars => /\ SpoolExact' /\ spooled' \in [Jobs -> Nat]
                                 /\ written' \in [Jobs -> Nat] /\ spoolUsed' \in Nat
<1> DEFINE Goal == /\ SpoolExact' /\ spooled' \in [Jobs -> Nat]
                   /\ written' \in [Jobs -> Nat] /\ spoolUsed' \in Nat
<1> SUFFICES ASSUME StagingInv, [Next]_vars PROVE Goal
  OBVIOUS
<1>0. TypeOK /\ HoldsInv /\ SpoolExact
  BY DEF StagingInv
<1>1. CASE UNCHANGED <<spooled, spoolUsed, written>>
  <2>1. Bytes(spooled)' = Bytes(spooled) /\ Total(spooled)' = Total(spooled)
    BY <1>1 DEF Bytes, Total
  <2> QED
    BY <1>0, <1>1, <2>1 DEF SpoolExact, TypeOK
<1>2. ASSUME NEW j \in Jobs, NEW n \in Nat, NEW p, n <= Top, spooled[j] <= n,
             SpoolTakes(j, n, p), written' \in [Jobs -> Nat], written'[j] <= n,
             \A k \in Jobs \ {j} : written'[k] = written[k]
      PROVE  Goal
  <2>1. /\ spooled' = [spooled EXCEPT ![j] = n] /\ spoolUsed' = spoolUsed + n - spooled[j]
        /\ n > spooled[j] => SpoolFits(n - spooled[j])
    BY <1>2 DEF SpoolTakes
  <2>2. /\ IsFiniteSet(Bytes(spooled')) /\ spoolUsed' = Total(spooled')
        /\ spooled' \in [Jobs -> Nat] /\ spoolUsed' \in Nat
        /\ \A k \in Jobs : spooled'[k] <= Top
        /\ spoolUsed' > SpoolBudget =>
              \E i \in Jobs : \A k \in Jobs : spooled'[k] > 0 <=> k = i
    BY <1>0, <1>2, <2>1, SpoolGrows
  <2>3. \A k \in Jobs : written'[k] <= spooled'[k]
    BY <1>0, <1>2, <2>1 DEF TypeOK, SpoolExact
  <2>4. Bytes(spooled)' = Bytes(spooled') /\ Total(spooled)' = Total(spooled')
    BY DEF Bytes, Total
  <2> QED
    BY <1>2, <2>2, <2>3, <2>4 DEF SpoolExact
<1>3. ASSUME NEW j \in Jobs, Route(j) \/ Reroute(j) PROVE Goal
  <2> DEFINE guess == AtLeast(Hint[j], Threshold + 1)
  <2>1. \/ UNCHANGED <<spooled, spoolUsed>>
        \/ SpoolTakes(j, Hint[j], "spool")
        \/ SpoolTakes(j, guess, "spool")
    BY <1>3 DEF Route, Reroute
  <2>2. /\ written' = written /\ written \in [Jobs -> Nat]
        /\ spooled[j] = 0 /\ written[j] = 0
    BY <1>0, <1>3 DEF Route, Reroute, HoldsInv, TypeOK
  <2>3. Hint[j] \in Nat /\ guess \in Nat /\ Hint[j] <= Top /\ guess <= Top
    BY Sizes DEF AtLeast
  <2> HIDE DEF guess
  <2>4. \A n \in Nat : n <= Top => spooled[j] <= n /\ written'[j] <= n
    BY <2>2
  <2> QED
    BY <1>1, <1>2, <2>1, <2>2, <2>3, <2>4
<1>4. ASSUME NEW j \in Jobs, Chunk(j) PROVE Goal
  <2>1. PICK w \in (written[j] + 1) .. Body[j] :
           /\ SpoolTakes(j, Covered(j, w), IF w = Body[j] THEN "fetched" ELSE "spool")
           /\ written' = [written EXCEPT ![j] = w]
    BY <1>4 DEF Chunk
  <2>2. w \in 1 .. Body[j]
    BY <1>0, <2>1, Sizes DEF TypeOK
  <2>3. /\ Covered(j, w) \in Nat /\ Covered(j, w) <= Top
        /\ spooled[j] <= Covered(j, w) /\ w <= Covered(j, w)
    BY <1>0, <2>2, CoverIsEnough
  <2>4. /\ written' \in [Jobs -> Nat] /\ written'[j] = w
        /\ \A k \in Jobs \ {j} : written'[k] = written[k]
    BY <1>0, <2>1, <2>2, Sizes DEF TypeOK
  <2> QED
    BY <1>2, <2>1, <2>3, <2>4
<1>5. ASSUME NEW j \in Jobs, SpoolFails(j) \/ Analyzed(j) PROVE Goal
  <2>1. SpoolDropped(j)
    BY <1>5 DEF SpoolFails, Analyzed
  <2> QED
    BY <1>0, <2>1, SpoolShrinks
<1>6. ASSUME NEW j \in Jobs,
             \/ SpoolRefused(j) \/ Reserve(j) \/ Headers(j) \/ BodyRead(j) \/ InputFails(j)
             \/ Prefetch(j) \/ Stage(j) \/ Dispatch(j)
      PROVE  Goal
  BY <1>1, <1>6 DEF SpoolRefused, Reserve, Headers, BodyRead, InputFails, Prefetch, Stage, Dispatch
<1> QED
  BY <1>1, <1>3, <1>4, <1>5, <1>6 DEF Next, Download, vars

Phases == {"none", "route", "reserve", "reserveAgain", "waits", "waitsAgain", "headers", "body",
           "reroute", "spool", "fetched", "failed"}
Places == {"claimed", "prefetch", "staged", "tail", "done"}

\* Where a job and its download are, and what it asks for.
LEMMA PhaseStep ==
    StagingInv /\ [Next]_vars =>
        place' \in [Jobs -> Places] /\ phase' \in [Jobs -> Phases] /\ ask' \in [Jobs -> Nat]
<1> DEFINE Goal == place' \in [Jobs -> Places] /\ phase' \in [Jobs -> Phases]
                   /\ ask' \in [Jobs -> Nat]
<1> SUFFICES ASSUME StagingInv, [Next]_vars PROVE Goal
  OBVIOUS
<1>0. place \in [Jobs -> Places] /\ phase \in [Jobs -> Phases] /\ ask \in [Jobs -> Nat]
  BY DEF StagingInv, TypeOK, Places, Phases
<1>1. ASSUME NEW j \in Jobs, NEW p \in Phases, Go(j, p) PROVE phase' \in [Jobs -> Phases]
  BY <1>0, <1>1 DEF Go
<1>2. ASSUME NEW j \in Jobs, NEW m, NEW p \in Phases, Keep(j, m, p)
      PROVE  phase' \in [Jobs -> Phases]
  BY <1>0, <1>2 DEF Keep, Phases
<1>3. ASSUME NEW j \in Jobs, Route(j) PROVE Goal
  <2>1. "reserve" \in Phases /\ "spool" \in Phases
    BY DEF Phases
  <2>2. Go(j, "reserve") \/ Go(j, "spool")
    BY <1>3 DEF Route, SpoolTakes
  <2>3. ask' \in [Jobs -> Nat] /\ place' = place
    BY <1>0, <1>3, Sizes DEF Route
  <2> QED
    BY <1>0, <1>1, <2>1, <2>2, <2>3
<1>4. ASSUME NEW j \in Jobs, Headers(j) PROVE Goal
  <2>1. "body" \in Phases /\ "reserveAgain" \in Phases
    BY DEF Phases
  <2>2. Go(j, "body") \/ Keep(j, 0, "reserveAgain")
    BY <1>4 DEF Headers
  <2>3. PICK length \in {Body[j], Threshold} :
           ask' = [ask EXCEPT ![j] = AtMost(length, Threshold)] \/ ask' = ask
    BY <1>4 DEF Headers
  <2>4. AtMost(length, Threshold) \in Nat
    BY Sizes DEF AtMost
  <2>5. ask' \in [Jobs -> Nat] /\ place' = place
    BY <1>0, <1>4, <2>3, <2>4 DEF Headers
  <2> QED
    BY <1>0, <1>1, <1>2, <2>1, <2>2, <2>5
<1>5. ASSUME NEW j \in Jobs,
             Reroute(j) \/ SpoolRefused(j) \/ Reserve(j) \/ Chunk(j) \/ SpoolFails(j)
      PROVE  Goal
  <2>1. ask' = ask /\ place' = place
    BY <1>5 DEF Reroute, SpoolRefused, Reserve, Chunk, SpoolFails
  <2>2. \E p \in {"spool", "failed", "headers", "body", "waits", "waitsAgain", "fetched"} :
           Go(j, p)
    BY <1>5 DEF Reroute, SpoolRefused, Reserve, Chunk, SpoolFails, SpoolTakes
  <2>3. \E p \in Phases : Go(j, p)
    BY <2>2 DEF Phases
  <2> QED
    BY <1>0, <1>1, <2>1, <2>3
<1>6. ASSUME NEW j \in Jobs, BodyRead(j) \/ InputFails(j) \/ Analyzed(j) PROVE Goal
  <2>1. ask' = ask /\ \E p \in {"fetched", "reroute", "failed", "none"} : \E m : Keep(j, m, p)
    BY <1>6 DEF BodyRead, InputFails, Analyzed
  <2>2. \E p \in Phases : \E m : Keep(j, m, p)
    BY <2>1 DEF Phases
  <2>3. place' = place \/ place' = [place EXCEPT ![j] = "done"]
    BY <1>6 DEF BodyRead, InputFails, Analyzed
  <2>4. place' \in [Jobs -> Places]
    BY <1>0, <2>3 DEF Places
  <2> QED
    BY <1>0, <1>2, <2>1, <2>2, <2>4
<1>7. ASSUME NEW j \in Jobs, Prefetch(j) \/ Stage(j) \/ Dispatch(j) PROVE Goal
  <2>1. ask' = ask /\ (phase' = phase \/ \E p \in {"route", phase[j]} : Go(j, p))
    BY <1>7 DEF Prefetch, Stage, Dispatch
  <2>2. phase' = phase \/ \E p \in Phases : Go(j, p)
    BY <1>0, <2>1 DEF Phases
  <2>3. \E q \in {"prefetch", "staged", "tail"} : place' = [place EXCEPT ![j] = q]
    BY <1>7 DEF Prefetch, Stage, Dispatch
  <2>4. place' \in [Jobs -> Places]
    BY <1>0, <2>3 DEF Places
  <2> QED
    BY <1>0, <1>1, <2>1, <2>2, <2>4
<1>8. CASE UNCHANGED vars
  BY <1>0, <1>8 DEF vars
<1> QED
  BY <1>3, <1>4, <1>5, <1>6, <1>7, <1>8 DEF Next, Download

LEMMA TypeStep == StagingInv /\ [Next]_vars => TypeOK'
BY MemoryStep, SpoolStep, PhaseStep DEF TypeOK, Places, Phases

\* What a download holds, in every phase it goes to.
LEMMA HoldsStep == StagingInv /\ [Next]_vars => HoldsInv'
<1> SUFFICES ASSUME StagingInv, [Next]_vars PROVE HoldsInv'
  OBVIOUS
<1>0. TypeOK /\ HoldsInv /\ TypeOK'
  BY TypeStep DEF StagingInv
\* What is said of one job, so that a step may be looked at through the job that takes it.
<1> DEFINE Holds(k) == /\ place[k] = "claimed" => phase[k] = "none"
                       /\ phase[k] \notin {"headers", "body", "fetched"} => memory[k] = 0
                       /\ phase[k] \notin {"spool", "fetched"} => spooled[k] = 0 /\ written[k] = 0
                       /\ phase[k] = "fetched" /\ spooled[k] = 0 => memory[k] = Body[k]
<1>1. ASSUME NEW j \in Jobs, Holds(j)',
             \A k \in Jobs \ {j} :
                /\ UNCHANGED <<place[k], memory[k], spooled[k], written[k]>>
                /\ \/ phase'[k] = phase[k]
                   \/ phase[k] = "waits" /\ phase'[k] = "reserve"
                   \/ phase[k] = "waitsAgain" /\ phase'[k] = "reserveAgain"
      PROVE  HoldsInv'
  BY <1>0, <1>1 DEF HoldsInv
<1>2. ASSUME NEW j \in Jobs,
             \/ Route(j) \/ Reroute(j) \/ SpoolRefused(j) \/ Reserve(j) \/ Headers(j)
             \/ BodyRead(j) \/ InputFails(j) \/ Chunk(j) \/ SpoolFails(j)
             \/ Prefetch(j) \/ Stage(j) \/ Dispatch(j) \/ Analyzed(j)
      PROVE  \A k \in Jobs \ {j} :
                /\ UNCHANGED <<place[k], memory[k], spooled[k], written[k]>>
                /\ \/ phase'[k] = phase[k]
                   \/ phase[k] = "waits" /\ phase'[k] = "reserve"
                   \/ phase[k] = "waitsAgain" /\ phase'[k] = "reserveAgain"
  <2>1. CASE Route(j) \/ Reroute(j) \/ SpoolRefused(j) \/ Reserve(j) \/ Chunk(j) \/ SpoolFails(j)
    BY <1>0, <2>1 DEF Route, Reroute, SpoolRefused, Reserve, Chunk, SpoolFails, SpoolTakes,
       SpoolDropped, Go, TypeOK
  <2>2. CASE Headers(j) \/ BodyRead(j) \/ InputFails(j)
    BY <1>0, <2>2 DEF Headers, BodyRead, InputFails, Keep, Go, TypeOK
  <2>3. CASE Analyzed(j)
    BY <1>0, <2>3 DEF Analyzed, Keep, SpoolDropped, TypeOK
  <2>4. CASE Prefetch(j) \/ Stage(j) \/ Dispatch(j)
    BY <1>0, <2>4 DEF Prefetch, Stage, Dispatch, Go, TypeOK
  <2> QED
    BY <1>2, <2>1, <2>2, <2>3, <2>4
<1>3. ASSUME NEW j \in Jobs, Route(j) \/ Reroute(j) \/ SpoolRefused(j) PROVE Holds(j)'
  <2>1. /\ place[j] # "claimed" /\ memory[j] = 0
        /\ phase[j] \in {"route", "reroute"} /\ spooled[j] = 0 /\ written[j] = 0
    BY <1>0, <1>3 DEF Route, Reroute, SpoolRefused, HoldsInv
  <2>2. UNCHANGED <<place, memory, written>>
    BY <1>3 DEF Route, Reroute, SpoolRefused
  <2>3. \/ spooled' = spooled /\ phase'[j] \in {"reserve", "failed"}
        \/ phase'[j] = "spool"
    BY <1>0, <1>3 DEF Route, Reroute, SpoolRefused, SpoolTakes, Go, TypeOK
  <2> QED
    BY <2>1, <2>2, <2>3
<1>4. ASSUME NEW j \in Jobs, Reserve(j) PROVE Holds(j)'
  <2>1. /\ place[j] # "claimed" /\ memory[j] = 0 /\ spooled[j] = 0 /\ written[j] = 0
        /\ UNCHANGED <<place, spooled, written>>
    BY <1>0, <1>4 DEF Reserve, Reserving, HoldsInv
  <2>2. \/ phase'[j] \in {"headers", "body"}
        \/ phase'[j] \in {"waits", "waitsAgain"} /\ memory' = memory
    BY <1>0, <1>4 DEF Reserve, Go, TypeOK
  <2> QED
    BY <2>1, <2>2
<1>5. ASSUME NEW j \in Jobs, Headers(j) \/ BodyRead(j) \/ InputFails(j) PROVE Holds(j)'
  <2>1. /\ place[j] # "claimed" /\ spooled[j] = 0 /\ written[j] = 0
        /\ UNCHANGED <<place, spooled, written>>
    BY <1>0, <1>5 DEF Headers, BodyRead, InputFails, HoldsInv
  <2>2. \/ phase'[j] \in {"reserveAgain", "reroute", "failed"} /\ memory'[j] = 0
        \/ phase'[j] = "body"
        \/ phase'[j] = "fetched" /\ memory'[j] = Body[j]
    BY <1>0, <1>5 DEF Headers, BodyRead, InputFails, Keep, Go, TypeOK
  <2> QED
    BY <2>1, <2>2
<1>6. ASSUME NEW j \in Jobs, Chunk(j) PROVE Holds(j)'
  <2>1. PICK w \in (written[j] + 1) .. Body[j] :
           /\ SpoolTakes(j, Covered(j, w), IF w = Body[j] THEN "fetched" ELSE "spool")
           /\ written' = [written EXCEPT ![j] = w]
    BY <1>6 DEF Chunk
  <2>2. w \in 1 .. Body[j]
    BY <1>0, <2>1, Sizes DEF TypeOK
  <2>3. Covered(j, w) \in Nat /\ w <= Covered(j, w)
    BY <2>2, CoverIsEnough DEF StagingInv
  <2>4. spooled'[j] = Covered(j, w) /\ phase'[j] \in {"fetched", "spool"}
    BY <1>0, <2>1 DEF SpoolTakes, Go, TypeOK
  <2>5. spooled'[j] # 0
    BY <2>2, <2>3, <2>4, Sizes
  <2>6. memory[j] = 0 /\ place[j] # "claimed" /\ UNCHANGED <<place, memory>>
    BY <1>0, <1>6 DEF Chunk, HoldsInv
  <2> QED
    BY <2>4, <2>5, <2>6
<1>7. ASSUME NEW j \in Jobs, SpoolFails(j) PROVE Holds(j)'
  <2>1. /\ place[j] # "claimed" /\ memory[j] = 0 /\ UNCHANGED <<place, memory>>
        /\ phase'[j] = "failed" /\ spooled'[j] = 0 /\ written'[j] = 0
    BY <1>0, <1>7 DEF SpoolFails, SpoolDropped, Go, HoldsInv, TypeOK
  <2> QED
    BY <2>1
<1>8. ASSUME NEW j \in Jobs, Prefetch(j) \/ Stage(j) \/ Dispatch(j) PROVE Holds(j)'
  <2>1. UNCHANGED <<memory, spooled, written>> /\ place'[j] # "claimed"
    BY <1>0, <1>8 DEF Prefetch, Stage, Dispatch, TypeOK
  <2>2. \/ phase'[j] = phase[j]
        \/ phase[j] \in {"none", "failed"} /\ phase'[j] = "route"
    BY <1>0, <1>8 DEF Prefetch, Stage, Dispatch, Go, HoldsInv, TypeOK
  <2> QED
    BY <1>0, <2>1, <2>2 DEF HoldsInv
<1>9. ASSUME NEW j \in Jobs, Analyzed(j) PROVE Holds(j)'
  <2>1. /\ place'[j] = "done" /\ phase'[j] = "none" /\ memory'[j] = 0
        /\ spooled'[j] = 0 /\ written'[j] = 0
    BY <1>0, <1>9 DEF Analyzed, Keep, SpoolDropped, TypeOK
  <2> QED
    BY <2>1
<1>10. CASE UNCHANGED vars
  BY <1>0, <1>10 DEF vars, HoldsInv
<1> HIDE DEF Holds
<1> QED
  BY <1>1, <1>2, <1>3, <1>4, <1>5, <1>6, <1>7, <1>8, <1>9, <1>10 DEF Next, Download

\* A step that gives bytes back wakes every sleeper, and no other lowers what is used.
LEMMA WaitsStep == StagingInv /\ [Next]_vars => WaitsInv'
<1> SUFFICES ASSUME StagingInv, [Next]_vars PROVE WaitsInv'
  OBVIOUS
<1>0. TypeOK /\ HoldsInv /\ WaitsInv /\ MemoryExact /\ TypeOK'
  BY TypeStep DEF StagingInv
\* What is said of one job.
<1> DEFINE Waits(k) == /\ place[k] = "done" => phase[k] = "none"
                       /\ phase[k] \in Reserving \cup Waiting => ask[k] <= Limit
                       /\ phase[k] \in Waiting => used + ask[k] > Limit
<1>1. ASSUME NEW j \in Jobs, Waits(j)', used' >= used,
             \A k \in Jobs \ {j} : UNCHANGED <<place[k], ask[k], phase[k]>>
      PROVE  WaitsInv'
  BY <1>0, <1>1, Sizes DEF WaitsInv, TypeOK
<1>2. ASSUME NEW j \in Jobs, Waits(j)',
             \A k \in Jobs \ {j} :
                /\ UNCHANGED <<place[k], ask[k]>> /\ phase'[k] \notin Waiting
                /\ \/ phase'[k] = phase[k]
                   \/ phase[k] \in Waiting /\ phase'[k] \in Reserving
      PROVE  WaitsInv'
  BY <1>0, <1>2 DEF WaitsInv, Waiting, Reserving
<1>3. ASSUME NEW j \in Jobs, NEW m, NEW p, Keep(j, m, p)
      PROVE  \A k \in Jobs \ {j} :
                /\ phase'[k] \notin Waiting
                /\ phase'[k] = phase[k] \/ (phase[k] \in Waiting /\ phase'[k] \in Reserving)
  <2> SUFFICES ASSUME NEW k \in Jobs \ {j}
               PROVE  /\ phase'[k] \notin Waiting
                      /\ phase'[k] = phase[k] \/ (phase[k] \in Waiting /\ phase'[k] \in Reserving)
    OBVIOUS
  <2>1. phase'[k] = CASE phase[k] = "waits" -> "reserve"
                      [] phase[k] = "waitsAgain" -> "reserveAgain"
                      [] OTHER -> phase[k]
    BY <1>3 DEF Keep
  <2>2. CASE phase[k] \in Waiting
    BY <2>1, <2>2 DEF Waiting, Reserving
  <2>3. CASE phase[k] \notin Waiting
    <3>1. phase[k] # "waits" /\ phase[k] # "waitsAgain"
      BY <2>3 DEF Waiting
    <3>2. phase'[k] = phase[k]
      BY <2>1, <3>1
    <3>3. phase'[k] \notin Waiting
      BY <3>1, <3>2 DEF Waiting
    <3> QED
      BY <3>2, <3>3
  <2> QED
    BY <2>2, <2>3
<1>4. ASSUME NEW j \in Jobs, Route(j) PROVE WaitsInv'
  <2>1. UNCHANGED <<place, used>> /\ place[j] # "done"
    BY <1>0, <1>4 DEF Route, WaitsInv
  <2>2. \/ phase'[j] = "reserve" /\ ask'[j] <= Limit
        \/ phase'[j] = "spool"
    BY <1>0, <1>4, Sizes DEF Route, SpoolTakes, Go, TypeOK
  <2>3. \A k \in Jobs \ {j} : UNCHANGED <<place[k], ask[k], phase[k]>>
    BY <1>0, <1>4, Sizes DEF Route, SpoolTakes, Go, TypeOK
  <2>4. used' >= used
    BY <1>0, <2>1 DEF TypeOK
  <2> QED
    BY <1>1, <2>1, <2>2, <2>3, <2>4 DEF Waiting, Reserving
<1>5. ASSUME NEW j \in Jobs, Reserve(j) PROVE WaitsInv'
  <2>1. /\ UNCHANGED <<place, ask>> /\ place[j] # "done" /\ ask[j] <= Limit
        /\ \A k \in Jobs \ {j} : phase'[k] = phase[k]
    BY <1>0, <1>5 DEF Reserve, Reserving, Go, WaitsInv, TypeOK
  <2>2. \/ used' = used + ask[j] /\ phase'[j] \in {"headers", "body"}
        \/ used' = used /\ used + ask[j] > Limit
    BY <1>0, <1>5, Sizes DEF Reserve, Go, TypeOK
  <2>3. used' >= used
    BY <1>0, <2>2 DEF TypeOK
  <2> QED
    BY <1>1, <2>1, <2>2, <2>3 DEF Waiting, Reserving
<1>6. ASSUME NEW j \in Jobs, Headers(j) PROVE WaitsInv'
  <2>1. place' = place /\ place[j] # "done"
    BY <1>0, <1>6 DEF Headers, WaitsInv
  <2>2. PICK length \in {Body[j], Threshold} :
           \/ ask' = [ask EXCEPT ![j] = AtMost(length, Threshold)] /\ Keep(j, 0, "reserveAgain")
           \/ Go(j, "body") /\ UNCHANGED <<ask, memory, used>>
    BY <1>6 DEF Headers
  <2>3. AtMost(length, Threshold) <= Limit
    BY Sizes DEF AtMost
  <2>4. CASE ask' = [ask EXCEPT ![j] = AtMost(length, Threshold)] /\ Keep(j, 0, "reserveAgain")
    <3>1. phase'[j] = "reserveAgain" /\ ask'[j] <= Limit
      BY <1>0, <2>3, <2>4 DEF Keep, TypeOK
    <3>2. \A k \in Jobs \ {j} : UNCHANGED <<place[k], ask[k]>>
      BY <1>0, <2>1, <2>4 DEF TypeOK
    <3>3. \A k \in Jobs \ {j} :
             /\ phase'[k] \notin Waiting
             /\ phase'[k] = phase[k] \/ (phase[k] \in Waiting /\ phase'[k] \in Reserving)
      BY <1>3, <2>4
    <3>4. Waits(j)'
      BY <2>1, <3>1 DEF Waiting, Reserving
    <3> HIDE DEF Waits
    <3> QED
      BY <1>2, <3>2, <3>3, <3>4
  <2>5. CASE Go(j, "body") /\ UNCHANGED <<ask, memory, used>>
    <3>1. phase'[j] = "body" /\ \A k \in Jobs \ {j} : UNCHANGED <<place[k], ask[k], phase[k]>>
      BY <1>0, <2>1, <2>5 DEF Go, TypeOK
    <3>2. used' >= used
      BY <1>0, <2>5 DEF TypeOK
    <3> QED
      BY <1>1, <2>1, <3>1, <3>2 DEF Waiting, Reserving
  <2> QED
    BY <2>2, <2>4, <2>5
<1>7. ASSUME NEW j \in Jobs, BodyRead(j) \/ InputFails(j) \/ Analyzed(j) PROVE WaitsInv'
  <2>1. PICK p \in {"fetched", "reroute", "failed", "none"} : \E m : Keep(j, m, p)
    BY <1>7 DEF BodyRead, InputFails, Analyzed
  <2>2. phase'[j] = p
    BY <1>0, <2>1 DEF Keep, TypeOK
  <2>3. /\ UNCHANGED ask
        /\ \A k \in Jobs \ {j} : place'[k] = place[k]
        /\ place'[j] = "done" => phase'[j] = "none"
    BY <1>0, <1>7 DEF BodyRead, InputFails, Analyzed, Keep, WaitsInv, TypeOK
  <2> QED
    BY <1>2, <1>3, <2>1, <2>2, <2>3 DEF Waiting, Reserving
<1>8. ASSUME NEW j \in Jobs,
             \/ Reroute(j) \/ SpoolRefused(j) \/ Chunk(j) \/ SpoolFails(j)
             \/ Prefetch(j) \/ Stage(j) \/ Dispatch(j)
      PROVE  WaitsInv'
  <2>1. /\ UNCHANGED <<ask, used>>
        /\ \A k \in Jobs \ {j} : UNCHANGED <<place[k], phase[k]>>
    BY <1>0, <1>8 DEF Reroute, SpoolRefused, Chunk, SpoolFails, Prefetch, Stage, Dispatch,
       SpoolTakes, Go, TypeOK
  <2>2. place'[j] # "done"
    BY <1>0, <1>8 DEF Reroute, SpoolRefused, Chunk, SpoolFails, Prefetch, Stage, Dispatch,
       WaitsInv, TypeOK
  <2>3. phase'[j] \in {phase[j], "spool", "failed", "fetched", "route"}
    BY <1>0, <1>8 DEF Reroute, SpoolRefused, Chunk, SpoolFails, Prefetch, Stage, Dispatch,
       SpoolTakes, Go, TypeOK
  <2>4. used' >= used
    BY <1>0, <2>1 DEF TypeOK
  <2> QED
    BY <1>0, <1>1, <2>1, <2>2, <2>3, <2>4 DEF WaitsInv, Waiting, Reserving
<1>9. CASE UNCHANGED vars
  BY <1>0, <1>9 DEF vars, WaitsInv
<1> HIDE DEF Waits
<1> QED
  BY <1>4, <1>5, <1>6, <1>7, <1>8, <1>9 DEF Next, Download

----------------------------------------------------------------------------
(* What the run checks                                                     *)

LEMMA StagingInitInv == Init => StagingInv
<1> SUFFICES ASSUME Init PROVE StagingInv
  OBVIOUS
<1>1. TypeOK /\ HoldsInv /\ WaitsInv
  BY DEF Init, TypeOK, HoldsInv, WaitsInv, Waiting, Reserving
<1>2. /\ Bytes(memory) = {} /\ Bytes(spooled) = {}
      /\ Total(memory) = Cardinality(Bytes(memory)) /\ Total(spooled) = Cardinality(Bytes(spooled))
  BY DEF Init, Bytes, Total, Top
<1>3. /\ IsFiniteSet(Bytes(memory)) /\ IsFiniteSet(Bytes(spooled))
      /\ Total(memory) = 0 /\ Total(spooled) = 0
  BY <1>2, FS_EmptySet
<1>4. MemoryExact /\ SpoolExact
  BY <1>3, Sizes DEF Init, MemoryExact, SpoolExact
<1> QED
  BY <1>1, <1>4 DEF StagingInv

\* The invariant of the staging budgets holds in every run.
THEOREM StagingInvariant == Spec => []StagingInv
<1>1. StagingInv /\ [Next]_vars => StagingInv'
  BY TypeStep, HoldsStep, WaitsStep, MemoryStep, SpoolStep DEF StagingInv
<1> QED
  BY <1>1, StagingInitInv, PTL DEF Spec

\* Nobody waits for bytes that no one holds: if every job were blocked, no tail would be
\* taken, so nobody but a download would have memory, and those all sleep without any.
LEMMA SomebodyGoesOn == StagingInv => NobodyIsStuck
<1> SUFFICES ASSUME StagingInv PROVE NobodyIsStuck
  OBVIOUS
<1>0. TypeOK /\ HoldsInv /\ WaitsInv /\ MemoryExact
  BY DEF StagingInv
<1>1. \A j \in Jobs : phase[j] \in Waiting =>
         memory[j] = 0 /\ ask[j] <= Limit /\ used + ask[j] > Limit
  BY <1>0 DEF HoldsInv, WaitsInv, Waiting
<1>2. ASSUME ~TailDownloads, \A j \in Jobs : place[j] # "done" => Blocked(j)
      PROVE  \A j \in Jobs : place[j] = "done"
  <2>1. \A j \in Jobs : place[j] # "tail"
    BY <1>2 DEF Blocked, TailDownloads
  <2>2. PermitFree("tail", TailCap)
    <3>1. {j \in Jobs : place[j] = "tail"} = {}
      BY <2>1
    <3> QED
      BY <3>1, FS_EmptySet, SizesAssumption DEF PermitFree
  <2>3. \A j \in Jobs : place[j] \in {"done", "claimed"} \/ phase[j] \in Waiting
    BY <1>2, <2>2 DEF Blocked, Waiting
  <2>4. \A j \in Jobs : memory[j] = 0
    BY <1>0, <1>1, <2>3 DEF HoldsInv, WaitsInv
  <2>5. used = 0
    BY <1>0, <2>4, TotalZero, Sizes DEF MemoryExact, TypeOK
  <2>6. \A j \in Jobs : phase[j] \notin Waiting
    BY <1>0, <1>1, <2>5, Sizes DEF TypeOK
  <2>7. PermitFree("prefetch", Downloads)
    <3>1. {j \in Jobs : place[j] = "prefetch"} = {}
      BY <2>3, <2>6
    <3> QED
      BY <3>1, FS_EmptySet, SizesAssumption DEF PermitFree
  <2> QED
    BY <1>2, <2>3, <2>6, <2>7 DEF Blocked, Waiting
<1> QED
  BY <1>1, <1>2 DEF NobodyIsStuck, Waiting

\* For any jobs, sizes and hints: both budgets are what the jobs hold, memory never passes its
\* limit, the spool only for a payload that was alone, each byte of a payload is covered
\* where it is, from its arrival to the end of the analysis (InputBudget, SpoolState), and
\* the reservations never wait for one another in a circle (download_input).
THEOREM BytesStayCovered == Spec => []BudgetsHold
<1>1. StagingInv => BudgetsHold
  <2> SUFFICES ASSUME StagingInv PROVE BudgetsHold
    OBVIOUS
  <2>1. TypeOK /\ MemoryCovered
    BY DEF StagingInv, MemoryExact, HoldsInv, MemoryCovered
  <2>2. ASSUME spoolUsed > SpoolBudget PROVE Cardinality({j \in Jobs : spooled[j] > 0}) = 1
    <3>1. PICK i \in Jobs : \A k \in Jobs : spooled[k] > 0 <=> k = i
      BY <2>2 DEF StagingInv, SpoolExact
    <3>2. {j \in Jobs : spooled[j] > 0} = {i}
      BY <3>1
    <3> QED
      BY <3>2, FS_Singleton
  <2> QED
    BY <2>1, <2>2, SomebodyGoesOn DEF StagingInv, SpoolExact, SpoolCovered, BudgetsHold
<1> QED
  BY <1>1, StagingInvariant, PTL
=============================================================================
