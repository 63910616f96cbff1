--------------------------- MODULE ScratchTrees ---------------------------
(***************************************************************************)
(* The temporary directory a process owns, and the sweep of those that     *)
(* died without removing theirs: src/src/temp_space.rs.  A marker inside   *)
(* the tree carries the lock of its owner.  The kernel drops a lock when   *)
(* its process dies, which it may at any step; what is on disk stays.      *)
(***************************************************************************)
EXTENDS Naturals, Sequences

CONSTANTS
    Procs,   \* processes; each makes one tree, which bears its name
    NoProc

ASSUME ScratchAssumption == NoProc \notin Procs

VARIABLES
    tsPhase,    \* making, sweeping, opened, removing, running, closing, ended, failed, dead
    tsStage,    \* how many of the Making steps a process has taken
    tsTree,     \* what is on disk of a tree: itself, its owner file, what was written to it
    tsHolder,   \* who holds the lock of its owner file
    tsTodo,     \* the entries of the directory its sweep has still to meet
    tsOpen,     \* the tree whose marker its sweep has open
    tsOwed      \* history: trees abandoned since its sweep began that nothing else touched

scratchVars == <<tsPhase, tsStage, tsTree, tsHolder, tsTodo, tsOpen, tsOwed>>

Entries == {"dir", "temp", "marker", "data"}
ScratchPhases == {"making", "sweeping", "opened", "removing", "running", "closing",
            "ended", "failed", "dead"}

ScratchInit ==
    /\ tsPhase = [p \in Procs |-> "making"] /\ tsStage = [p \in Procs |-> 0]
    /\ tsTree = [p \in Procs |-> {}] /\ tsHolder = [p \in Procs |-> NoProc]
    /\ tsTodo = [p \in Procs |-> {}] /\ tsOpen = [p \in Procs |-> NoProc]
    /\ tsOwed = [p \in Procs |-> {}]

In(p, phase) == tsPhase[p] = phase
Become(p, phase) == tsPhase' = [tsPhase EXCEPT ![p] = phase]
TreeBecomes(t, entries) == tsTree' = [tsTree EXCEPT ![t] = entries]

Marked(t) == "marker" \in tsTree[t]
Abandoned(t) == Marked(t) /\ tsHolder[t] = NoProc

----------------------------------------------------------------------------
(* Scratch::in_dir                                                         *)

\* Mutation: the marker is published before the lock is taken.
MakingPublished == <<"dir", "temp", "marker", "lock">>

\* Lock before publishing the marker.
Making == <<"dir", "temp", "lock", "marker">>

MakeStep(p) ==
    /\ In(p, "making") /\ tsStage[p] < 4
    /\ LET step == Making[tsStage[p] + 1] IN
       /\ \/ step = "lock" /\ tsHolder[p] = NoProc
             /\ tsHolder' = [tsHolder EXCEPT ![p] = p] /\ UNCHANGED tsTree
          \/ step = "marker" /\ TreeBecomes(p, (tsTree[p] \ {"temp"}) \cup {"marker"})
             /\ UNCHANGED tsHolder
          \/ step \in {"dir", "temp"} /\ TreeBecomes(p, tsTree[p] \cup {step})
             /\ UNCHANGED tsHolder
    /\ tsStage' = [tsStage EXCEPT ![p] = @ + 1]
    /\ UNCHANGED <<tsPhase, tsTodo, tsOpen, tsOwed>>

\* An error drops what was made so far, as far as it can be removed.
MakeFails(p) ==
    /\ In(p, "making") /\ tsStage[p] \in 1 .. 3 /\ Become(p, "failed")
    /\ \E left \in {{}, tsTree[p]} : TreeBecomes(p, left)
    /\ tsHolder' = [tsHolder EXCEPT ![p] = NoProc]
    /\ UNCHANGED <<tsStage, tsTodo, tsOpen, tsOwed>>

----------------------------------------------------------------------------
(* cleanup_abandoned                                                       *)

\* The listing holds what was there when it began, and may hold what came later.
SweepBegins(p) ==
    /\ In(p, "making") /\ tsStage[p] = 4 /\ Become(p, "sweeping")
    /\ \E listed \in SUBSET Procs :
          {t \in Procs : tsTree[t] # {}} \subseteq listed /\ tsTodo' = [tsTodo EXCEPT ![p] = listed]
    /\ tsOwed' = [tsOwed EXCEPT ![p] = {t \in Procs : Abandoned(t)}]
    /\ UNCHANGED <<tsStage, tsTree, tsHolder, tsOpen>>

\* The scratch of an idle worker is not followed by a sweep, nor is one whose parent
\* cannot be listed.
NoSweep(p) ==
    /\ In(p, "making") /\ tsStage[p] = 4 /\ Become(p, "running")
    /\ UNCHANGED <<tsStage, tsTree, tsHolder, tsTodo, tsOpen, tsOwed>>

\* Only a directory with a marker is looked at.
Meet(p, t) ==
    /\ In(p, "sweeping") /\ t \in tsTodo[p]
    /\ tsTodo' = [tsTodo EXCEPT ![p] = @ \ {t}]
    /\ IF Marked(t) THEN Become(p, "opened") /\ tsOpen' = [tsOpen EXCEPT ![p] = t]
                    ELSE UNCHANGED <<tsPhase, tsOpen>>
    /\ UNCHANGED <<tsStage, tsTree, tsHolder, tsOwed>>

\* A tree in use is passed over.
InUse == "sweeping"

\* try_lock on the file that was opened, whether or not it still has a name.
TryLock(p) ==
    /\ In(p, "opened")
    /\ LET t == tsOpen[p] IN
       IF tsHolder[t] = NoProc
       THEN /\ tsHolder' = [tsHolder EXCEPT ![t] = p] /\ Become(p, "removing")
            /\ tsOwed' = [q \in Procs |-> IF q = p THEN tsOwed[q] ELSE tsOwed[q] \ {t}]
            /\ UNCHANGED <<tsTodo, tsOpen>>
       ELSE /\ tsOpen' = [tsOpen EXCEPT ![p] = NoProc] /\ Become(p, InUse)
            /\ UNCHANGED <<tsHolder, tsTodo, tsOwed>>
    /\ UNCHANGED <<tsStage, tsTree>>

\* An entry, a marker or a lock that cannot be read is passed over.
PassOver(p, t) ==
    /\ \/ In(p, "sweeping") /\ t \in tsTodo[p]
       \/ In(p, "opened") /\ t = tsOpen[p]
    /\ Become(p, "sweeping") /\ tsOpen' = [tsOpen EXCEPT ![p] = NoProc]
    /\ tsTodo' = [tsTodo EXCEPT ![p] = @ \ {t}] /\ tsOwed' = [tsOwed EXCEPT ![p] = @ \ {t}]
    /\ UNCHANGED <<tsStage, tsTree, tsHolder>>

SweepEnds(p) ==
    /\ In(p, "sweeping") /\ tsTodo[p] = {} /\ Become(p, "running")
    /\ UNCHANGED <<tsStage, tsTree, tsHolder, tsTodo, tsOpen, tsOwed>>

----------------------------------------------------------------------------
(* Use and removal                                                         *)

\* The tree a process is removing: its own at Drop, another in its sweep.
Removes(p, t) == (In(p, "closing") /\ t = p) \/ (In(p, "removing") /\ t = tsOpen[p])

\* Threads that outlive the run still write while the tree is being removed.
Write(p) ==
    /\ tsPhase[p] \in {"running", "closing"} /\ "dir" \in tsTree[p]
    /\ TreeBecomes(p, tsTree[p] \cup {"data"})
    /\ UNCHANGED <<tsPhase, tsStage, tsHolder, tsTodo, tsOpen, tsOwed>>

\* Drop takes the directory and closes it, with the lock still held.
DropHolds(p) == tsHolder

Drop(p) ==
    /\ In(p, "running") /\ Become(p, "closing")
    /\ tsHolder' = DropHolds(p)
    /\ UNCHANGED <<tsStage, tsTree, tsTodo, tsOpen, tsOwed>>

\* remove_dir_all, one entry at a time in the order of the directory.
RemoveEntry(p, t) ==
    /\ Removes(p, t)
    /\ \E e \in tsTree[t] :
          /\ e = "dir" => tsTree[t] = {"dir"}
          /\ TreeBecomes(t, tsTree[t] \ {e})
    /\ UNCHANGED <<tsPhase, tsStage, tsHolder, tsTodo, tsOpen, tsOwed>>

\* It has removed everything, or it fails with an error; either way the lock goes.
LeaveTree(p, t) ==
    /\ Removes(p, t)
    /\ tsHolder' = [tsHolder EXCEPT ![t] = NoProc]
    /\ tsOpen' = [tsOpen EXCEPT ![p] = NoProc]
    /\ IF In(p, "removing")
       THEN /\ Become(p, "sweeping")
            /\ tsOwed' = [tsOwed EXCEPT ![p] = IF tsTree[t] = {} THEN @ ELSE @ \ {t}]
       ELSE /\ Become(p, IF tsTree[t] = {} THEN "ended" ELSE "failed") /\ UNCHANGED tsOwed
    /\ UNCHANGED <<tsStage, tsTree, tsTodo>>

\* SIGKILL, an abort or process::exit: nothing is run, every lock is let go.
Kill(p) ==
    /\ tsPhase[p] \notin {"ended", "failed", "dead"} /\ Become(p, "dead")
    /\ tsHolder' = [t \in Procs |-> IF tsHolder[t] = p THEN NoProc ELSE tsHolder[t]]
    /\ tsOpen' = [tsOpen EXCEPT ![p] = NoProc]
    /\ UNCHANGED <<tsStage, tsTree, tsTodo, tsOwed>>

ScratchNext ==
    \E p \in Procs :
        \/ MakeStep(p) \/ MakeFails(p) \/ SweepBegins(p) \/ NoSweep(p) \/ TryLock(p)
        \/ SweepEnds(p) \/ Write(p) \/ Drop(p) \/ Kill(p)
        \/ \E t \in Procs : Meet(p, t) \/ PassOver(p, t) \/ RemoveEntry(p, t) \/ LeaveTree(p, t)

ScratchSpec == ScratchInit /\ [][ScratchNext]_scratchVars

----------------------------------------------------------------------------
(* Properties                                                              *)

\* A process that makes or uses its tree finds it there: no sweep takes a
\* directory that is not locked yet for an abandoned one (in_dir).
Uses(p) == tsPhase[p] \in {"making", "sweeping", "opened", "removing", "running"}

LiveTreeNeverSwept ==
    \A p \in Procs :
        /\ Uses(p) /\ tsStage[p] > 0 => "dir" \in tsTree[p]
        /\ Uses(p) /\ tsStage[p] = 4 => "marker" \in tsTree[p]

\* Two processes never remove the same tree, neither two sweeps nor a sweep and
\* the Drop of its owner: the lock is kept through the removal (cleanup_stale).
OneRemovesATree ==
    \A p, q, t \in Procs : Removes(p, t) /\ Removes(q, t) => p = q

\* A sweep leaves no tree behind that was abandoned when it began, unless it could not
\* be read or removed or another sweep took it: a tree in use does not end it early.
SweepLeavesNone ==
    \A p \in Procs : In(p, "running") => \A t \in tsOwed[p] : tsTree[t] = {}

\* What the log says of a Drop that failed: "next startup will retry", which
\* takes the marker to be there still.
FailedCleanupIsRetried ==
    \A p \in Procs :
        In(p, "failed") /\ tsStage[p] = 4 => tsTree[p] = {} \/ "marker" \in tsTree[p]

ScratchTypeOK ==
    /\ tsPhase \in [Procs -> ScratchPhases] /\ tsStage \in [Procs -> 0 .. 4]
    /\ tsTree \in [Procs -> SUBSET Entries]
    /\ tsHolder \in [Procs -> Procs \cup {NoProc}]
    /\ tsTodo \in [Procs -> SUBSET Procs] /\ tsOpen \in [Procs -> Procs \cup {NoProc}]
    /\ tsOwed \in [Procs -> SUBSET Procs]

\* Nothing is removed from under a process that is alive, nor by two at once, and what
\* is abandoned goes.
TreesAreSafe == LiveTreeNeverSwept /\ OneRemovesATree /\ SweepLeavesNone
=============================================================================
