---------------------------- MODULE MCLocalIndex ----------------------------
(* Small instances of LocalIndex for TLC.                                   *)
EXTENDS LocalIndex

CONSTANTS f1, f2, d1, d2, j1, j2   \* files, digests and the jobs that look for them

\* Two files of one name and one size; both jobs want what was filed as f1, and
\* hopper gives the second the path of the other file.
MCFiles  == <<f1, f2>>
MCSizeOf == [d \in Digests |-> 1]
MCNameOf == [f \in {f1, f2} |-> "n"]
MCWantOf == [j \in Lookers |-> d1]
MCPathOf == [j \in Lookers |-> IF j = j1 THEN f1 ELSE f2]
=============================================================================
