-------------------------- MODULE MCStagingBudget ---------------------------
(* Small instances of StagingBudget for TLC.                                *)
EXTENDS StagingBudget

CONSTANTS
    honest,    \* says 2 and is 2
    small,     \* says 1 and is 1
    unknown,   \* says nothing and is 1
    understated, \* says 1 and is 2
    outgrown,  \* says 1 and is too large for memory
    large      \* says 3, which goes to the spool, and is 4

MCHint == [j \in Jobs |-> CASE j = honest -> 2 [] j = small -> 1 [] j = unknown -> 0
                              [] j = understated -> 1 [] j = outgrown -> 1
                              [] j = large -> 3]

MCBody == [j \in Jobs |-> CASE j = honest -> 2 [] j = small -> 1 [] j = unknown -> 1
                              [] j = understated -> 2 [] j = outgrown -> 4
                              [] j = large -> 4]
=============================================================================
