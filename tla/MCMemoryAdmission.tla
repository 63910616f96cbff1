------------------------- MODULE MCMemoryAdmission -------------------------
(* Small instance of MemoryAdmission for TLC. *)
EXTENDS MemoryAdmission

MCOnDiskSizes == {-1, 2}
MCUsedReadings == {NoReading, 2}
=============================================================================
