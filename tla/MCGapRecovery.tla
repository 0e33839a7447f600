--------------------------- MODULE MCGapRecovery ---------------------------
(* Instances of GapRecovery for TLC; the constants are in the .cfg files.   *)
EXTENDS GapRecovery
=============================================================================
