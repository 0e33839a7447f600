---------------------------- MODULE MCRotation ----------------------------
(* Instances of Rotation for TLC; the constants are in the .cfg files.      *)
EXTENDS Rotation
=============================================================================
