------------------------------ MODULE MCSink ------------------------------
(* Instances of Sink for TLC; the two writers are interchangeable.          *)
EXTENDS Sink, TLC

Symmetry == Permutations(Writer)
=============================================================================
