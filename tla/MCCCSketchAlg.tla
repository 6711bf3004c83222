--------------------------- MODULE MCCCSketchAlg ---------------------------
(* Instances of the connectivity algorithm for TLC.                         *)
EXTENDS CCSketchAlg, TLC

CONSTANTS s1, s2
=============================================================================
