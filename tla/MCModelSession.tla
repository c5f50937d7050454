--------------------------- MODULE MCModelSession ---------------------------
(* Instances of ModelSession for TLC.                                      *)
EXTENDS ModelSession
=============================================================================
