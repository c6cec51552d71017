--------------------------- MODULE MCIndexByLevel ---------------------------
(* Instances of IndexByLevel for TLC.                                       *)
EXTENDS IndexByLevel
=============================================================================
