--------------------------- MODULE MCPointInTime ----------------------------
(* Small instances of PointInTime. *)
EXTENDS PointInTime, TLC
=============================================================================
