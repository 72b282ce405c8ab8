---------------------------- MODULE MCScheduler ----------------------------
(***************************************************************************)
(* The scheduler on a day of four minutes.                                 *)
(***************************************************************************)
EXTENDS Silence, TLC

CONSTANT fan

MCActions == {fan}
MCAts == {1, 3}
=============================================================================
