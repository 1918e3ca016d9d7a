---------------------------- MODULE MCRampDriver ----------------------------
(***************************************************************************)
(* RampDriver for TLC: four duty levels; rising earns two thirds and       *)
(* falling one third of a level per tick, so that no pass of one tick is   *)
(* long enough for a level and the credit decides.                         *)
(***************************************************************************)
EXTENDS RampDriver
=============================================================================
