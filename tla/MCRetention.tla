----------------------------- MODULE MCRetention -----------------------------
(***************************************************************************)
(* An instance of Retention for TLC: two images of the shared repository,  *)
(* and a floor of one image where the code keeps ten.                      *)
(***************************************************************************)
EXTENDS Retention
=============================================================================
