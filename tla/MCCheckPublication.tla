-------------------------- MODULE MCCheckPublication --------------------------
(***************************************************************************)
(* Instances of CheckPublication for TLC.                                  *)
(***************************************************************************)
EXTENDS CheckPublication

===============================================================================
