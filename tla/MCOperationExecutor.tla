------------------------- MODULE MCOperationExecutor --------------------------
(***************************************************************************)
(* An instance of OperationExecutor for TLC.                               *)
(***************************************************************************)
EXTENDS OperationExecutor

===============================================================================
