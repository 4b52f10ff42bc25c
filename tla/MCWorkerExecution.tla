-------------------------- MODULE MCWorkerExecution --------------------------
(***************************************************************************)
(* An instance of WorkerExecution for TLC.                                 *)
(***************************************************************************)
EXTENDS WorkerExecution

=============================================================================
