-------------------------- MODULE MCWorkerSupervisor --------------------------
(***************************************************************************)
(* An instance of WorkerSupervisor for TLC.                                *)
(***************************************************************************)
EXTENDS WorkerSupervisor

===============================================================================
