-------------------------- MODULE MCExecutionPath --------------------------
(* Small instances of ExecutionPath for TLC.                                *)
EXTENDS ExecutionPath, MCCommandStore
=============================================================================
