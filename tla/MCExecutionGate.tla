-------------------------- MODULE MCExecutionGate --------------------------
(* ExecutionGate with model values for TLC. *)
EXTENDS ExecutionGate
=============================================================================
