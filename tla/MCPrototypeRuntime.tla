------------------------- MODULE MCPrototypeRuntime -------------------------
(* PrototypeRuntime with model values for TLC. *)
EXTENDS PrototypeRuntime
=============================================================================
