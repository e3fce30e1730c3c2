--------------------------- MODULE MCControlPlane ---------------------------
(* ControlPlane with model values for TLC. *)
EXTENDS ControlPlane
=============================================================================
