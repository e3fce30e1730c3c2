---------------------------- MODULE MCAttention ----------------------------
(* Attention with model values for TLC. *)
EXTENDS Attention
=============================================================================
