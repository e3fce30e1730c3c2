----------------------------- MODULE MCV3Ingress -----------------------------
(* V3Ingress with model values for TLC. *)
EXTENDS V3Ingress
=============================================================================
