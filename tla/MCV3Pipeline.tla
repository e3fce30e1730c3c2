---------------------------- MODULE MCV3Pipeline ----------------------------
(* V3Pipeline for TLC. *)
EXTENDS V3Pipeline
=============================================================================
