--------------------------- MODULE MCV3Conversation ---------------------------
(* V3Conversation for TLC. *)
EXTENDS V3Conversation
=============================================================================
