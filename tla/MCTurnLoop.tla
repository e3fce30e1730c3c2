----------------------------- MODULE MCTurnLoop -----------------------------
(* TurnLoop with the round shapes TLC explores. *)
EXTENDS TurnLoop

Round(sends, calls, ok) == [sends |-> sends, calls |-> calls, ok |-> ok]

(* Two calls after a message; content that does not parse beside a call.   *)
Mixed == {Round(1, 2, TRUE), Round(0, 1, FALSE)}

(* Two messages; one call; content that does not parse.                    *)
Messages == {Round(2, 0, TRUE), Round(0, 1, TRUE), Round(0, 0, FALSE)}
=============================================================================
