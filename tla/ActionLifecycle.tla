-------------------------- MODULE ActionLifecycle --------------------------
(***************************************************************************)
(* What the execution boundary of the V4 runtime promises of every real    *)
(* action, without reviews, calls, transactions or crashes: an action is   *)
(* authorised, attempted at most once, its effect may land at any moment   *)
(* after the attempt, and it gets one final status that never contradicts  *)
(* what happened.  ExecutionGate implements this specification.            *)
(***************************************************************************)
EXTENDS Naturals

CONSTANT Action            \* action identifiers ("<turn>:<round>:send:<n>", ...)

VARIABLES
  phase,                   \* phase[a]: "none", "started" or a final status
  attempts,                \* attempts[a]: requests issued to the outside world
  effects                  \* effects[a]: requests that have taken effect

avars == <<phase, attempts, effects>>

Final == {"succeeded", "failed", "rejected", "unknown"}

AInit ==
  /\ phase = [a \in Action |-> "none"]
  /\ attempts = [a \in Action |-> 0]
  /\ effects = [a \in Action |-> 0]

Authorise(a) ==
  /\ phase[a] = "none"
  /\ phase' = [phase EXCEPT ![a] = "started"]
  /\ UNCHANGED <<attempts, effects>>

Attempt(a) ==
  /\ phase[a] = "started"
  /\ attempts[a] = 0
  /\ attempts' = [attempts EXCEPT ![a] = 1]
  /\ UNCHANGED <<phase, effects>>

(* The outside world is not in step with the process: an effect may land   *)
(* after the action was given up as unknown.                               *)
Land(a) ==
  /\ effects[a] < attempts[a]
  /\ effects' = [effects EXCEPT ![a] = @ + 1]
  /\ UNCHANGED <<phase, attempts>>

(* A final status may claim success only of an effect that landed, and     *)
(* rejection only of an action that was never attempted.                   *)
Resolve(a, s) ==
  /\ phase[a] = "started"
  /\ s \in Final
  /\ s = "succeeded" => effects[a] = 1
  /\ s = "rejected" => attempts[a] = 0
  /\ phase' = [phase EXCEPT ![a] = s]
  /\ UNCHANGED <<attempts, effects>>

(* Giving up: whatever was started and not settled becomes unknown.        *)
GiveUp ==
  /\ phase' = [a \in Action |-> IF phase[a] = "started" THEN "unknown" ELSE phase[a]]
  /\ UNCHANGED <<attempts, effects>>

ANext ==
  \/ GiveUp
  \/ \E a \in Action :
       \/ Authorise(a) \/ Attempt(a) \/ Land(a)
       \/ \E s \in Final : Resolve(a, s)

ASpec == AInit /\ [][ANext]_avars
=============================================================================
