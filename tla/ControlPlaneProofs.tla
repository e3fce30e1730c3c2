------------------------- MODULE ControlPlaneProofs -------------------------
(* That locks, queue, profile and memory stay in line, and that a save is  *)
(* kept and binds, for any requests, messages and number of crashes.       *)
EXTENDS ControlPlane, TLAPS

(* The first values.                                                       *)
LEMMA InitType == Init => TypeOK
<1> SUFFICES ASSUME Init PROVE TypeOK
  OBVIOUS
<1>1. roles \in Book /\ current \in Model /\ qq \in BOOLEAN
  BY DEF Init, Book, Model
<1>2. profile \in Told /\ settings \in Model
  BY <1>1 DEF Init, Profile, Told
<1>3. write \in [Request -> SUBSET Told] /\ bound \in SUBSET [book : Book, model : Model]
  BY DEF Init
<1>. QED
  BY <1>1, <1>2, <1>3 DEF Init, TypeOK

(* Every step keeps each variable among the values it can have.            *)
LEMMA NextType == TypeOK /\ [Next]_vars => TypeOK'
<1> SUFFICES ASSUME TypeOK, [Next]_vars PROVE TypeOK'
  OBVIOUS
<1> USE ControlAssumption DEF TypeOK, Told, Book, Model, Request, Save, durable, memory, locks
<1>1. ASSUME NEW r \in Request, LoadForm(r) PROVE TypeOK'
  BY <1>1 DEF LoadForm, Move, InForce
<1>2. ASSUME NEW r \in Request, TakeControl(r) PROVE TypeOK'
  BY <1>2 DEF TakeControl, Move
<1>3. ASSUME NEW r \in Request, RefuseForm(r) PROVE TypeOK'
  BY <1>3 DEF RefuseForm, Move, Release
<1>4. ASSUME NEW r \in Request, QueueSave(r) PROVE TypeOK'
  BY <1>4 DEF QueueSave, Move, WithUpdate, Update, Profile
<1>5. ASSUME NEW r \in Request, FollowRoles(r) PROVE TypeOK'
  BY <1>5 DEF FollowRoles, Move, Update
<1>6. ASSUME NEW r \in Request, FollowModel(r) PROVE TypeOK'
  BY <1>6 DEF FollowModel, Move, Update, Release
<1>7. ASSUME NEW r \in Request, RefuseSwitch(r) PROVE TypeOK'
  BY <1>7 DEF RefuseSwitch, Move
<1>8. ASSUME NEW r \in Request, Flip(r) PROVE TypeOK'
  BY <1>8 DEF Flip, Move
<1>9. ASSUME NEW r \in Request, QueueSwitch(r) PROVE TypeOK'
  BY <1>9 DEF QueueSwitch, Move, Profile
<1>10. ASSUME NEW r \in Request, SwitchWritten(r) PROVE TypeOK'
  BY <1>10 DEF SwitchWritten, Move, Release
<1>11. ASSUME NEW r \in Request, Land(r) PROVE TypeOK'
  BY <1>11 DEF Land, Move
<1>12. ASSUME NEW r \in Request, WriteFails(r) PROVE TypeOK'
  BY <1>12 DEF WriteFails, Move, Release
<1>13. ASSUME NEW r \in Request, Answer(r) PROVE TypeOK'
  BY <1>13 DEF Answer, Move, Release
<1>14. ASSUME NEW r \in Request, Drop(r) PROVE TypeOK'
  BY <1>14 DEF Drop, Move, Release
<1>15. CASE StartTurn
  BY <1>15 DEF StartTurn
<1>16. CASE EndTurn
  BY <1>16 DEF EndTurn
<1>17. CASE Crash
  <2>1. /\ profile' \in Told /\ settings' \in Model
        /\ roles' \in Book /\ current' \in Model /\ qq' \in BOOLEAN
        /\ seen' \in [Save -> Nat]
    BY <1>17 DEF Crash
  <2>2. up' \in BOOLEAN
    BY <1>17, Zenon DEF Crash
  <2>7. crashes' \in Nat
    BY <1>17, SMT DEF Crash
  <2>3. control' \in Save \cup {Free, Loop} /\ profiling' \in Request \cup {Free}
    BY <1>17 DEF Crash
  <2>4. pc' \in [Request -> {"idle", "loaded", "waiting", "writing", "written", "telling",
                             "saved", "unsure", "refused", "failed", "lost", "dead"}]
    BY <1>17 DEF Crash, Ended
  <2>5. chat' \in [Chat -> {"none", "ignored", "accepted", "ingested", "lost"}]
    BY <1>17 DEF Crash
  <2>6. write' \in [Request -> SUBSET Told] /\ bound' \in SUBSET [book : Book, model : Model]
    BY <1>17 DEF Crash
  <2>. QED
    BY <2>1, <2>2, <2>3, <2>4, <2>5, <2>6, <2>7
<1>18. CASE Restart
  BY <1>18 DEF Restart
<1>19. ASSUME NEW m \in Chat, Decide(m) PROVE TypeOK'
  BY <1>19 DEF Decide, Hear
<1>20. ASSUME NEW m \in Chat, Ingest(m) PROVE TypeOK'
  BY <1>20 DEF Ingest, Hear
<1>21. CASE UNCHANGED vars
  BY <1>21 DEF vars
<1>. QED
  BY <1>1, <1>2, <1>3, <1>4, <1>5, <1>6, <1>7, <1>8, <1>9, <1>10, <1>11, <1>12, <1>13,
     <1>14, <1>15, <1>16, <1>17, <1>18, <1>19, <1>20, <1>21 DEF Next, SaveStep,
     SwitchStep

(* Every variable keeps to the rows, fields and guards it stands for.      *)
THEOREM TypeCorrect == Spec => []TypeOK
<1>. QED
  BY InitType, NextType, PTL DEF Spec

----------------------------------------------------------------------------
(* The locks.                                                              *)

Phase == {"idle", "loaded", "waiting", "writing", "written", "telling",
          "saved", "unsure", "refused", "failed", "lost", "dead"}
InCharge == {"waiting", "writing", "written", "telling"}

(* A save between its try_lock and its end holds control, a handler of any *)
(* kind that is at its write holds profile_control; a stopped process holds *)
(* nothing.                                                                *)
Held ==
  /\ pc \in [Request -> Phase]
  /\ \A r \in Save : pc[r] \in InCharge => control = r
  /\ \A r \in Request : pc[r] \in {"writing", "written"} => profiling = r
  /\ ~up => control = Free /\ \A r \in Request : pc[r] \notin InCharge
LockInv == Held /\ TurnInForce

(* Nobody holds a lock at the start, and no turn runs.                     *)
LEMMA InitLock == Init => LockInv
BY DEF Init, LockInv, Held, TurnInForce, InCharge, Phase, Free, Loop, Request, Save

(* No step of the service gives a lock to two, or changes what a turn uses.*)
LEMMA NextLock == LockInv /\ [Next]_vars => LockInv'
<1> SUFFICES ASSUME LockInv, [Next]_vars PROVE LockInv'
  OBVIOUS
<1> USE ControlAssumption DEF LockInv, Held, TurnInForce, InCharge, Phase, durable, memory, locks
<1>1. ASSUME NEW r \in Request, LoadForm(r) PROVE LockInv'
  BY <1>1 DEF LoadForm, Move, Request, Save, Free, Loop
<1>2. ASSUME NEW r \in Request, TakeControl(r) PROVE LockInv'
  BY <1>2 DEF TakeControl, Move, Request, Save, Free, Loop
<1>3. ASSUME NEW r \in Request, RefuseForm(r) PROVE LockInv'
  BY <1>3 DEF RefuseForm, Move, Release, Request, Save, Free, Loop
<1>4. ASSUME NEW r \in Request, QueueSave(r) PROVE LockInv'
  BY <1>4 DEF QueueSave, Move, Request, Save, Free, Loop
<1>5. ASSUME NEW r \in Request, FollowRoles(r) PROVE LockInv'
  BY <1>5 DEF FollowRoles, Move, Request, Save, Free, Loop
<1>6. ASSUME NEW r \in Request, FollowModel(r) PROVE LockInv'
  BY <1>6 DEF FollowModel, Move, Release, Request, Save, Free, Loop
<1>7. ASSUME NEW r \in Request, RefuseSwitch(r) PROVE LockInv'
  BY <1>7 DEF RefuseSwitch, Move, Request, Save, Free, Loop
<1>8. ASSUME NEW r \in Request, Flip(r) PROVE LockInv'
  BY <1>8 DEF Flip, Move, Request, Save, Free, Loop
<1>9. ASSUME NEW r \in Request, QueueSwitch(r) PROVE LockInv'
  BY <1>9 DEF QueueSwitch, Move, Request, Save, Free, Loop
<1>10. ASSUME NEW r \in Request, SwitchWritten(r) PROVE LockInv'
  BY <1>10 DEF SwitchWritten, Move, Release, Request, Save, Free, Loop
<1>11. ASSUME NEW r \in Request, Land(r) PROVE LockInv'
  BY <1>11 DEF Land, Move, Request, Save, Free, Loop
<1>12. ASSUME NEW r \in Request, WriteFails(r) PROVE LockInv'
  BY <1>12 DEF WriteFails, Move, Release, Request, Save, Free, Loop
<1>13. ASSUME NEW r \in Request, Answer(r) PROVE LockInv'
  BY <1>13 DEF Answer, Move, Release, Request, Save, Free, Loop
<1>14. ASSUME NEW r \in Request, Drop(r) PROVE LockInv'
  BY <1>14 DEF Drop, Move, Release, Request, Save, Free, Loop
<1>15. CASE StartTurn
  BY <1>15 DEF StartTurn, Request, Save, Free, Loop, Ended
<1>16. CASE EndTurn
  BY <1>16 DEF EndTurn, Request, Save, Free, Loop, Ended
<1>17. CASE Crash
  BY <1>17 DEF Crash, Request, Save, Free, Loop, Ended
<1>18. CASE Restart
  BY <1>18 DEF Restart, Request, Save, Free, Loop, Ended
<1>19. ASSUME NEW m \in Chat, Decide(m) \/ Ingest(m) PROVE LockInv'
  BY <1>19 DEF Decide, Ingest, Hear
<1>20. CASE UNCHANGED vars
  BY <1>20 DEF vars
<1>. QED
  BY <1>1, <1>2, <1>3, <1>4, <1>5, <1>6, <1>7, <1>8, <1>9, <1>10, <1>11, <1>12, <1>13,
     <1>14, <1>15, <1>16, <1>17, <1>18, <1>19, <1>20 DEF Next, SaveStep, SwitchStep

(* The locks are where the handlers and the loop are.                      *)
THEOREM ControlInvariant == Spec => []LockInv
<1>. QED
  BY InitLock, NextLock, PTL DEF Spec

(* A running turn keeps the book and the model it was built with in force, *)
(* whatever the owner saves.                                               *)
THEOREM TurnKeepsItsBook == Spec => []TurnInForce
<1>1. LockInv => TurnInForce
  BY DEF LockInv
<1>. QED
  BY <1>1, ControlInvariant, PTL

----------------------------------------------------------------------------
(* The profile follows the process.                                        *)

Told3(p, b, m) == p = [book |-> b, model |-> m, qq |-> p.qq]

(* No switch waits for its turn to write, or failed to.                    *)
Steady == \A r \in Switch : pc[r] \notin {"waiting", "failed"}

(* A write in the queue is what its handler asked for, on top of what is in*)
(* force; only a handler at its write, or a dropped one, has one.          *)
Queued ==
  /\ \A r \in Request : write[r] # {} => pc[r] \in {"writing", "lost"}
  /\ NoneLost => \A r \in Request : pc[r] = "writing" =>
       \E p : /\ write[r] = {p}
              /\ r \in RoleSave => Told3(p, Update(r), current)
              /\ r \in ModelSave => Told3(p, roles, Update(r))
              /\ r \in Switch => Told3(p, roles, current)
              /\ Steady => p.qq = qq

(* What landed is in the profile; memory follows in the next step of the   *)
(* same handler.                                                           *)
Landed ==
  up /\ NoneLost =>
    /\ \A r \in RoleSave : pc[r] = "written" =>
         Told3(profile, Update(r), current) /\ settings = current
    /\ \A r \in ModelSave : pc[r] = "written" =>
         Told3(profile, roles, Update(r)) /\ settings = Update(r)
    /\ (\A r \in Save : pc[r] # "written") => Told3(profile, roles, current) /\ settings = current
    /\ Steady /\ (\A r \in Switch : pc[r] # "writing") => profile.qq = qq
FollowInv == TypeOK /\ LockInv /\ Queued /\ Landed

(* At the start the profile is written from memory and nothing is queued.  *)
LEMMA InitFollow == Init => FollowInv
<1> SUFFICES ASSUME Init PROVE FollowInv
  OBVIOUS
<1>1. LockInv
  BY InitLock
<1>2. Queued
  BY DEF Init, Queued, Request, Save
<1>3. Landed
  BY DEF Init, Landed, Profile, Told3, Save, Request
<1>. QED
  BY <1>1, <1>2, <1>3, InitType DEF FollowInv

(* Every step keeps queue, profile and memory in line.                     *)
LEMMA NextFollow == FollowInv /\ [Next]_vars => FollowInv'
<1> SUFFICES ASSUME FollowInv, [Next]_vars PROVE FollowInv'
  OBVIOUS
<1>0. TypeOK' /\ LockInv'
  BY NextType, NextLock DEF FollowInv
<1>a. write \in [Request -> SUBSET Told]
  BY DEF FollowInv, TypeOK
<1> USE ControlAssumption DEF FollowInv, LockInv, Held, InCharge, Queued, Landed, Told3, Steady,
    NoneLost, Update, Request, Save, durable, memory, locks
<1>1. ASSUME NEW r \in Request, LoadForm(r) PROVE Queued' /\ Landed'
  <2>1. Queued'
    BY <1>1 DEF LoadForm, Move
  <2>2. Landed'
    BY <1>1 DEF LoadForm, Move
  <2>. QED
    BY <2>1, <2>2
<1>2. ASSUME NEW r \in Request, TakeControl(r) PROVE Queued' /\ Landed'
  <2>1. Queued'
    BY <1>2 DEF TakeControl, Move
  <2>2. Landed'
    BY <1>2 DEF TakeControl, Move
  <2>. QED
    BY <2>1, <2>2
<1>3. ASSUME NEW r \in Request, RefuseForm(r) PROVE Queued' /\ Landed'
  <2>1. Queued'
    BY <1>3 DEF RefuseForm, Move, Release
  <2>2. Landed'
    BY <1>3 DEF RefuseForm, Move, Release
  <2>. QED
    BY <2>1, <2>2
<1>4. ASSUME NEW r \in Request, QueueSave(r) PROVE Queued' /\ Landed'
  <2>a. /\ pc'[r] = "writing" /\ write'[r] = {WithUpdate(r)}
        /\ UNCHANGED <<roles, current, qq, seen>>
        /\ pc[r] = "waiting"
    BY <1>a, <1>4 DEF QueueSave, Move
  <2>b. \A s \in Request \ {r} : pc'[s] = pc[s] /\ write'[s] = write[s] /\ pc[s] # "writing"
    BY <1>a, <1>4 DEF QueueSave, Move, Free
  <2>c. /\ \A s \in Request : write'[s] # {} => pc'[s] \in {"writing", "lost"}
        /\ \A s \in Request : pc'[s] = "writing" => s = r
    BY <2>a, <2>b
  <2>d. /\ r \in RoleSave => Told3(WithUpdate(r), Update(r)', current')
        /\ r \in ModelSave => Told3(WithUpdate(r), roles', Update(r)')
        /\ r \in Switch => Told3(WithUpdate(r), roles', current')
        /\ (WithUpdate(r)).qq = qq'
    BY <1>4, <2>a DEF QueueSave, WithUpdate, Profile
  <2>1. Queued'
    BY <2>a, <2>c, <2>d
  <2>2. Landed'
    BY <1>4 DEF QueueSave, Move, WithUpdate, Profile
  <2>. QED
    BY <2>1, <2>2
<1>5. ASSUME NEW r \in Request, FollowRoles(r) PROVE Queued' /\ Landed'
  <2>1. Queued'
    BY <1>5 DEF FollowRoles, Move
  <2>2. Landed'
    BY <1>5 DEF FollowRoles, Move
  <2>. QED
    BY <2>1, <2>2
<1>6. ASSUME NEW r \in Request, FollowModel(r) PROVE Queued' /\ Landed'
  <2>1. Queued'
    BY <1>6 DEF FollowModel, Move, Release
  <2>2. Landed'
    BY <1>6 DEF FollowModel, Move, Release
  <2>. QED
    BY <2>1, <2>2
<1>7. ASSUME NEW r \in Request, RefuseSwitch(r) PROVE Queued' /\ Landed'
  <2>1. Queued'
    BY <1>7 DEF RefuseSwitch, Move
  <2>2. Landed'
    BY <1>7 DEF RefuseSwitch, Move
  <2>. QED
    BY <2>1, <2>2
<1>8. ASSUME NEW r \in Request, Flip(r) PROVE Queued' /\ Landed'
  <2>1. Queued'
    BY <1>8 DEF Flip, Move
  <2>2. Landed'
    BY <1>8 DEF Flip, Move
  <2>. QED
    BY <2>1, <2>2
<1>9. ASSUME NEW r \in Request, QueueSwitch(r) PROVE Queued' /\ Landed'
  <2>a. /\ pc'[r] = "writing" /\ write'[r] = {Profile}
        /\ UNCHANGED <<roles, current, qq, seen>>
        /\ pc[r] = "waiting"
    BY <1>a, <1>9 DEF QueueSwitch, Move
  <2>b. \A s \in Request \ {r} : pc'[s] = pc[s] /\ write'[s] = write[s] /\ pc[s] # "writing"
    BY <1>a, <1>9 DEF QueueSwitch, Move, Free
  <2>c. /\ \A s \in Request : write'[s] # {} => pc'[s] \in {"writing", "lost"}
        /\ \A s \in Request : pc'[s] = "writing" => s = r
    BY <2>a, <2>b
  <2>d. /\ r \in RoleSave => Told3(Profile, Update(r)', current')
        /\ r \in ModelSave => Told3(Profile, roles', Update(r)')
        /\ r \in Switch => Told3(Profile, roles', current')
        /\ (Profile).qq = qq'
    BY <1>9, <2>a DEF QueueSwitch, Profile
  <2>1. Queued'
    BY <2>a, <2>c, <2>d
  <2>2. Landed'
    BY <1>9 DEF QueueSwitch, Move, Profile
  <2>. QED
    BY <2>1, <2>2
<1>10. ASSUME NEW r \in Request, SwitchWritten(r) PROVE Queued' /\ Landed'
  <2>1. Queued'
    BY <1>10 DEF SwitchWritten, Move, Release
  <2>2. Landed'
    BY <1>10 DEF SwitchWritten, Move, Release
  <2>. QED
    BY <2>1, <2>2
<1>11. ASSUME NEW r \in Request, Land(r) PROVE Queued' /\ Landed'
  <2>1. Queued'
    BY <1>a, <1>11 DEF Land, Move
  <2>2. Landed'
    BY <1>11 DEF Land, Move
  <2>. QED
    BY <2>1, <2>2
<1>12. ASSUME NEW r \in Request, WriteFails(r) PROVE Queued' /\ Landed'
  <2>1. Queued'
    BY <1>a, <1>12 DEF WriteFails, Move, Release
  <2>2. Landed'
    BY <1>12 DEF WriteFails, Move, Release
  <2>. QED
    BY <2>1, <2>2
<1>13. ASSUME NEW r \in Request, Answer(r) PROVE Queued' /\ Landed'
  <2>1. Queued'
    BY <1>13 DEF Answer, Move, Release
  <2>2. Landed'
    BY <1>13 DEF Answer, Move, Release
  <2>. QED
    BY <2>1, <2>2
<1>14. ASSUME NEW r \in Request, Drop(r) PROVE Queued' /\ Landed'
  <2>1. Queued'
    BY <1>14 DEF Drop, Move, Release
  <2>2. Landed'
    BY <1>14 DEF Drop, Move, Release
  <2>. QED
    BY <2>1, <2>2
<1>15. CASE StartTurn
  <2>1. Queued'
    BY <1>15 DEF StartTurn, Ended
  <2>2. Landed'
    BY <1>15 DEF StartTurn, Ended
  <2>. QED
    BY <1>0, <2>1, <2>2
<1>16. CASE EndTurn
  <2>1. Queued'
    BY <1>16 DEF EndTurn, Ended
  <2>2. Landed'
    BY <1>16 DEF EndTurn, Ended
  <2>. QED
    BY <1>0, <2>1, <2>2
<1>17. CASE Crash
  <2>1. Queued'
    BY <1>17 DEF Crash, Ended
  <2>2. Landed'
    BY <1>17 DEF Crash, Ended
  <2>. QED
    BY <1>0, <2>1, <2>2
<1>18. CASE Restart
  <2>1. Queued'
    BY <1>18 DEF Restart, Ended
  <2>2. Landed'
    BY <1>18 DEF Restart, Ended
  <2>. QED
    BY <1>0, <2>1, <2>2
<1>19. ASSUME NEW m \in Chat, Decide(m) \/ Ingest(m) PROVE Queued' /\ Landed'
  BY <1>19 DEF Decide, Ingest, Hear
<1>20. CASE UNCHANGED vars
  BY <1>0, <1>20 DEF vars
<1>. QED
  BY <1>0, <1>1, <1>2, <1>3, <1>4, <1>5, <1>6, <1>7, <1>8, <1>9, <1>10, <1>11, <1>12,
     <1>13, <1>14, <1>15, <1>16, <1>17, <1>18, <1>19, <1>20 DEF Next, SaveStep,
     SwitchStep

(* Between handlers the profile the model is shown is the book, the model  *)
(* settings and the switch in force, and a restart would load them.        *)
THEOREM ProfileIsFollowed == Spec => []ProfileFollows
<1>1. FollowInv => ProfileFollows
  BY ControlAssumption DEF FollowInv, ProfileFollows, LockInv, Held, Landed, Told3,
     Steady, NoneLost, Profile,
         Request, Save, Free
<1>. QED
  BY <1>1, InitFollow, NextFollow, PTL DEF Spec

----------------------------------------------------------------------------
(* What was saved.                                                         *)

(* Where a restart finds what is saved.                                    *)
Kept(r) == IF r \in RoleSave THEN profile.book ELSE settings
Later(v, w) == v = w \/ v.version > w.version
Done == {"telling", "saved", "unsure"}

(* What a save put in force is there, in memory and in the ledger, or a    *)
(* later one is; a save at its write started from what is in force.        *)
Lasting ==
  NoneLost => \A r \in Save : pc[r] \in Done =>
    Later(Kept(r), Update(r)) /\ (up => Later(InForce(r), Update(r)))
Current ==
  NoneLost /\ up => \A r \in Save : pc[r] \in {"writing", "written"} => seen[r] = InForce(r).version
Single ==
  NoneLost => \A r, s \in Save :
    pc[r] \in Done /\ pc[s] \in Done /\ seen[r] = seen[s] /\ (r \in RoleSave <=> s \in RoleSave)
      => r = s
SaveInv == Lasting /\ Current /\ Single

(* At the start nothing was saved.                                         *)
LEMMA InitSave == Init => SaveInv
BY DEF Init, SaveInv, Lasting, Current, Single, Done, Request, Save

(* A save that takes effect is later than every one before it.             *)
LEMMA NextSave == FollowInv /\ SaveInv /\ [Next]_vars => SaveInv'
<1> SUFFICES ASSUME FollowInv, SaveInv, [Next]_vars PROVE SaveInv'
  OBVIOUS
<1>a. /\ seen \in [Save -> Nat]
      /\ roles.version \in Nat /\ current.version \in Nat
      /\ pc \in [Request -> Phase]
  BY DEF FollowInv, TypeOK, Book, Model, LockInv, Held
<1> USE ControlAssumption, <1>a DEF SaveInv, Lasting, Current, Single, Done, Later, Kept, InForce, Update,
    NoneLost, Request, Save, durable, memory
<1>1. ASSUME NEW r \in Request, LoadForm(r) PROVE SaveInv'
  BY <1>1 DEF LoadForm, Move
<1>2. ASSUME NEW r \in Request, TakeControl(r) PROVE SaveInv'
  <2>1. Lasting'
    BY <1>2 DEF TakeControl, Move
  <2>2. Current'
    BY <1>2 DEF TakeControl, Move
  <2>3. Single'
    BY <1>2 DEF TakeControl, Move
  <2>. QED
    BY <2>1, <2>2, <2>3
<1>3. ASSUME NEW r \in Request, RefuseForm(r) PROVE SaveInv'
  BY <1>3 DEF RefuseForm, Move
<1>4. ASSUME NEW r \in Request, QueueSave(r) PROVE SaveInv'
  BY <1>4 DEF QueueSave, Move, InForce
<1>5. ASSUME NEW r \in Request, FollowRoles(r) PROVE SaveInv'
  <2>1. /\ r \in RoleSave /\ pc[r] = "written" /\ profiling = r /\ up /\ up'
        /\ roles' = Update(r)
        /\ UNCHANGED <<seen, profile, settings, current>>
    BY <1>5 DEF FollowRoles, FollowInv, LockInv, Held, InCharge
  <2>2. /\ \A s \in Request \ {r} : pc'[s] = pc[s]
        /\ pc'[r] \in Done /\ pc[r] \notin Done
    BY <1>5, <2>1 DEF FollowRoles, Move
  <2>3. NoneLost' => NoneLost
    BY <2>1, <2>2
  <2>4. NoneLost => seen[r] = roles.version /\ profile.book = Update(r)
    BY <2>1 DEF FollowInv, Landed, Told3
  <2>5. ASSUME NoneLost, NEW s \in RoleSave, pc[s] \in Done
        PROVE  seen[s] < seen[r]
    <3>1. Later(roles, Update(s))
      BY <2>1, <2>5
    <3>. QED
      BY <2>4, <2>5, <3>1
  <2>6. Lasting'
    BY <2>1, <2>2, <2>3, <2>4, <2>5
  <2>7. Current'
    BY <2>1, <2>2, <2>3 DEF FollowInv, LockInv, Held
  <2>8. Single'
    BY <2>1, <2>2, <2>3, <2>5
  <2>. QED
    BY <2>6, <2>7, <2>8
<1>6. ASSUME NEW r \in Request, FollowModel(r) PROVE SaveInv'
  <2>1. /\ r \in ModelSave /\ pc[r] = "written" /\ profiling = r /\ up /\ up'
        /\ current' = Update(r)
        /\ UNCHANGED <<seen, profile, settings, roles>>
    BY <1>6 DEF FollowModel, FollowInv, LockInv, Held, InCharge
  <2>2. /\ \A s \in Request \ {r} : pc'[s] = pc[s]
        /\ pc'[r] \in Done /\ pc[r] \notin Done
    BY <1>6, <2>1 DEF FollowModel, Move
  <2>3. NoneLost' => NoneLost
    BY <2>1, <2>2
  <2>4. NoneLost => seen[r] = current.version /\ settings = Update(r)
    BY <2>1 DEF FollowInv, Landed, Told3
  <2>5. ASSUME NoneLost, NEW s \in ModelSave, pc[s] \in Done
        PROVE  seen[s] < seen[r]
    <3>1. Later(current, Update(s))
      BY <2>1, <2>5
    <3>. QED
      BY <2>4, <2>5, <3>1
  <2>6. Lasting'
    BY <2>1, <2>2, <2>3, <2>4, <2>5
  <2>7. Current'
    BY <2>1, <2>2, <2>3 DEF FollowInv, LockInv, Held
  <2>8. Single'
    BY <2>1, <2>2, <2>3, <2>5
  <2>. QED
    BY <2>6, <2>7, <2>8
<1>7. ASSUME NEW r \in Request, RefuseSwitch(r) PROVE SaveInv'
  BY <1>7 DEF RefuseSwitch, Move
<1>8. ASSUME NEW r \in Request, Flip(r) PROVE SaveInv'
  BY <1>8 DEF Flip, Move
<1>9. ASSUME NEW r \in Request, QueueSwitch(r) PROVE SaveInv'
  BY <1>9 DEF QueueSwitch, Move
<1>10. ASSUME NEW r \in Request, SwitchWritten(r) PROVE SaveInv'
  <2>1. Lasting'
    BY <1>10 DEF SwitchWritten, Move
  <2>2. Current'
    BY <1>10 DEF SwitchWritten, Move
  <2>3. Single'
    BY <1>10 DEF SwitchWritten, Move
  <2>. QED
    BY <2>1, <2>2, <2>3
<1>11. ASSUME NEW r \in Request, Land(r) PROVE SaveInv'
  <2>a. /\ \A s \in Request \ {r} : pc'[s] = pc[s]
        /\ pc[r] \in {"writing", "lost"} /\ pc'[r] \notin Done
        /\ UNCHANGED <<roles, current, seen, up>>
    BY <1>11 DEF Land, Move, FollowInv, Queued
  <2>b. NoneLost' => NoneLost /\ pc[r] = "writing" /\ up
    BY <1>11, <2>a DEF Land, Move, FollowInv, LockInv, Held, InCharge
  <2>c. NoneLost' => profile'.book = IF r \in RoleSave THEN Update(r) ELSE roles
    BY <1>11, <2>b DEF Land, FollowInv, Queued, Told3
  <2>d. ASSUME NoneLost' PROVE settings' = IF r \in ModelSave THEN Update(r) ELSE settings
    BY <1>11, <2>b, <2>d DEF Land, FollowInv, Queued, Told3
  <2>e. ASSUME NoneLost', NEW s \in Save, pc'[s] \in Done
        PROVE  Later(Kept(s)', Update(s)') /\ (up' => Later(InForce(s)', Update(s)'))
    <3>1. pc[s] \in Done /\ Later(Kept(s), Update(s)) /\ Later(InForce(s), Update(s))
      BY <2>a, <2>b, <2>e
    <3>2. (r \in Save) => seen[r] = InForce(r).version
      BY <2>b, <2>e
    <3>3. CASE s \in RoleSave
      BY <2>a, <2>c, <2>e, <3>1, <3>2, <3>3
    <3>4. CASE s \in ModelSave
      BY <2>a, <2>d, <2>e, <3>1, <3>2, <3>4
    <3>. QED
      BY <3>3, <3>4
  <2>1. Lasting'
    BY <2>e
  <2>2. Current'
    BY <1>11 DEF Land, Move, FollowInv, LockInv, Held, Queued, Landed, Told3
  <2>3. Single'
    BY <1>11 DEF Land, Move, FollowInv, LockInv, Held, Queued, Landed, Told3
  <2>. QED
    BY <2>1, <2>2, <2>3
<1>12. ASSUME NEW r \in Request, WriteFails(r) PROVE SaveInv'
  BY <1>12 DEF WriteFails, Move
<1>13. ASSUME NEW r \in Request, Answer(r) PROVE SaveInv'
  BY <1>13 DEF Answer, Move
<1>14. ASSUME NEW r \in Request, Drop(r) PROVE SaveInv'
  BY <1>14 DEF Drop, Move
<1>15. CASE StartTurn
  BY <1>15 DEF StartTurn
<1>16. CASE EndTurn
  BY <1>16 DEF EndTurn
<1>17. CASE Crash
  BY <1>17 DEF Crash, Ended
<1>18. CASE Restart
  <2>1. Lasting'
    BY <1>18 DEF Restart
  <2>2. Current'
    BY <1>18 DEF Restart, FollowInv, LockInv, Held, InCharge
  <2>3. Single'
    BY <1>18 DEF Restart
  <2>. QED
    BY <2>1, <2>2, <2>3
<1>19. ASSUME NEW m \in Chat, Decide(m) PROVE SaveInv'
  BY <1>19 DEF Decide, Hear
<1>20. ASSUME NEW m \in Chat, Ingest(m) PROVE SaveInv'
  BY <1>20 DEF Ingest, Hear
<1>21. CASE UNCHANGED vars
  BY <1>21 DEF vars
<1>. QED
  BY <1>1, <1>2, <1>3, <1>4, <1>5, <1>6, <1>7, <1>8, <1>9, <1>10, <1>11, <1>12, <1>13,
     <1>14, <1>15, <1>16, <1>17, <1>18, <1>19, <1>20, <1>21 DEF Next, SaveStep,
     SwitchStep

(* What was answered as saved is what a restart loads, or a later save is. *)
THEOREM SavesAreDurable == Spec => []SavedIsDurable
<1>1. SaveInv => SavedIsDurable
  BY DEF SaveInv, Lasting, Done, SavedIsDurable, Later, Kept
<1>. QED
  BY <1>1, InitFollow, NextFollow, InitSave, NextSave, PTL DEF Spec

(* Of two forms of one version at most one is saved.                       *)
THEOREM FirstFormWins == Spec => []OneWinner
<1>1. SaveInv => OneWinner
  BY DEF SaveInv, Single, Done, OneWinner, SavedFrom
<1>. QED
  BY <1>1, InitFollow, NextFollow, InitSave, NextSave, PTL DEF Spec

(* Only the decision on a message accepts it.                              *)
LEMMA OnlyDecideAccepts ==
  ASSUME TypeOK, [Next]_vars, NEW m \in Chat, chat[m] = "none", chat'[m] = "accepted"
  PROVE  up /\ roles.by \in Admitting
<1>1. CASE Crash
  BY <1>1 DEF Crash, TypeOK
<1>2. ASSUME NEW n \in Chat, Decide(n) PROVE up /\ roles.by \in Admitting
  BY <1>2 DEF Decide, Hear, TypeOK
<1>3. ASSUME NEW n \in Chat, Ingest(n) PROVE FALSE
  BY <1>3 DEF Ingest, Hear, TypeOK
<1>4. CASE StartTurn \/ EndTurn \/ Restart \/ UNCHANGED vars
  BY <1>4 DEF StartTurn, EndTurn, Restart, vars
<1>5. ASSUME NEW r \in Request, SaveStep(r) PROVE FALSE
  BY <1>5 DEF SaveStep, LoadForm, TakeControl, RefuseForm, QueueSave, FollowRoles, FollowModel
<1>6. ASSUME NEW r \in Request, SwitchStep(r) PROVE FALSE
  BY <1>6 DEF SwitchStep, RefuseSwitch, Flip, QueueSwitch, SwitchWritten
<1>7. ASSUME NEW r \in Request, Land(r) \/ WriteFails(r) \/ Answer(r) \/ Drop(r) PROVE FALSE
  BY <1>7 DEF Land, WriteFails, Answer, Drop
<1>. QED
  BY <1>1, <1>2, <1>3, <1>4, <1>5, <1>6, <1>7 DEF Next

(* A message is accepted after the save of a book without the guest only   *)
(* under a later book that admits the guest.                               *)
THEOREM BookBinds == Spec => SavedBookBinds
<1>1. FollowInv /\ SaveInv /\ [Next]_vars =>
        [NoneLost => \A m \in Chat : chat[m] = "none" /\ chat'[m] = "accepted" =>
          \A r \in RoleSave \ Admitting : pc[r] = "saved" =>
            roles.by \in Admitting /\ roles.version > Update(r).version]_vars
  <2> SUFFICES ASSUME FollowInv, SaveInv, [Next]_vars, NoneLost,
                      NEW m \in Chat, chat[m] = "none", chat'[m] = "accepted",
                      NEW r \in RoleSave \ Admitting, pc[r] = "saved"
               PROVE  roles.by \in Admitting /\ roles.version > Update(r).version
    OBVIOUS
  <2>1. up /\ roles.by \in Admitting
    BY OnlyDecideAccepts DEF FollowInv
  <2>2. Later(roles, Update(r))
    BY <2>1 DEF SaveInv, Lasting, Done, InForce, Save
  <2>. QED
    BY <2>1, <2>2 DEF Later, Update
<1>. QED
  BY <1>1, InitFollow, NextFollow, InitSave, NextSave, PTL DEF Spec, SavedBookBinds
=============================================================================
