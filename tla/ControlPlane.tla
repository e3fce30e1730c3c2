---------------------------- MODULE ControlPlane ----------------------------
(***************************************************************************)
(* What the owner changes while the service runs: the book of QQ contacts  *)
(* (web/roles.rs), the model settings (web/models.rs) and the QQ switch,   *)
(* through the handlers of web/routes.rs; the profile in the ledger that   *)
(* tells the model about all three and that the book is read back from at  *)
(* the next start; and the two users of what is in force, a turn of the    *)
(* attention loop and a QQ message on its way into the mailbox.            *)
(*                                                                         *)
(* A save writes the ledger first and memory afterwards.  The locks        *)
(* control (no turn runs) and profile_control (nobody else writes the      *)
(* profile) are released when a handler ends, also when it is dropped at   *)
(* an await; a ledger write that was already queued lands all the same.    *)
(***************************************************************************)
EXTENDS Naturals

CONSTANTS
  RoleSave,                \* requests: POST api/roles
  Admitting,               \* of these, the ones whose book admits the guest
  ModelSave,               \* requests: POST api/model
  Switch,                  \* requests: POST api/napcat/enabled
  On,                      \* of these, the ones that switch QQ on
  Chat,                    \* the guest's private messages on QQ
  MaxCrash                 \* bound: crashes

Save == RoleSave \cup ModelSave
Request == Save \cup Switch

Free == "free"
Loop == "attention loop"
Seed == "server.yaml"

ASSUME ControlAssumption ==
  /\ RoleSave \cap ModelSave = {} /\ Save \cap Switch = {}
  /\ Admitting \subseteq RoleSave /\ On \subseteq Switch
  /\ {Free, Loop} \cap Request = {}
  /\ MaxCrash \in Nat

VARIABLES
  \* the ledger
  profile,                 \* cache runtime/profile: qq_roles, model_settings, qq_enabled
  settings,                \* private_settings
  \* the process
  up, crashes,
  roles,                   \* WebState::roles
  current,                 \* Models::current
  qq,                      \* WebState::qq_enabled
  control, profiling,      \* who holds control and profile_control
  pc,                      \* where the handler of each request is
  seen,                    \* the version the owner's form was loaded with
  write,                   \* the profile each handler has queued to be written, as {} or {p}
  chat,                    \* where the handler of each message is
  bound                    \* book and model of the running turn (scoped_runtime), or {}

durable == <<profile, settings>>
memory == <<roles, current, qq>>
locks == <<control, profiling>>
vars == <<profile, settings, up, crashes, roles, current, qq, control, profiling, pc, seen,
          write, chat, bound>>

(* WebState::profile_for: what a handler would tell the model now.         *)
Profile == [book |-> roles, model |-> current, qq |-> qq]

Init ==
  /\ roles = [version |-> 1, by |-> Seed]
  /\ current = [version |-> 0, by |-> Seed]
  /\ qq = FALSE
  /\ profile = Profile /\ settings = current
  /\ up = TRUE /\ crashes = 0
  /\ control = Free /\ profiling = Free
  /\ pc = [r \in Request |-> "idle"]
  /\ seen = [r \in Save |-> 0]
  /\ write = [r \in Request |-> {}]
  /\ chat = [m \in Chat |-> "none"]
  /\ bound = {}

Move(r, to) == pc' = [pc EXCEPT ![r] = to]

(* The guards of a handler that ends give back what it holds.              *)
Release(r) ==
  /\ control' = IF control = r THEN Free ELSE control
  /\ profiling' = IF profiling = r THEN Free ELSE profiling

----------------------------------------------------------------------------
(* Saving the book and the model settings.                                 *)

InForce(r) == IF r \in RoleSave THEN roles ELSE current

(* RoleBook::updated, Models::candidate: the next version.                 *)
Update(r) == [version |-> seen[r] + 1, by |-> r]

(* The profile a save asks for.                                            *)
WithUpdate(r) ==
  IF r \in RoleSave THEN [Profile EXCEPT !.book = Update(r)]
                    ELSE [Profile EXCEPT !.model = Update(r)]

(* The form is filled from what is in force.                               *)
LoadForm(r) ==
  /\ up /\ r \in Save /\ pc[r] = "idle"
  /\ seen' = [seen EXCEPT ![r] = InForce(r).version]
  /\ Move(r, "loaded")
  /\ UNCHANGED <<durable, up, crashes, memory, locks, write, chat, bound>>

(* Mutant: a save does not wait for the end of a turn.                     *)
TakeControlAnyway(r) ==
  /\ up /\ r \in Save /\ pc[r] = "loaded"
  /\ Move(r, "waiting")
  /\ UNCHANGED <<durable, up, crashes, memory, locks, seen, write, chat, bound>>

(* try_lock: a conflict while a turn or another save runs.                 *)
TakeControl(r) ==
  /\ up /\ r \in Save /\ pc[r] = "loaded"
  /\ IF control = Free THEN control' = r /\ Move(r, "waiting")
                       ELSE UNCHANGED control /\ Move(r, "refused")
  /\ UNCHANGED <<durable, up, crashes, memory, profiling, seen, write, chat, bound>>

(* Under profile_control: a form of an older version, or one that does not *)
(* validate, is refused; otherwise the write is queued.                    *)
RefuseForm(r) ==
  /\ r \in Save /\ pc[r] = "waiting" /\ profiling = Free
  /\ Release(r)
  /\ Move(r, "refused")
  /\ UNCHANGED <<durable, up, crashes, memory, seen, write, chat, bound>>

(* Mutant: the version of the form is not compared.                        *)
QueueStaleSave(r) ==
  /\ r \in Save /\ pc[r] = "waiting" /\ profiling = Free
  /\ profiling' = r
  /\ write' = [write EXCEPT ![r] = {WithUpdate(r)}]
  /\ Move(r, "writing")
  /\ UNCHANGED <<durable, up, crashes, memory, control, seen, chat, bound>>

QueueSave(r) ==
  /\ r \in Save /\ pc[r] = "waiting" /\ profiling = Free
  /\ seen[r] = InForce(r).version
  /\ profiling' = r
  /\ write' = [write EXCEPT ![r] = {WithUpdate(r)}]
  /\ Move(r, "writing")
  /\ UNCHANGED <<durable, up, crashes, memory, control, seen, chat, bound>>

(* Memory follows the ledger; the roles_changed fact comes last.           *)
FollowRoles(r) ==
  /\ r \in RoleSave /\ pc[r] = "written"
  /\ roles' = Update(r)
  /\ Move(r, "telling")
  /\ UNCHANGED <<durable, up, crashes, current, qq, locks, seen, write, chat, bound>>

FollowModel(r) ==
  /\ r \in ModelSave /\ pc[r] = "written"
  /\ current' = Update(r)
  /\ Release(r)
  /\ Move(r, "saved")
  /\ UNCHANGED <<durable, up, crashes, roles, qq, seen, write, chat, bound>>

----------------------------------------------------------------------------
(* The QQ switch: memory first, then update_profile, then the fact.        *)

(* Switching on is refused unless NapCat is logged in and online.          *)
RefuseSwitch(r) ==
  /\ up /\ r \in On /\ pc[r] = "idle"
  /\ Move(r, "refused")
  /\ UNCHANGED <<durable, up, crashes, memory, locks, seen, write, chat, bound>>

Flip(r) ==
  /\ up /\ r \in Switch /\ pc[r] = "idle"
  /\ qq' = (r \in On)
  /\ Move(r, "waiting")
  /\ UNCHANGED <<durable, up, crashes, roles, current, locks, seen, write, chat, bound>>

(* Mutant: the profile is written without profile_control.                 *)
QueueSwitchUnlocked(r) ==
  /\ r \in Switch /\ pc[r] = "waiting"
  /\ write' = [write EXCEPT ![r] = {Profile}]
  /\ Move(r, "writing")
  /\ UNCHANGED <<durable, up, crashes, memory, locks, seen, chat, bound>>

QueueSwitch(r) ==
  /\ r \in Switch /\ pc[r] = "waiting" /\ profiling = Free
  /\ profiling' = r
  /\ write' = [write EXCEPT ![r] = {Profile}]
  /\ Move(r, "writing")
  /\ UNCHANGED <<durable, up, crashes, memory, control, seen, chat, bound>>

SwitchWritten(r) ==
  /\ r \in Switch /\ pc[r] = "written"
  /\ Release(r)
  /\ Move(r, "telling")
  /\ UNCHANGED <<durable, up, crashes, memory, seen, write, chat, bound>>

----------------------------------------------------------------------------
(* The ledger and the end of a handler.                                    *)

(* install_profile, or the transaction of Models::commit, takes effect.    *)
Land(r) ==
  /\ \E p \in write[r] :
       /\ profile' = p
       /\ settings' = IF r \in ModelSave THEN p.model ELSE settings
  /\ write' = [write EXCEPT ![r] = {}]
  /\ Move(r, IF pc[r] = "writing" THEN "written" ELSE pc[r])
  /\ UNCHANGED <<up, crashes, memory, locks, seen, chat, bound>>

WriteFails(r) ==
  /\ pc[r] = "writing"
  /\ write' = [write EXCEPT ![r] = {}]
  /\ Release(r)
  /\ Move(r, "failed")
  /\ UNCHANGED <<durable, up, crashes, memory, seen, chat, bound>>

(* Mutant: a save is answered as soon as it is written.                    *)
AnswerEarly(r) ==
  /\ pc[r] \in {"written", "telling"}
  /\ Release(r)
  /\ \E to \in {"saved", "unsure"} : Move(r, to)
  /\ UNCHANGED <<durable, up, crashes, memory, seen, write, chat, bound>>

(* The fact roles_changed or qq_control is committed, or fails; the client *)
(* is told that it is saved only in the first case.                        *)
Answer(r) ==
  /\ pc[r] = "telling"
  /\ Release(r)
  /\ \E to \in {"saved", "unsure"} : Move(r, to)
  /\ UNCHANGED <<durable, up, crashes, memory, seen, write, chat, bound>>

(* The client goes away while the handler awaits a lock or the ledger.     *)
Drop(r) ==
  /\ pc[r] \in {"waiting", "writing", "written", "telling"}
  /\ Release(r)
  /\ Move(r, "lost")
  /\ UNCHANGED <<durable, up, crashes, memory, seen, write, chat, bound>>

----------------------------------------------------------------------------
(* The users of what is in force.                                          *)

(* The loop takes control, and scoped_runtime binds book and model.        *)
StartTurn ==
  /\ up /\ control = Free
  /\ control' = Loop
  /\ bound' = {[book |-> roles, model |-> current]}
  /\ UNCHANGED <<durable, up, crashes, memory, profiling, pc, seen, write, chat>>

EndTurn ==
  /\ control = Loop
  /\ control' = Free
  /\ bound' = {}
  /\ UNCHANGED <<durable, up, crashes, memory, profiling, pc, seen, write, chat>>

Hear(m, to) ==
  /\ chat' = [chat EXCEPT ![m] = to]
  /\ UNCHANGED <<durable, up, crashes, memory, locks, pc, seen, write, bound>>

(* qq_event decides on a copy of the book and on the switch, and commits   *)
(* its decision as a transport fact.                                       *)
Decide(m) ==
  /\ up /\ chat[m] = "none"
  /\ Hear(m, IF qq /\ roles.by \in Admitting THEN "accepted" ELSE "ignored")

(* The accepted message is committed to the mailbox, or the ledger fails.  *)
Ingest(m) ==
  /\ chat[m] = "accepted"
  /\ \E to \in {"ingested", "lost"} : Hear(m, to)

----------------------------------------------------------------------------
(* A crash loses memory and whatever write is only queued.                 *)

Ended == {"idle", "loaded", "refused", "saved", "unsure", "lost"}

Crash ==
  /\ up /\ crashes < MaxCrash
  /\ up' = FALSE /\ crashes' = crashes + 1
  /\ control' = Free /\ profiling' = Free /\ bound' = {}
  /\ pc' = [r \in Request |-> IF pc[r] \in Ended THEN pc[r] ELSE "dead"]
  /\ write' = [r \in Request |-> {}]
  /\ chat' = [m \in Chat |-> IF chat[m] = "accepted" THEN "lost" ELSE chat[m]]
  /\ UNCHANGED <<durable, memory, seen>>

(* Mutant: the switch survives a restart in the profile.                   *)
RestartUntold ==
  /\ ~up
  /\ up' = TRUE
  /\ roles' = profile.book /\ current' = settings /\ qq' = FALSE
  /\ UNCHANGED <<durable, crashes, locks, pc, seen, write, chat, bound>>

(* WebState::build: the book comes from the profile, the settings from     *)
(* their own table, QQ is off, and the profile is written again.           *)
Restart ==
  /\ ~up
  /\ up' = TRUE
  /\ roles' = profile.book /\ current' = settings /\ qq' = FALSE
  /\ profile' = [book |-> profile.book, model |-> settings, qq |-> FALSE]
  /\ UNCHANGED <<settings, crashes, locks, pc, seen, write, chat, bound>>

SaveStep(r) ==
  \/ LoadForm(r) \/ TakeControl(r) \/ RefuseForm(r) \/ QueueSave(r)
  \/ FollowRoles(r) \/ FollowModel(r)
SwitchStep(r) == RefuseSwitch(r) \/ Flip(r) \/ QueueSwitch(r) \/ SwitchWritten(r)

Next ==
  \/ \E r \in Request :
       SaveStep(r) \/ SwitchStep(r) \/ Land(r) \/ WriteFails(r) \/ Answer(r) \/ Drop(r)
  \/ StartTurn \/ EndTurn
  \/ \E m \in Chat : Decide(m) \/ Ingest(m)
  \/ Crash \/ Restart

Spec == Init /\ [][Next]_vars

----------------------------------------------------------------------------
(* Properties.                                                             *)

Book == [version : Nat, by : RoleSave \cup {Seed}]
Model == [version : Nat, by : ModelSave \cup {Seed}]
Told == [book : Book, model : Model, qq : BOOLEAN]

(* Every variable holds what its row, field or guard can hold.             *)
TypeOK ==
  /\ profile \in Told /\ settings \in Model
  /\ up \in BOOLEAN /\ crashes \in Nat
  /\ roles \in Book /\ current \in Model /\ qq \in BOOLEAN
  /\ control \in Save \cup {Free, Loop} /\ profiling \in Request \cup {Free}
  /\ pc \in [Request -> {"idle", "loaded", "waiting", "writing", "written", "telling",
                         "saved", "unsure", "refused", "failed", "lost", "dead"}]
  /\ seen \in [Save -> Nat]
  /\ write \in [Request -> SUBSET Told]
  /\ chat \in [Chat -> {"none", "ignored", "accepted", "ingested", "lost"}]
  /\ bound \in SUBSET [book : Book, model : Model]

(* No handler was dropped: none left a lock, a queued write or a landed    *)
(* write behind that memory does not follow.                               *)
NoneLost == \A r \in Request : pc[r] # "lost"

(* Between handlers the profile the model is shown is what the process     *)
(* follows - book, settings and switch - in whatever order saves and       *)
(* switches came, unless one was dropped or a switch could not write.      *)
ProfileFollows ==
  up /\ profiling = Free /\ NoneLost /\ (\A r \in Switch : pc[r] \notin {"waiting", "failed"})
    => profile = Profile /\ settings = current

(* What the owner was told is saved is durable: a restart loads it or what *)
(* a later save put in its place (hz-trial.md: a save persists).           *)
SavedIsDurable ==
  NoneLost => \A r \in Save : pc[r] = "saved" =>
    LET kept == IF r \in RoleSave THEN profile.book ELSE settings IN
    kept = Update(r) \/ kept.version > Update(r).version

(* Of two forms loaded with the same version at most one is saved, across  *)
(* restarts too (roles.rs, models.rs: reload if the settings changed).     *)
SavedFrom(v) == {r \in Save : pc[r] = "saved" /\ seen[r] = v}
OneWinner ==
  NoneLost => \A r, s \in Save :
    r \in SavedFrom(seen[s]) /\ s \in SavedFrom(seen[s]) /\ (r \in RoleSave <=> s \in RoleSave)
      => r = s

(* While a turn runs, the book and the model it was built with stay in     *)
(* force (hz-validation-2026-10-25.md: no role change during a turn).      *)
TurnInForce == control = Loop => bound = {[book |-> roles, model |-> current]}

(* A message is accepted after the owner was told that a book without the  *)
(* guest is saved only if the book in force is a later one that admits the *)
(* guest - across restarts too (hz-trial.md: a save takes effect at once). *)
SavedBookBinds ==
  [][NoneLost => \A m \in Chat : chat[m] = "none" /\ chat'[m] = "accepted" =>
       \A r \in RoleSave \ Admitting : pc[r] = "saved" =>
         roles.by \in Admitting /\ roles.version > Update(r).version]_vars

(* routes.rs:394: profile_control serializes the profile of a save with    *)
(* that of the switch, so that a switch that was carried out stays told.   *)
(* It does not: the write of a save whose client went away is queued       *)
(* without the lock, and lands after the write of the switch.              *)
SwitchStaysTold ==
  up /\ profiling = Free /\ (\A r \in Switch : pc[r] \notin {"waiting", "failed", "lost"})
    => profile.qq = qq
=============================================================================
