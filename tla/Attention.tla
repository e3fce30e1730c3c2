----------------------------- MODULE Attention -----------------------------
(***************************************************************************)
(* The live mailbox of the web service: ingress handlers (web/mod.rs       *)
(* submit, web/routes.rs qq_event, reporting.rs receive) that commit an    *)
(* event and wake the attention loop (web/mod.rs work), which runs one     *)
(* turn at a time over what is pending (Scheduler::step), advances the     *)
(* attention cursor after a turn that ended well, and pauses itself after  *)
(* one that did not, until the owner writes again.                         *)
(*                                                                         *)
(* The wake-up is a tokio Notify, the pause is an atomic flag with a copy  *)
(* in the ledger's cache, and handlers are dropped at an await when their  *)
(* client goes away; nothing else holds the parts together.  TurnLoop      *)
(* models a turn in detail; here it is what it has read and what its       *)
(* projection covers.  A position of the log stands for the seq of an      *)
(* inbound or media_observation event.                                     *)
(***************************************************************************)
EXTENDS Naturals, Sequences

CONSTANTS
  OwnerWeb,                \* events: the owner's messages from the web page
  OwnerQQ,                 \* events: the owner's private messages on QQ
  Other,                   \* events: registered reports and everybody else's messages
  Pictured,                \* the events whose pictures are observed in the background
  MaxCrash                 \* bound: crashes

Owner == OwnerWeb \cup OwnerQQ
Event == Owner \cup Other

ASSUME MailboxAssumption ==
  /\ OwnerWeb \cap OwnerQQ = {} /\ Owner \cap Other = {}
  /\ Pictured \subseteq Event
  /\ MaxCrash \in Nat

VARIABLES
  \* the ledger
  log,                     \* inbound and media_observation events, in seq order
  projected,               \* projected_through: what the stored projection covers
  cursor,                  \* attention_cursors
  flag,                    \* cache web/needs_attention
  unsure,                  \* some row of actions is unknown, or will be after recovery
  \* the process
  up, crashes,
  pausing,                 \* WebState::needs_attention
  permit,                  \* the stored permit of Ingress::changed
  pc,                      \* where the attention loop is
  context,                 \* what the running turn has read
  through,                 \* what it is about to checkpoint
  handler,                 \* where the handler of each event is
  job,                     \* where the background observation of its pictures is
  \* history
  answered,                \* what a turn that ended well had read
  held,                    \* the pause is committed, and no owner's handler lifted it since
  owed,                    \* a turn ended badly, and the owner has not written since
  slipped                  \* the last turn to end well is not checkpointed: the ledger
                           \* failed, or the process ended, in between

mailbox == <<log, projected, cursor, flag, unsure>>
worker == <<pc, context, through>>
history == <<answered, held, owed, slipped>>
vars == <<log, projected, cursor, flag, unsure, up, crashes, pausing, permit, pc, context,
          through, handler, job, answered, held, owed, slipped>>

Init ==
  /\ log = <<>> /\ projected = 0 /\ cursor = 0 /\ flag = FALSE /\ unsure = FALSE
  /\ up = TRUE /\ crashes = 0 /\ pausing = FALSE /\ permit = FALSE
  /\ pc = "check" /\ context = 0 /\ through = 0
  /\ handler = [e \in Event |-> "none"]
  /\ job = [e \in Event |-> "none"]
  /\ answered = 0 /\ held = FALSE /\ owed = FALSE /\ slipped = FALSE

(* Mutant: only a loop that is waiting already is woken (notify_waiters).  *)
NotifyWaiting == permit' = (permit \/ pc = "waiting")

Notify == permit' = TRUE

----------------------------------------------------------------------------
(* Ingress.  A handler answers its client after Leave.                     *)

(* Ledger::ingest.  A delivery whose id is already there changes nothing:  *)
(* it is told that it is a duplicate, or refused if its content differs.   *)
Accept(e) ==
  /\ up /\ handler[e] = "none"
  /\ log' = Append(log, e)
  /\ handler' = [handler EXCEPT ![e] = "ingested"]
  /\ owed' = (owed /\ e \notin Owner)
  /\ UNCHANGED <<projected, cursor, flag, unsure, up, crashes, pausing, permit, worker, job,
                 answered, held, slipped>>

(* The handler returns, having spawned the observation of the pictures.    *)
Leave(e) ==
  /\ handler' = [handler EXCEPT ![e] = "done"]
  /\ job' = IF e \in Pictured THEN [job EXCEPT ![e] = "observing"] ELSE job

(* Ingress::receive and EventRegistry::receive wake the loop at once; the  *)
(* owner's handler on the web goes on to lift the pause.                   *)
NotifyIngested(e) ==
  /\ handler[e] = "ingested" /\ e \notin OwnerQQ
  /\ Notify
  /\ IF e \in OwnerWeb
     THEN handler' = [handler EXCEPT ![e] = "notified"] /\ UNCHANGED job
     ELSE Leave(e)
  /\ UNCHANGED <<mailbox, up, crashes, pausing, worker, history>>

(* set_attention(false): the flag in memory, then its copy in the ledger.  *)
StoreLift(e) ==
  /\ \/ e \in OwnerWeb /\ handler[e] = "notified"
     \/ e \in OwnerQQ /\ handler[e] = "ingested"
  /\ pausing' = FALSE /\ held' = FALSE
  /\ handler' = [handler EXCEPT ![e] = "lifting"]
  /\ UNCHANGED <<mailbox, up, crashes, permit, worker, job, answered, owed, slipped>>

CommitLift(e) ==
  /\ handler[e] = "lifting"
  /\ flag' = FALSE /\ held' = FALSE
  /\ handler' = [handler EXCEPT ![e] = "lifted"]
  /\ UNCHANGED <<log, projected, cursor, unsure, up, crashes, pausing, permit, worker, job,
                 answered, owed, slipped>>

NotifyLifted(e) ==
  /\ handler[e] = "lifted"
  /\ Notify
  /\ Leave(e)
  /\ UNCHANGED <<mailbox, up, crashes, pausing, worker, history>>

(* The client disconnects while the handler awaits the ledger, whose call  *)
(* runs to its end all the same; or the cache_put fails.                   *)
Drop(e) ==
  /\ handler[e] \in {"ingested", "lifting", "lifted"}
  /\ handler' = [handler EXCEPT ![e] = "lost"]
  /\ UNCHANGED <<mailbox, up, crashes, pausing, permit, worker, job, history>>

(* The background job commits what it observed, or fails to, and wakes the *)
(* loop (Ingress::observed_media).                                         *)
Observe(e) ==
  /\ job[e] = "observing"
  /\ \/ log' = Append(log, e) /\ job' = [job EXCEPT ![e] = "observed"]
     \/ UNCHANGED log /\ job' = [job EXCEPT ![e] = "failed"]
  /\ UNCHANGED <<projected, cursor, flag, unsure, up, crashes, pausing, permit, worker,
                 handler, history>>

NotifyObserved(e) ==
  /\ job[e] = "observed"
  /\ Notify
  /\ job' = [job EXCEPT ![e] = "done"]
  /\ UNCHANGED <<mailbox, up, crashes, pausing, worker, handler, history>>

----------------------------------------------------------------------------
(* The attention loop.                                                     *)

Go(to) == pc' = to /\ UNCHANGED <<context, through>>

CheckPause ==
  /\ pc = "check"
  /\ Go(IF pausing THEN "parking" ELSE "counting")
  /\ UNCHANGED <<mailbox, up, crashes, pausing, permit, handler, job, history>>

CountPending ==
  /\ pc = "counting"
  /\ Go(IF cursor < Len(log) THEN "starting" ELSE "parking")
  /\ UNCHANGED <<mailbox, up, crashes, pausing, permit, handler, job, history>>

(* The loop is not waiting yet when it has found nothing to do.            *)
Park ==
  /\ pc = "parking"
  /\ Go("waiting")
  /\ UNCHANGED <<mailbox, up, crashes, pausing, permit, handler, job, history>>

Wake ==
  /\ pc = "waiting" /\ permit
  /\ permit' = FALSE
  /\ Go("check")
  /\ UNCHANGED <<mailbox, up, crashes, pausing, handler, job, history>>

(* After the coalescing window, and under the control lock, the turn loads *)
(* its history.                                                            *)
StartTurn ==
  /\ pc = "starting"
  /\ pc' = "turn" /\ context' = Len(log)
  /\ UNCHANGED <<mailbox, up, crashes, pausing, permit, through, handler, job, history>>

(* New facts are read at a provider boundary.                              *)
ReadMore ==
  /\ pc = "turn" /\ projected = context /\ context < Len(log)
  /\ context' = Len(log)
  /\ UNCHANGED <<mailbox, up, crashes, pausing, permit, pc, through, handler, job, history>>

(* save_history, before routing and after every round.                     *)
SaveProjection ==
  /\ pc = "turn" /\ projected < context
  /\ projected' = context
  /\ UNCHANGED <<log, cursor, flag, unsure, up, crashes, pausing, permit, worker, handler,
                 job, history>>

(* The turn ends completed or silent, with what it read in the projection. *)
EndWell ==
  /\ pc = "turn" /\ projected = context
  /\ Go("ended")
  /\ answered' = context
  /\ UNCHANGED <<mailbox, up, crashes, pausing, permit, handler, job, held, owed, slipped>>

(* Any other status, or an error; some leave an action unknown.            *)
EndBadly ==
  /\ pc = "turn"
  /\ Go("failed")
  /\ owed' = TRUE
  /\ unsure' \in {unsure, TRUE}
  /\ UNCHANGED <<log, projected, cursor, flag, up, crashes, pausing, permit, handler, job,
                 answered, held, slipped>>

(* Mutants: the checkpoint is read off the newest event; one too few.      *)
ReadNewest ==
  /\ pc = "ended"
  /\ pc' = "checkpointing" /\ through' = Len(log)
  /\ UNCHANGED <<mailbox, up, crashes, pausing, permit, context, handler, job, history>>
ReadOneLess ==
  /\ pc = "ended"
  /\ pc' = "checkpointing" /\ through' = IF projected = 0 THEN 0 ELSE projected - 1
  /\ UNCHANGED <<mailbox, up, crashes, pausing, permit, context, handler, job, history>>

ReadThrough ==
  /\ pc = "ended"
  /\ pc' = "checkpointing" /\ through' = projected
  /\ UNCHANGED <<mailbox, up, crashes, pausing, permit, context, handler, job, history>>

Checkpoint ==
  /\ pc = "checkpointing"
  /\ cursor' = IF through > cursor THEN through ELSE cursor
  /\ slipped' = FALSE
  /\ Go("check")
  /\ UNCHANGED <<log, projected, flag, unsure, up, crashes, pausing, permit, handler, job,
                 answered, held, owed>>

(* Either call fails: step returns the error of a turn that ended well,    *)
(* and the loop pauses with the cursor where it was.                       *)
CheckpointFails ==
  /\ pc \in {"ended", "checkpointing"}
  /\ slipped' = TRUE
  /\ Go("failed")
  /\ UNCHANGED <<mailbox, up, crashes, pausing, permit, handler, job, answered, held, owed>>

(* set_attention(true), in the same order; the owner may write in between. *)
StorePause ==
  /\ pc = "failed"
  /\ pausing' = TRUE
  /\ Go("pausing")
  /\ UNCHANGED <<mailbox, up, crashes, permit, handler, job, history>>

CommitPause ==
  /\ pc = "pausing"
  /\ flag' = TRUE /\ held' = pausing
  /\ Go("check")
  /\ UNCHANGED <<log, projected, cursor, unsure, up, crashes, pausing, permit, handler, job,
                 answered, owed, slipped>>

----------------------------------------------------------------------------
(* Crashes, and restarts by the service manager.  A worker that returns on *)
(* a ledger error stops the whole service (serve), which is a crash here,  *)
(* as is a shutdown.                                                       *)

(* A turn that dies may leave an action started.                           *)
Crash ==
  /\ up /\ crashes < MaxCrash
  /\ up' = FALSE /\ crashes' = crashes + 1
  /\ unsure' \in IF pc = "turn" THEN {unsure, TRUE} ELSE {unsure}
  /\ pc' = "down" /\ context' = 0 /\ through' = 0
  /\ pausing' = FALSE /\ permit' = FALSE
  /\ handler' = [e \in Event |-> IF handler[e] \in {"none", "done"} THEN handler[e] ELSE "dead"]
  /\ job' = [e \in Event |-> IF job[e] \in {"observing", "observed"} THEN "failed" ELSE job[e]]
  /\ slipped' = (slipped \/ pc \in {"ended", "checkpointing"})
  /\ UNCHANGED <<log, projected, cursor, flag, answered, held, owed>>

(* Mutant: only unknown actions pause the loop after a restart.            *)
RestartForgetful ==
  /\ ~up
  /\ up' = TRUE
  /\ pausing' = unsure
  /\ Go("check")
  /\ UNCHANGED <<mailbox, crashes, permit, handler, job, history>>

(* WebState::build.                                                        *)
Restart ==
  /\ ~up
  /\ up' = TRUE
  /\ pausing' = (unsure \/ flag)
  /\ Go("check")
  /\ UNCHANGED <<mailbox, crashes, permit, handler, job, history>>

HandlerStep(e) ==
  NotifyIngested(e) \/ StoreLift(e) \/ CommitLift(e) \/ NotifyLifted(e)
JobStep(e) == Observe(e) \/ NotifyObserved(e)
WorkerStep ==
  \/ CheckPause \/ CountPending \/ Park \/ Wake \/ StartTurn \/ ReadMore \/ SaveProjection
  \/ EndWell \/ EndBadly \/ ReadThrough \/ Checkpoint \/ CheckpointFails
  \/ StorePause \/ CommitPause

Next ==
  \/ \E e \in Event : Accept(e) \/ HandlerStep(e) \/ Drop(e) \/ JobStep(e)
  \/ WorkerStep \/ Crash \/ Restart

(* The runtime polls every task that can go on; turns are bounded          *)
(* (TurnLoop's TurnEnds), and the service manager restarts the service.    *)
Fairness ==
  /\ \A e \in Event : WF_vars(HandlerStep(e)) /\ WF_vars(JobStep(e))
  /\ WF_vars(WorkerStep) /\ WF_vars(Restart)

Spec == Init /\ [][Next]_vars /\ Fairness

----------------------------------------------------------------------------
(* Properties.                                                             *)

(* Every variable holds what its table, field or local can hold.           *)
TypeOK ==
  /\ log \in Seq(Event)
  /\ projected \in 0..Len(log) /\ cursor \in 0..Len(log)
  /\ flag \in BOOLEAN /\ unsure \in BOOLEAN
  /\ up \in BOOLEAN /\ crashes \in Nat /\ pausing \in BOOLEAN /\ permit \in BOOLEAN
  /\ pc \in {"check", "counting", "parking", "waiting", "starting", "turn", "ended",
             "checkpointing", "failed", "pausing", "down"}
  /\ context \in 0..Len(log) /\ through \in 0..Len(log)
  /\ handler \in [Event -> {"none", "ingested", "notified", "lifting", "lifted", "done",
                         "lost", "dead"}]
  /\ job \in [Event -> {"none", "observing", "observed", "done", "failed"}]
  /\ answered \in 0..Len(log) /\ held \in BOOLEAN /\ owed \in BOOLEAN
  /\ slipped \in BOOLEAN

(* The cursor never passes an event that no turn which ended well had read *)
(* (current-design.md: the checkpoint may only advance to the projection   *)
(* the model actually read).                                               *)
CheckpointSeen == cursor <= answered

Starts == pc # "turn" /\ pc' = "turn"

(* Once the pause is committed no turn starts - across reports, restarts   *)
(* and background observations - until a handler of an owner's message     *)
(* lifts it.                                                               *)
PauseHolds == [][Starts => ~held]_vars

(* A turn starts only if there is something that no turn has answered,     *)
(* unless the checkpoint of the last turn that ended well was lost: to an  *)
(* error of the ledger, after which step reports the turn as failed, or to *)
(* the end of the process.  A checkpoint that does succeed settles that    *)
(* again.                                                                  *)
NothingAnsweredTwice == [][Starts => answered < Len(log) \/ slipped]_vars

Pending(e) == \E i \in DOMAIN log : log[i] = e /\ cursor < i

(* No wake-up is lost: an accepted event, and an observation committed     *)
(* later, is attended to, unless the loop pauses, the process ends, or a   *)
(* handler - that of the event, or of an owner's message that lifted the   *)
(* pause - was dropped before it could wake the loop.                      *)
AcceptedIsAttended ==
  \A e \in Event :
    up /\ Pending(e) ~>
      ~Pending(e) \/ pausing \/ ~up \/ \E d \in {e} \cup Owner : handler[d] = "lost"

(* hz-trial.md: a failure of the model or of a tool pauses the loop, which *)
(* resumes only after the owner gave a new instruction.  It does not hold: *)
(* the pause is committed after the turn has ended, and may never be.      *)
PauseUntilOwnerWrites == [][Starts => ~owed]_vars
=============================================================================
