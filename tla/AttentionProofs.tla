-------------------------- MODULE AttentionProofs --------------------------
(***************************************************************************)
(* Proofs about Attention for any events and any number of crashes.  The   *)
(* checkpoint and the pause are each set from a value that was read in an  *)
(* earlier step, so the invariant says what each position of the loop      *)
(* knows: of the order of the four marks over the log (Ordered, Settled),  *)
(* and of where the loop can be while the pause is held (Paused).          *)
(***************************************************************************)
EXTENDS Attention, TLAPS

(* The checkpoint, what was answered, what is projected and what the       *)
(* running turn has read follow one another.                               *)
Ordered ==
  /\ cursor <= answered /\ answered <= projected
  /\ pc = "turn" => projected <= context
  /\ pc = "ended" => projected = answered
  /\ pc = "checkpointing" => through = answered

(* While the pause is held, every flag says so and no turn can be on its   *)
(* way.                                                                    *)
Paused ==
  /\ up <=> pc # "down"
  /\ held => /\ flag
             /\ up => pausing
             /\ pc \in {"check", "parking", "waiting", "down"}

(* Unless a checkpoint was lost, whatever was answered is checkpointed     *)
(* before the loop looks for work again; a turn is only due when something *)
(* lies past the cursor.                                                   *)
Settled ==
  /\ pc \notin {"ended", "checkpointing"} => slipped \/ cursor = answered
  /\ pc = "starting" => cursor < Len(log)

MailboxInv == TypeOK /\ Ordered /\ Paused /\ Settled

----------------------------------------------------------------------------

(* The initial state satisfies the invariant.                              *)
LEMMA MailboxInit == Init => MailboxInv
<1> SUFFICES ASSUME Init PROVE MailboxInv
  OBVIOUS
<1>1. log \in Seq(Event) /\ Len(log) = 0
  BY DEF Init
<1>2. /\ handler \in [Event -> {"none", "ingested", "notified", "lifting", "lifted", "done",
                                "lost", "dead"}]
      /\ job \in [Event -> {"none", "observing", "observed", "done", "failed"}]
  BY DEF Init
<1>3. TypeOK
  <2>1. 0 \in 0..Len(log)
    BY <1>1
  <2> QED
    BY <1>1, <1>2, <2>1 DEF Init, TypeOK
<1> QED
  BY <1>1, <1>3 DEF Init, MailboxInv, Ordered, Paused, Settled

(* Appending an event keeps every mark within the log.                     *)
LEMMA Grow ==
  ASSUME TypeOK, NEW e \in Event, log' = Append(log, e)
  PROVE  /\ log' \in Seq(Event) /\ Len(log') = Len(log) + 1
         /\ Len(log) \in Nat /\ 0..Len(log) \subseteq 0..Len(log')
BY DEF TypeOK

(* Every step of a handler or of a background job keeps the invariant: it  *)
(* only adds to the log, wakes the loop or lifts the pause.                *)
LEMMA IngressStep ==
  ASSUME MailboxInv, NEW e \in Event, Accept(e) \/ HandlerStep(e) \/ Drop(e) \/ JobStep(e)
  PROVE  MailboxInv'
<1> USE DEF MailboxInv, mailbox, worker, history
<1>0. Len(log) \in Nat
  BY DEF TypeOK
<1>1. CASE Accept(e)
  <2>1. log' = Append(log, e)
    BY <1>1 DEF Accept
  <2>2. TypeOK'
    BY <1>1, <2>1, Grow DEF Accept, TypeOK
  <2> QED
    BY <1>0, <1>1, <2>1, <2>2, Grow DEF Accept, Ordered, Paused, Settled, TypeOK
<1>2. CASE NotifyIngested(e)
  <2>1. TypeOK'
    BY <1>2 DEF NotifyIngested, Leave, Notify, TypeOK
  <2> QED
    BY <1>2, <2>1 DEF NotifyIngested, Leave, Notify, Ordered, Paused, Settled
<1>3. CASE StoreLift(e)
  <2>1. TypeOK'
    BY <1>3 DEF StoreLift, Notify, TypeOK
  <2> QED
    BY <1>3, <2>1 DEF StoreLift, Notify, Ordered, Paused, Settled
<1>4. CASE CommitLift(e)
  <2>1. TypeOK'
    BY <1>4 DEF CommitLift, Notify, TypeOK
  <2> QED
    BY <1>4, <2>1 DEF CommitLift, Notify, Ordered, Paused, Settled
<1>5. CASE NotifyLifted(e)
  <2>1. TypeOK'
    BY <1>5 DEF NotifyLifted, Leave, Notify, TypeOK
  <2> QED
    BY <1>5, <2>1 DEF NotifyLifted, Leave, Notify, Ordered, Paused, Settled
<1>6. CASE Drop(e)
  <2>1. TypeOK'
    BY <1>6 DEF Drop, Notify, TypeOK
  <2> QED
    BY <1>6, <2>1 DEF Drop, Notify, Ordered, Paused, Settled
<1>7. CASE NotifyObserved(e)
  <2>1. TypeOK'
    BY <1>7 DEF NotifyObserved, Notify, TypeOK
  <2> QED
    BY <1>7, <2>1 DEF NotifyObserved, Notify, Ordered, Paused, Settled
<1>8. CASE Observe(e)
  <2>1. job' \in [Event -> {"none", "observing", "observed", "done", "failed"}]
    BY <1>8 DEF Observe, TypeOK
  <2>2. CASE log' = Append(log, e)
    <3>1. TypeOK'
      BY <1>8, <2>1, <2>2, Grow DEF Observe, TypeOK
    <3> QED
      BY <1>0, <1>8, <2>2, <3>1, Grow DEF Observe, Ordered, Paused, Settled, TypeOK
  <2>3. CASE UNCHANGED log
    <3>1. TypeOK'
      BY <1>8, <2>1, <2>3 DEF Observe, TypeOK
    <3> QED
      BY <1>8, <2>3, <3>1 DEF Observe, Ordered, Paused, Settled
  <2> QED
    BY <1>8, <2>2, <2>3 DEF Observe
<1> QED
  BY <1>1, <1>2, <1>3, <1>4, <1>5, <1>6, <1>7, <1>8 DEF HandlerStep, JobStep

(* Every step of the attention loop keeps the invariant.                   *)
LEMMA LoopStep == MailboxInv /\ WorkerStep => MailboxInv'
<1> SUFFICES ASSUME MailboxInv, WorkerStep PROVE MailboxInv'
  OBVIOUS
<1> USE DEF MailboxInv, mailbox, history, Go
<1>0. Len(log) \in Nat
  BY DEF TypeOK
<1>1. CASE CheckPause
  <2>1. TypeOK'
    BY <1>0, <1>1 DEF CheckPause, worker, TypeOK
  <2> QED
    BY <1>0, <1>1, <2>1 DEF CheckPause, worker, Ordered, Paused, Settled, TypeOK
<1>2. CASE CountPending
  <2>1. TypeOK'
    BY <1>0, <1>2 DEF CountPending, worker, TypeOK
  <2> QED
    BY <1>0, <1>2, <2>1 DEF CountPending, worker, Ordered, Paused, Settled, TypeOK
<1>3. CASE Park
  <2>1. TypeOK'
    BY <1>0, <1>3 DEF Park, worker, TypeOK
  <2> QED
    BY <1>0, <1>3, <2>1 DEF Park, worker, Ordered, Paused, Settled, TypeOK
<1>4. CASE Wake
  <2>1. TypeOK'
    BY <1>0, <1>4 DEF Wake, worker, TypeOK
  <2> QED
    BY <1>0, <1>4, <2>1 DEF Wake, worker, Ordered, Paused, Settled, TypeOK
<1>5. CASE StartTurn
  <2>1. TypeOK'
    BY <1>0, <1>5 DEF StartTurn, worker, TypeOK
  <2> QED
    BY <1>0, <1>5, <2>1 DEF StartTurn, worker, Ordered, Paused, Settled, TypeOK
<1>6. CASE ReadMore
  <2>1. TypeOK'
    BY <1>0, <1>6 DEF ReadMore, worker, TypeOK
  <2> QED
    BY <1>0, <1>6, <2>1 DEF ReadMore, worker, Ordered, Paused, Settled, TypeOK
<1>7. CASE SaveProjection
  <2>1. TypeOK'
    BY <1>0, <1>7 DEF SaveProjection, worker, TypeOK
  <2> QED
    BY <1>0, <1>7, <2>1 DEF SaveProjection, worker, Ordered, Paused, Settled, TypeOK
<1>8. CASE EndWell
  <2>1. TypeOK'
    BY <1>0, <1>8 DEF EndWell, worker, TypeOK
  <2> QED
    BY <1>0, <1>8, <2>1 DEF EndWell, worker, Ordered, Paused, Settled, TypeOK
<1>9. CASE EndBadly
  <2>1. TypeOK'
    BY <1>0, <1>9 DEF EndBadly, worker, TypeOK
  <2> QED
    BY <1>0, <1>9, <2>1 DEF EndBadly, worker, Ordered, Paused, Settled, TypeOK
<1>10. CASE ReadThrough
  <2>1. TypeOK'
    BY <1>0, <1>10 DEF ReadThrough, worker, TypeOK
  <2> QED
    BY <1>0, <1>10, <2>1 DEF ReadThrough, worker, Ordered, Paused, Settled, TypeOK
<1>11. CASE Checkpoint
  <2>1. TypeOK'
    BY <1>0, <1>11 DEF Checkpoint, worker, TypeOK
  <2> QED
    BY <1>0, <1>11, <2>1 DEF Checkpoint, worker, Ordered, Paused, Settled, TypeOK
<1>12. CASE CheckpointFails
  <2>1. TypeOK'
    BY <1>0, <1>12 DEF CheckpointFails, worker, TypeOK
  <2> QED
    BY <1>0, <1>12, <2>1 DEF CheckpointFails, worker, Ordered, Paused, Settled, TypeOK
<1>13. CASE StorePause
  <2>1. TypeOK'
    BY <1>0, <1>13 DEF StorePause, worker, TypeOK
  <2> QED
    BY <1>0, <1>13, <2>1 DEF StorePause, worker, Ordered, Paused, Settled, TypeOK
<1>14. CASE CommitPause
  <2>1. TypeOK'
    BY <1>0, <1>14 DEF CommitPause, worker, TypeOK
  <2> QED
    BY <1>0, <1>14, <2>1 DEF CommitPause, worker, Ordered, Paused, Settled, TypeOK
<1> QED
  BY <1>1, <1>2, <1>3, <1>4, <1>5, <1>6, <1>7, <1>8, <1>9, <1>10, <1>11, <1>12, <1>13,
     <1>14 DEF WorkerStep

(* A crash and a restart keep it: what is durable still bars the loop.     *)
LEMMA ProcessStep == MailboxInv /\ (Crash \/ Restart) => MailboxInv'
<1> SUFFICES ASSUME MailboxInv, Crash \/ Restart PROVE MailboxInv'
  OBVIOUS
<1> USE DEF MailboxInv, mailbox, history
<1>0. Len(log) \in Nat
  BY DEF TypeOK
<1>1. CASE Crash
  <2>1. handler' \in [Event -> {"none", "ingested", "notified", "lifting", "lifted", "done",
                               "lost", "dead"}]
    <3>1. \A e \in Event :
            (IF handler[e] \in {"none", "done"} THEN handler[e] ELSE "dead")
              \in {"none", "done", "dead"}
      OBVIOUS
    <3> QED
      BY <1>1, <3>1 DEF Crash
  <2>2. job' \in [Event -> {"none", "observing", "observed", "done", "failed"}]
    <3>1. \A e \in Event :
            (IF job[e] \in {"observing", "observed"} THEN "failed" ELSE job[e])
              \in {"none", "observing", "observed", "done", "failed"}
      BY DEF TypeOK
    <3> QED
      BY <1>1, <3>1 DEF Crash
  <2>3. /\ 0 \in 0..Len(log)
        /\ unsure' \in BOOLEAN
        /\ crashes' \in Nat
    <3>1. unsure \in BOOLEAN
      BY DEF TypeOK
    <3>2. unsure' \in {unsure, TRUE}
      BY <1>1, Zenon DEF Crash
    <3>3. unsure' \in BOOLEAN
      BY <3>1, <3>2, Zenon
    <3> QED
      BY <1>0, <1>1, <3>3 DEF Crash, TypeOK
  <2>4. TypeOK'
    BY <1>1, <2>1, <2>2, <2>3 DEF Crash, TypeOK
  <2> QED
    BY <1>0, <1>1, <2>4 DEF Crash, Ordered, Paused, Settled, TypeOK
<1>2. CASE Restart
  <2>1. TypeOK'
    BY <1>2 DEF Restart, Go, TypeOK
  <2> QED
    BY <1>2, <2>1 DEF Restart, Go, Ordered, Paused, Settled, TypeOK
<1> QED
  BY <1>1, <1>2

(* The invariant is inductive.                                             *)
LEMMA MailboxNext == MailboxInv /\ [Next]_vars => MailboxInv'
<1> SUFFICES ASSUME MailboxInv, [Next]_vars PROVE MailboxInv'
  OBVIOUS
<1>1. CASE \E e \in Event : Accept(e) \/ HandlerStep(e) \/ Drop(e) \/ JobStep(e)
  BY <1>1, IngressStep
<1>2. CASE WorkerStep
  BY <1>2, LoopStep
<1>3. CASE Crash \/ Restart
  BY <1>3, ProcessStep
<1>4. CASE UNCHANGED vars
  BY <1>4 DEF vars, MailboxInv, TypeOK, Ordered, Paused, Settled
<1> QED
  BY <1>1, <1>2, <1>3, <1>4 DEF Next

----------------------------------------------------------------------------

(* The invariant holds of every behaviour.                                 *)
THEOREM MailboxInvariant == Spec => []MailboxInv
<1> QED
  BY MailboxInit, MailboxNext, PTL DEF Spec

(* Every variable of the mailbox is well typed, for any set of events.     *)
THEOREM TypeCorrect == Spec => []TypeOK
<1>1. MailboxInv => TypeOK
  BY DEF MailboxInv
<1> QED
  BY <1>1, MailboxInvariant, PTL

(* The attention cursor never passes an event that no turn which ended     *)
(* well had read (Scheduler::step, projected_through and checkpoint).      *)
THEOREM CheckpointIsRead == Spec => []CheckpointSeen
<1>1. MailboxInv => CheckpointSeen
  BY DEF MailboxInv, Ordered, CheckpointSeen
<1> QED
  BY <1>1, MailboxInvariant, PTL

(* Only StartTurn starts a turn.                                           *)
LEMMA OnlyStartTurn == MailboxInv /\ [Next]_vars /\ Starts => StartTurn
<1> SUFFICES ASSUME MailboxInv, [Next]_vars, Starts PROVE StartTurn
  OBVIOUS
<1> USE DEF Starts, worker
<1>1. CASE \E e \in Event : Accept(e) \/ HandlerStep(e) \/ Drop(e) \/ JobStep(e)
  BY <1>1 DEF Accept, HandlerStep, NotifyIngested, StoreLift, CommitLift, NotifyLifted, Drop,
              JobStep, Observe, NotifyObserved
<1>2. CASE WorkerStep
  BY <1>2 DEF WorkerStep, Go, CheckPause, CountPending, Park, Wake, ReadMore, SaveProjection,
              EndWell, EndBadly, ReadThrough, Checkpoint, CheckpointFails, StorePause,
              CommitPause
<1>3. CASE Crash \/ Restart
  BY <1>3 DEF Crash, Restart, Go
<1>4. CASE UNCHANGED vars
  BY <1>4 DEF vars
<1> QED
  BY <1>1, <1>2, <1>3, <1>4 DEF Next

(* No turn starts while the committed pause is held: not after a report,   *)
(* not after any number of restarts (work, set_attention and build).       *)
THEOREM PauseIsKept == Spec => PauseHolds
<1>1. MailboxInv /\ [Next]_vars => [Starts => ~held]_vars
  BY OnlyStartTurn DEF MailboxInv, Paused, StartTurn
<1> QED
  BY <1>1, MailboxInvariant, PTL DEF Spec, PauseHolds

(* A turn never starts when everything was answered, unless the checkpoint *)
(* of what was answered was lost to an error or to the end of the process  *)
(* (Scheduler::step and the Err branch of work).                           *)
THEOREM AnsweredOnce == Spec => NothingAnsweredTwice
<1>1. MailboxInv /\ [Next]_vars => [Starts => answered < Len(log) \/ slipped]_vars
  <2> SUFFICES ASSUME MailboxInv, StartTurn, ~slipped PROVE answered < Len(log)
    BY OnlyStartTurn DEF MailboxInv, TypeOK
  <2> QED
    BY DEF MailboxInv, Settled, StartTurn
<1> QED
  BY <1>1, MailboxInvariant, PTL DEF Spec, NothingAnsweredTwice

----------------------------------------------------------------------------
(* Wake-ups.                                                               *)

(* A loop that waits, or is about to, while something is pending and it is *)
(* not paused has its wake-up still to come: the permit is stored, or a    *)
(* handler or an observation that has yet to notify it is on its way - or  *)
(* was dropped before it could (Ingress::receive, submit, qq_event).       *)
WakeIsDue ==
  pc \in {"parking", "waiting"} /\ ~permit /\ ~pausing =>
    \A e \in Event : Pending(e) =>
      \/ handler[e] \in {"ingested", "lost"} \/ job[e] = "observed"
      \/ \E d \in Owner : handler[d] \in {"lifting", "lifted", "lost"}

(* What is pending afterwards was pending before, or has just arrived.     *)
LEMMA PendingBefore ==
  ASSUME TypeOK, TypeOK', NEW d \in Event, Pending(d)', cursor' = cursor,
         NEW e \in Event, log' = log \/ log' = Append(log, e)
  PROVE  Pending(d) \/ (d = e /\ log' = Append(log, e))
<1> PICK i \in DOMAIN log' : log'[i] = d /\ cursor' < i
  BY DEF Pending
<1>1. CASE log' = log
  BY <1>1 DEF Pending
<1>2. CASE log' = Append(log, e)
  BY <1>2 DEF Pending, TypeOK
<1> QED
  BY <1>1, <1>2

(* A handler or a job that has committed something has yet to wake the     *)
(* loop, unless it is dropped.                                             *)
LEMMA WakeIngress ==
  ASSUME MailboxInv, MailboxInv', WakeIsDue, NEW e \in Event,
         Accept(e) \/ HandlerStep(e) \/ Drop(e) \/ JobStep(e)
  PROVE  WakeIsDue'
<1> SUFFICES ASSUME pc' \in {"parking", "waiting"}, ~permit', ~pausing',
                    NEW x \in Event, Pending(x)'
             PROVE  \/ handler'[x] \in {"ingested", "lost"} \/ job'[x] = "observed"
                    \/ \E d \in Owner : handler'[d] \in {"lifting", "lifted", "lost"}
  BY DEF WakeIsDue
<1> USE DEF mailbox, worker, history
<1>0. /\ TypeOK /\ TypeOK' /\ Owner \subseteq Event
      /\ handler \in [Event -> {"none", "ingested", "notified", "lifting", "lifted", "done",
                                "lost", "dead"}]
      /\ job \in [Event -> {"none", "observing", "observed", "done", "failed"}]
  BY DEF MailboxInv, TypeOK, Event
<1>1. CASE Accept(e)
  <2>1. Pending(x) \/ x = e
    BY <1>0, <1>1, PendingBefore DEF Accept
  <2> QED
    BY <1>0, <1>1, <2>1 DEF Accept, WakeIsDue
<1>2. CASE NotifyIngested(e) \/ NotifyLifted(e) \/ NotifyObserved(e)
  BY <1>2 DEF NotifyIngested, NotifyLifted, NotifyObserved, Notify
<1>3. CASE StoreLift(e)
  BY <1>0, <1>3 DEF StoreLift, Owner
<1>4. CASE CommitLift(e) \/ Drop(e)
  <2>1. Pending(x)
    BY <1>0, <1>4, PendingBefore DEF CommitLift, Drop
  <2>2. \/ handler[x] \in {"ingested", "lost"} \/ job[x] = "observed"
        \/ \E d \in Owner : handler[d] \in {"lifting", "lifted", "lost"}
    BY <1>4, <2>1 DEF CommitLift, Drop, WakeIsDue
  <2>3. job' = job /\ \A d \in Event : handler[d] \in {"ingested", "lost"} =>
                        handler'[d] \in {"ingested", "lost"}
    BY <1>0, <1>4 DEF CommitLift, Drop
  <2>4. \A d \in Owner : handler[d] \in {"lifting", "lifted", "lost"} =>
                          handler'[d] \in {"lifting", "lifted", "lost"}
    BY <1>0, <1>4 DEF CommitLift, Drop
  <2> QED
    BY <2>2, <2>3, <2>4
<1>5. CASE Observe(e)
  <2>1. Pending(x) \/ (x = e /\ job'[e] = "observed")
    <3>1. CASE log' = Append(log, e) /\ job' = [job EXCEPT ![e] = "observed"]
      BY <1>0, <1>5, <3>1, PendingBefore DEF Observe
    <3>2. CASE UNCHANGED log
      BY <1>0, <1>5, <3>2, PendingBefore DEF Observe
    <3> QED
      BY <1>5, <3>1, <3>2 DEF Observe
  <2>2. job[x] = "observed" => job'[x] = "observed"
    BY <1>0, <1>5 DEF Observe
  <2> QED
    BY <1>0, <1>5, <2>1, <2>2 DEF Observe, WakeIsDue
<1> QED
  BY <1>1, <1>2, <1>3, <1>4, <1>5 DEF HandlerStep, JobStep

(* The loop parks only after it has found nothing pending, or the pause.   *)
LEMMA WakeLoop == MailboxInv /\ WakeIsDue /\ WorkerStep => WakeIsDue'
<1> SUFFICES ASSUME MailboxInv, WakeIsDue, WorkerStep,
                    pc' \in {"parking", "waiting"}, ~permit', ~pausing'
             PROVE  WakeIsDue'
  BY DEF WakeIsDue
<1> USE DEF mailbox, history, Go
<1>1. CASE CountPending
  <2>1. Len(log) \in Nat /\ cursor \in 0..Len(log) /\ DOMAIN log = 1..Len(log)
    BY DEF MailboxInv, TypeOK
  <2>2. cursor >= Len(log)
    BY <1>1, <2>1 DEF CountPending
  <2>3. ~(\E e \in Event : Pending(e)')
    BY <1>1, <2>1, <2>2 DEF CountPending, Pending
  <2> QED
    BY <2>3 DEF WakeIsDue
<1>2. CASE Park
  BY <1>2 DEF Park, WakeIsDue, Pending
<1>3. CASE CheckPause
  BY <1>3 DEF CheckPause
<1>4. \/ CountPending \/ Park \/ CheckPause
  BY DEF WorkerStep, CheckPause, CountPending, Park, Wake, StartTurn, ReadMore, SaveProjection,
         EndWell, EndBadly, ReadThrough, Checkpoint, CheckpointFails, StorePause, CommitPause, worker
<1> QED
  BY <1>1, <1>2, <1>3, <1>4

(* No wake-up is lost, whatever handlers, observations, restarts and the   *)
(* checks of the loop do in between: what AcceptedIsAttended needs of the  *)
(* state, for any events (Notify, work).                                   *)
THEOREM WakeUpsAreDue == Spec => []WakeIsDue
<1>1. Init => WakeIsDue
  BY DEF Init, WakeIsDue
<1>2. MailboxInv /\ MailboxInv' /\ WakeIsDue /\ [Next]_vars => WakeIsDue'
  <2> SUFFICES ASSUME MailboxInv, MailboxInv', WakeIsDue, [Next]_vars PROVE WakeIsDue'
    OBVIOUS
  <2>1. CASE \E e \in Event : Accept(e) \/ HandlerStep(e) \/ Drop(e) \/ JobStep(e)
    BY <2>1, WakeIngress
  <2>2. CASE WorkerStep
    BY <2>2, WakeLoop
  <2>3. CASE Crash \/ Restart
    BY <2>3 DEF Crash, Restart, Go, WakeIsDue
  <2>4. CASE UNCHANGED vars
    BY <2>4 DEF vars, WakeIsDue, Pending
  <2> QED
    BY <2>1, <2>2, <2>3, <2>4 DEF Next
<1> QED
  BY <1>1, <1>2, MailboxInvariant, PTL DEF Spec
=============================================================================
