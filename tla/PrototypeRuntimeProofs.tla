------------------------ MODULE PrototypeRuntimeProofs ------------------------
(***************************************************************************)
(* What PrototypeRuntime keeps for any inputs, jobs, batches, rounds and   *)
(* crashes, from PrototypeAssumption alone.                                *)
(*                                                                         *)
(* The four properties rest on different parts of the state: the rows of   *)
(* the jobs and the worker (Worked), the inputs and who has taken them in  *)
(* (Single), what a reply has handed over (Told), and who may start a tool *)
(* (Heard).  Typed is what all of them need to know of the variables; the  *)
(* rest of the types - how far a reply, a round and the ends of the        *)
(* process may go, and the queue of results - comes last.                  *)
(***************************************************************************)
EXTENDS PrototypeRuntime, FiniteSetTheorems, SequenceTheorems, TLAPS

USE DEF database, jobs, conv, chat, worker, process, history

-----------------------------------------------------------------------------
(* The invariants. *)

(* What the variables are, as far as the properties depend on it.          *)
Typed ==
  /\ status \in [Input -> InputStatus] /\ fate \in [Input -> InputStatus]
  /\ st \in [Job -> JobStatus]
  /\ made \in [Job -> SUBSET Input] /\ refs \in [Job -> SUBSET Input]
  /\ pending \subseteq Input /\ lock \in 0..MaxJob
  /\ DOMAIN turn = DOMAIN NoTurn /\ turn.inputs \subseteq Input
  /\ DOMAIN work = DOMAIN NoWork /\ work.job \in 0..MaxJob

(* The worker holds a row that has left the queue, and so has each row of  *)
(* which a tool has begun; a process that ends has no worker.              *)
Worked ==
  /\ wpc # "off" => work.job \in Job /\ st[work.job] \notin {"none", "queued"}
  /\ \A j \in Job : j \in ran => st[j] \notin {"none", "queued"}
  /\ up # "up" => wpc = "off"

(* An input that waits, or that is being answered, is known to the         *)
(* database; one that waits has made no job, and the inputs of a turn have *)
(* made one together or none.                                              *)
Single ==
  /\ \A j \in Job : made[j] \subseteq refs[j]
  /\ \A j \in Job : \A i \in made[j] : status[i] # "none"
  /\ \A i \in pending \cup turn.inputs : status[i] # "none"
  /\ \A j \in Job : made[j] \cap pending = {}
  /\ \A j \in Job : made[j] = turn.inputs \/ made[j] \cap turn.inputs = {}
  /\ OneJobPerInput

(* A turn about to hand over a report has had its messages acknowledged.   *)
Told ==
  /\ ToldWhole
  /\ cpc = "settle" => turn.about \subseteq told

(* While tools may start, no input waits and none is unheard.              *)
Heard == up = "up" /\ allow => unheard = {} /\ pending = {}

-----------------------------------------------------------------------------
(* What a turn keeps. *)

LEMMA PastKeeps ==
  ASSUME NEW t, DOMAIN t = DOMAIN NoTurn
  PROVE  DOMAIN Past(t) = DOMAIN NoTurn /\ Past(t).inputs = t.inputs /\ Past(t).about = t.about
BY DEF Past, NoTurn

LEMMA EndedKeeps ==
  ASSUME NEW t
  PROVE  DOMAIN Ended(t) = DOMAIN NoTurn /\ Ended(t).inputs = t.inputs
BY DEF Ended, NoTurn

LEMMA FailedKeeps ==
  ASSUME NEW t
  PROVE  DOMAIN Failed(t) = DOMAIN NoTurn /\ Failed(t).inputs = t.inputs
<1>1. DOMAIN Ended(t) = DOMAIN NoTurn /\ Ended(t).inputs = t.inputs
  BY EndedKeeps
<1>. QED
  BY <1>1 DEF Failed, NoTurn

(* A step within a turn changes neither its inputs nor what it is.         *)
Same == DOMAIN turn' = DOMAIN NoTurn /\ turn'.inputs = turn.inputs

LEMMA CancelledKeeps ==
  ASSUME Typed, NEW as, ChatCancelled(as)
  PROVE  Same
<1>1. DOMAIN [turn EXCEPT !.superseded = TRUE] = DOMAIN NoTurn
      /\ [turn EXCEPT !.superseded = TRUE].inputs = turn.inputs
  BY DEF Typed, NoTurn
<1>. QED
  BY <1>1, EndedKeeps DEF ChatCancelled, Same, Typed

LEMMA RamblesKeeps ==
  ASSUME Typed, ModelRambles
  PROVE  Same
<1>1. CASE turn.rewrites = 0
  BY <1>1 DEF ModelRambles, Typed, Same, NoTurn
<1>2. CASE turn.rewrites # 0
  <2>1. turn' = Failed(turn)
    BY <1>2 DEF ModelRambles
  <2>. QED
    BY <2>1, FailedKeeps DEF Same
<1>. QED
  BY <1>1, <1>2

LEMMA SeenKeeps ==
  ASSUME Typed, OpSeen
  PROVE  Same
<1>1. CASE turn.superseded
  BY <1>1, EndedKeeps DEF OpSeen, Same
<1>2. CASE ~turn.superseded
  <2>1. turn' = [turn EXCEPT !.saw = turn.waited, !.batch = 0]
    BY <1>2 DEF OpSeen, Ask
  <2>. QED
    BY <2>1 DEF Typed, Same, NoTurn
<1>. QED
  BY <1>1, <1>2

LEMMA PublishKeeps ==
  ASSUME Typed, Publish
  PROVE  Same
<1>1. CASE turn' = Ended(turn)
  BY <1>1, EndedKeeps DEF Same
<1>2. CASE turn' = [turn EXCEPT !.saw = turn.waited, !.batch = 0]
  BY <1>2 DEF Typed, Same, NoTurn
<1>3. CASE turn' = [Past(turn) EXCEPT !.out = (turn.batch > 0), !.silent = (turn.batch = 0),
                                      !.valid = TRUE]
  BY <1>3, PastKeeps DEF Typed, Same, NoTurn
<1>. QED
  BY <1>1, <1>2, <1>3 DEF Publish, Ask

LEMMA ReplyKeeps ==
  ASSUME Typed, NEW b \in BOOLEAN, SendReply(b)
  PROVE  Same
<1>1. CASE turn' = [turn EXCEPT !.failed = TRUE]
  BY <1>1 DEF Typed, Same, NoTurn
<1>2. CASE turn' = turn
  BY <1>2 DEF Typed, Same
<1>. QED
  BY <1>1, <1>2 DEF SendReply

LEMMA SendKeeps ==
  ASSUME Typed, NEW b \in BOOLEAN, SendEnds(b)
  PROVE  Same
<1>1. CASE turn' = turn
  BY <1>1 DEF Typed, Same
<1>2. CASE turn' = [turn EXCEPT !.sent = @ + 1]
  BY <1>2 DEF Typed, Same, NoTurn
<1>3. CASE turn' = [turn EXCEPT !.failed = TRUE]
  BY <1>3 DEF Typed, Same, NoTurn
<1>4. CASE turn' = Ended(turn)
  BY <1>4, EndedKeeps DEF Typed, Same
<1>5. CASE turn' = [turn EXCEPT !.waiting = FALSE, !.waited = b,
                                !.saw = IF b /\ cpc = "ask" THEN TRUE ELSE @]
  BY <1>5 DEF Typed, Same, NoTurn
<1>6. turn' = turn \/ turn' = [turn EXCEPT !.sent = @ + 1] \/ turn' = [turn EXCEPT !.failed =
     TRUE]
      \/ turn' = Ended(turn)
      \/ turn' = [turn EXCEPT !.waiting = FALSE, !.waited = b,
                              !.saw = IF b /\ cpc = "ask" THEN TRUE ELSE @]
  BY DEF SendEnds, Finish
<1>. QED
  BY <1>1, <1>2, <1>3, <1>4, <1>5, <1>6

-----------------------------------------------------------------------------
(* The initial states. *)

LEMMA InvariantInit == Init => Typed /\ Worked /\ Single /\ Told /\ Heard
<1>. SUFFICES ASSUME Init PROVE Typed /\ Worked /\ Single /\ Told /\ Heard
  OBVIOUS
<1>1. Typed
  BY PrototypeAssumption DEF Init, Typed, InputStatus, JobStatus, NoTurn, NoWork
<1>2. Worked
  BY DEF Init, Worked
<1>3. Single
  BY DEF Init, Single, OneJobPerInput, NoTurn
<1>4. Told
  BY DEF Init, Told, ToldWhole
<1>5. Heard
  BY DEF Init, Heard
<1>. QED
  BY <1>1, <1>2, <1>3, <1>4, <1>5

-----------------------------------------------------------------------------
(* The steps. *)

(* Each step leaves the variables what they are.                           *)
LEMMA TypedStep == Typed /\ [Next]_vars => Typed'
<1>. SUFFICES ASSUME Typed, [Next]_vars PROVE Typed'
  OBVIOUS
<1>. USE PrototypeAssumption
<1>1. CASE UNCHANGED <<status, fate, st, made, refs, pending, lock, turn, work>>
  BY <1>1 DEF Typed, InputStatus, JobStatus, Job, Terminal
<1>2. CASE TakeInputs
  BY <1>2 DEF TakeInputs, Begin, NewTurn, NoTurn, Typed, InputStatus, JobStatus, Job, Terminal
<1>3. CASE TakeResult
  BY <1>3 DEF TakeResult, Begin, NewTurn, NoTurn, Typed, InputStatus, JobStatus, Job, Terminal
<1>4. ASSUME NEW n \in 0..MaxBatch, ModelReplies(n) PROVE Typed'
  BY <1>4 DEF ModelReplies, Typed, InputStatus, JobStatus, Job, Terminal
<1>5. CASE ModelRambles
  BY <1>5, RamblesKeeps DEF ModelRambles, Same, Typed
<1>6. CASE Fails
  BY <1>6, FailedKeeps DEF Fails, Typed, InputStatus, JobStatus, Job, Terminal
<1>7. CASE OpBegin
  <2>1. CASE UNCHANGED <<jobs, lock>>
    BY <1>7, <2>1 DEF OpBegin, Typed
  <2>2. CASE CreateJob /\ UNCHANGED lock
    <3>1. CASE UNCHANGED jobs
      BY <1>7, <2>2, <3>1 DEF OpBegin, Typed
    <3>2. CASE ~UNCHANGED jobs
      <4>1. PICK j \in Job : /\ st' = [st EXCEPT ![j] = "queued"]
                             /\ made' = [made EXCEPT ![j] = turn.inputs]
                             /\ refs' = [refs EXCEPT ![j] = turn.inputs]
        BY <2>2, <3>2 DEF CreateJob
      <4>2. "queued" \in JobStatus
        BY DEF JobStatus
      <4>3. st' \in [Job -> JobStatus]
        BY <4>1, <4>2 DEF Typed
      <4>4. made' \in [Job -> SUBSET Input] /\ refs' \in [Job -> SUBSET Input]
        BY <4>1 DEF Typed
      <4>. QED
        BY <1>7, <2>2, <4>3, <4>4 DEF OpBegin, Typed
    <3>. QED
      BY <3>1, <3>2
  <2>3. CASE UNCHANGED <<jobs, op>> /\ lock' \in Job
    BY <1>7, <2>3 DEF OpBegin, Typed, Job
  <2>. QED
    BY <1>7, <2>1, <2>2, <2>3 DEF OpBegin
<1>8. CASE OpCommit
  <2>0. lock \in Job
    BY <1>8 DEF OpCommit, Typed, Job
  <2>1. refs' \in [Job -> SUBSET Input]
    BY <1>8 DEF OpCommit, Typed
  <2>2. DOMAIN work' = DOMAIN NoWork /\ work'.job \in 0..MaxJob
    <3>1. CASE work' = [work EXCEPT !.restart = TRUE, !.stop = (op = "cancel")]
      BY <3>1 DEF Typed, NoWork
    <3>2. CASE work' = work
      BY <3>2 DEF Typed
    <3>. QED
      BY <1>8, <3>1, <3>2 DEF OpCommit
  <2>3. "cancelled" \in JobStatus
    BY DEF JobStatus, Terminal
  <2>4. st' \in [Job -> JobStatus]
    BY <1>8, <2>0, <2>3 DEF OpCommit, Typed
  <2>5. lock' \in 0..MaxJob
    BY <1>8 DEF OpCommit
  <2>. QED
    BY <1>8, <2>1, <2>2, <2>4, <2>5 DEF OpCommit, Typed
<1>9. CASE OpSeen
  BY <1>9, SeenKeeps DEF OpSeen, Same, Typed
<1>10. CASE Publish
  BY <1>10, PublishKeeps DEF Publish, Same, Typed
<1>11. CASE SendError
  BY <1>11 DEF SendError, Stale, Finish, Ended, NoTurn, Typed, InputStatus, JobStatus,
       Job, Terminal
<1>12. CASE Judge
  BY <1>12 DEF Judge, Stale, Finish, Ended, NoTurn, Typed, InputStatus, JobStatus, Job, Terminal
<1>13. CASE EndTurn
  BY <1>13 DEF EndTurn, NoTurn, Typed, InputStatus, JobStatus, Job, Terminal
<1>14. ASSUME NEW b \in BOOLEAN, SendEnds(b) PROVE Typed'
  <2>1. Same
    BY <1>14, SendKeeps
  <2>2. fate' \in [Input -> InputStatus]
    BY <1>14 DEF SendEnds, Finish, Typed, InputStatus
  <2>. QED
    BY <1>14, <2>1, <2>2 DEF SendEnds, Same, Typed
<1>15. ASSUME NEW b \in BOOLEAN, SendReply(b) PROVE Typed'
  BY <1>15, ReplyKeeps DEF SendReply, Same, Typed
<1>16. ASSUME NEW i \in Input, WriteStatus(i) PROVE Typed'
  BY <1>16 DEF WriteStatus, Typed, InputStatus, JobStatus, Job, Terminal
<1>17. CASE Pick
  BY <1>17 DEF Pick, NoWork, Typed, InputStatus, JobStatus, Job, Terminal
<1>18. CASE WorkLoop
  <2>1. DOMAIN work' = DOMAIN NoWork /\ work'.job = work.job
    <3>1. CASE work' = [work EXCEPT !.restart = FALSE, !.steps = @ + 1]
      BY <3>1 DEF Typed, NoWork
    <3>2. CASE work' = work
      BY <3>2 DEF Typed
    <3>. QED
      BY <1>18, <3>1, <3>2 DEF WorkLoop
  <2>2. "cancelled" \in JobStatus /\ "failed" \in JobStatus
    BY DEF JobStatus, Terminal
  <2>3. st' \in [Job -> JobStatus]
    BY <1>18, <2>2 DEF WorkLoop, Typed
  <2>. QED
    BY <1>18, <2>1, <2>3 DEF WorkLoop, Typed
<1>19. CASE WorkAnswer
  <2>1. DOMAIN work' = DOMAIN NoWork /\ work'.job = work.job
    <3>1. ASSUME NEW n, work' = [work EXCEPT !.calls = n]
          PROVE  DOMAIN work' = DOMAIN NoWork /\ work'.job = work.job
      BY <3>1 DEF Typed, NoWork
    <3>2. CASE work' = work
      BY <3>2 DEF Typed
    <3>. QED
      BY <1>19, <3>1, <3>2 DEF WorkAnswer
  <2>2. "failed" \in JobStatus
    BY DEF JobStatus, Terminal
  <2>3. st' \in [Job -> JobStatus]
    BY <1>19, <2>2 DEF WorkAnswer, Typed
  <2>. QED
    BY <1>19, <2>1, <2>3 DEF WorkAnswer, Typed
<1>20. CASE NextCall
  BY <1>20 DEF NextCall, CallOver, Typed, InputStatus, JobStatus, Job, Terminal
<1>21. CASE DoubtSaved
  <2>1. DOMAIN work' = DOMAIN NoWork /\ work'.job = work.job
    BY <1>21 DEF DoubtSaved, CallOver, Typed, NoWork
  <2>2. "unknown" \in JobStatus
    BY DEF JobStatus, Terminal
  <2>3. st' \in [Job -> JobStatus]
    BY <1>21, <2>2 DEF DoubtSaved, Typed
  <2>. QED
    BY <1>21, <2>1, <2>3 DEF DoubtSaved, Typed
<1>22. CASE Report
  BY <1>22 DEF Report, Typed, InputStatus, JobStatus, Job, Terminal
<1>23. CASE WorkDone
  BY <1>23 DEF WorkDone, NoWork, Typed, InputStatus, JobStatus, Job, Terminal
<1>24. ASSUME NEW known \in BOOLEAN, ToolEnds(known) PROVE Typed'
  <2>1. DOMAIN work' = DOMAIN NoWork /\ work'.job = work.job
    <3>1. CASE known
      BY <1>24, <3>1 DEF ToolEnds, CallOver, Typed, NoWork
    <3>2. CASE ~known
      BY <1>24, <3>2 DEF ToolEnds, Typed, NoWork
    <3>. QED
      BY <3>1, <3>2
  <2>. QED
    BY <1>24, <2>1 DEF ToolEnds, Typed
<1>25. ASSUME NEW i \in Input, Submit(i) PROVE Typed'
  <2>1. status' \in [Input -> InputStatus] /\ pending' \subseteq Input
    BY <1>25 DEF Submit, Typed, InputStatus
  <2>2. CASE turn.superseded
    BY <1>25, <2>1, <2>2 DEF Submit, Typed
  <2>3. CASE ~turn.superseded
    <3>1. ChatCancelled("cancelled")
      BY <1>25, <2>3 DEF Submit
    <3>2. Same
      BY <3>1, CancelledKeeps
    <3>3. fate' \in [Input -> InputStatus]
      BY <3>1 DEF ChatCancelled, Typed, InputStatus
    <3>. QED
      BY <1>25, <2>1, <3>2, <3>3 DEF Submit, Same, Typed
  <2>. QED
    BY <2>2, <2>3
<1>26. CASE SendNotice
  BY <1>26 DEF SendNotice, Stale, NoSend, Typed, InputStatus, JobStatus, Job, Terminal
<1>27. CASE Close
  <2>1. ChatCancelled("received")
    BY <1>27 DEF Close
  <2>2. Same
    BY <2>1, CancelledKeeps
  <2>3. fate' \in [Input -> InputStatus]
    BY <2>1 DEF ChatCancelled, Typed, InputStatus
  <2>4. "unknown" \in JobStatus
    BY DEF JobStatus, Terminal
  <2>5. st' \in [Job -> JobStatus]
    BY <1>27, <2>4 DEF Close, Typed
  <2>6. DOMAIN work' = DOMAIN NoWork /\ work'.job \in 0..MaxJob
    BY <1>27 DEF Close, NoWork
  <2>. QED
    BY <1>27, <2>2, <2>3, <2>5, <2>6 DEF Close, Same, Typed
<1>28. CASE Exit
  BY <1>28 DEF Exit, Forget, NoTurn, NoWork, Typed, InputStatus, JobStatus, Job, Terminal
<1>29. CASE Crash
  BY <1>29 DEF Crash, Forget, NoTurn, NoWork, Typed, InputStatus, JobStatus, Job, Terminal
<1>30. CASE Start
  BY <1>30 DEF Start, RecoverJobs, Typed, InputStatus, JobStatus, Job, Terminal
<1>31. CASE (\E kind \in {"start", "update", "cancel", "status"} : ModelCalls(kind)) \/ Settle
     \/ ToolStart \/ Reported
  BY <1>1, <1>31 DEF ModelCalls, Settle, ToolStart, Reported
<1>32. CASE UNCHANGED vars
  BY <1>1, <1>32 DEF vars
<1>. QED
  BY <1>2, <1>3, <1>4, <1>5, <1>6, <1>7, <1>8, <1>9, <1>10, <1>11, <1>12, <1>13, <1>14,
       <1>15, <1>16, <1>17, <1>18, <1>19, <1>20, <1>21, <1>22, <1>23, <1>24, <1>25, <1>26,
       <1>27, <1>28, <1>29, <1>30, <1>31, <1>32 DEF Next, ChatStep, WorkStep

(* Only the worker takes a row out of the queue, and nothing puts one back. *)
LEMMA WorkedStep == Typed /\ Worked /\ [Next]_vars => Worked'
<1>. SUFFICES ASSUME Typed, Worked, [Next]_vars PROVE Worked'
  OBVIOUS
<1>. USE PrototypeAssumption
<1>1. CASE UNCHANGED <<wpc, work, st, ran, up>>
  BY <1>1 DEF Worked, Typed
<1>2. CASE OpBegin
  BY <1>2 DEF OpBegin, CreateJob, Stale, Worked, Typed
<1>3. CASE OpCommit
  <2>1. work'.job = work.job
    <3>1. CASE work' = [work EXCEPT !.restart = TRUE, !.stop = (op = "cancel")]
      BY <3>1 DEF Typed, NoWork
    <3>2. CASE work' = work
      BY <3>2
    <3>. QED
      BY <1>3, <3>1, <3>2 DEF OpCommit
  <2>2. wpc' # "off" => wpc # "off"
    BY <1>3 DEF OpCommit
  <2>3. \A j \in Job : st'[j] = st[j] \/ st'[j] = "cancelled"
    BY <1>3 DEF OpCommit, Typed
  <2>4. wpc = "off" => wpc' = "off"
    BY <1>3 DEF OpCommit
  <2>. QED
    BY <1>3, <2>1, <2>2, <2>3, <2>4 DEF OpCommit, Worked
<1>4. CASE Pick
  BY <1>4 DEF Pick, NoWork, Worked, Typed
<1>5. CASE WorkLoop
  <2>1. work'.job = work.job
    <3>1. CASE work' = [work EXCEPT !.restart = FALSE, !.steps = @ + 1]
      BY <3>1 DEF Typed, NoWork
    <3>2. CASE work' = work
      BY <3>2
    <3>. QED
      BY <1>5, <3>1, <3>2 DEF WorkLoop
  <2>2. \A j \in Job : st'[j] = st[j] \/ st'[j] \in {"cancelled", "failed"}
    BY <1>5 DEF WorkLoop, Typed
  <2>3. wpc = "loop" /\ UNCHANGED <<ran, up>>
    BY <1>5 DEF WorkLoop
  <2>. QED
    BY <2>1, <2>2, <2>3 DEF Worked
<1>6. CASE WorkAnswer
  <2>1. work'.job = work.job
    <3>1. ASSUME NEW n, work' = [work EXCEPT !.calls = n]
          PROVE  work'.job = work.job
      BY <3>1 DEF Typed, NoWork
    <3>2. CASE work' = work
      BY <3>2
    <3>. QED
      BY <1>6, <3>1, <3>2 DEF WorkAnswer
  <2>2. \A j \in Job : st'[j] = st[j] \/ st'[j] = "failed"
    BY <1>6 DEF WorkAnswer, Typed
  <2>3. wpc = "ask" /\ UNCHANGED <<ran, up>>
    BY <1>6 DEF WorkAnswer
  <2>. QED
    BY <2>1, <2>2, <2>3 DEF Worked
<1>7. CASE ToolStart
  BY <1>7 DEF ToolStart, Worked, Typed
<1>8. CASE NextCall
  BY <1>8 DEF NextCall, CallOver, Worked, Typed
<1>9. CASE DoubtSaved
  BY <1>9 DEF DoubtSaved, CallOver, Worked, Typed
<1>10. CASE Report
  BY <1>10 DEF Report, Worked, Typed
<1>11. CASE Reported
  BY <1>11 DEF Reported, Worked, Typed
<1>12. CASE WorkDone
  BY <1>12 DEF WorkDone, NoWork, Worked, Typed
<1>13. ASSUME NEW known \in BOOLEAN, ToolEnds(known) PROVE Worked'
  <2>1. work'.job = work.job
    <3>1. CASE known
      BY <1>13, <3>1 DEF ToolEnds, CallOver, Typed, NoWork
    <3>2. CASE ~known
      BY <1>13, <3>2 DEF ToolEnds, Typed, NoWork
    <3>. QED
      BY <3>1, <3>2
  <2>2. wpc = "tool" /\ UNCHANGED <<ran, up, st>>
    BY <1>13 DEF ToolEnds
  <2>. QED
    BY <2>1, <2>2 DEF Worked
<1>14. CASE Close
  BY <1>14 DEF Close, ChatCancelled, Ended, NoTurn, NoWork, Worked, Typed
<1>15. CASE Exit
  BY <1>15 DEF Exit, Forget, NoTurn, NoWork, Worked, Typed
<1>16. CASE Crash
  BY <1>16 DEF Crash, Forget, NoTurn, NoWork, Worked, Typed
<1>17. CASE Start
  BY <1>17 DEF Start, RecoverJobs, Worked, Typed
<1>18. CASE TakeInputs \/ TakeResult \/ (\E kind \in {"start", "update", "cancel", "status"} :
     ModelCalls(kind)) \/ (\E n \in 0..MaxBatch : ModelReplies(n)) \/ ModelRambles \/ Fails \/
     OpSeen \/ Publish \/ SendError \/ Settle \/ Judge \/ EndTurn \/ (\E b \in BOOLEAN :
     SendEnds(b)) \/ (\E b \in BOOLEAN : SendReply(b)) \/ (\E i \in Input : WriteStatus(i)) \/
     (\E i \in Input : Submit(i)) \/ SendNotice
  BY <1>1, <1>18 DEF TakeInputs, TakeResult, ModelCalls, ModelReplies, ModelRambles,
       Fails, OpSeen, Publish, SendError, Settle, Judge, EndTurn, SendEnds, SendReply,
       WriteStatus, Submit, SendNotice
<1>19. CASE UNCHANGED vars
  BY <1>1, <1>19 DEF vars
<1>. QED
  BY <1>2, <1>3, <1>4, <1>5, <1>6, <1>7, <1>8, <1>9, <1>10, <1>11, <1>12, <1>13, <1>14,
       <1>15, <1>16, <1>17, <1>18, <1>19 DEF Next, ChatStep, WorkStep

(* An input is taken in once: by the turn that answers it, and by the job  *)
(* that turn makes.                                                        *)
LEMMA SingleStep == Typed /\ Single /\ [Next]_vars => Single'
<1>. SUFFICES ASSUME Typed, Single, [Next]_vars PROVE Single'
  OBVIOUS
<1>. USE PrototypeAssumption
<1>1. CASE UNCHANGED <<made, refs, status, pending, turn>>
  BY <1>1 DEF Single, OneJobPerInput, Typed
<1>2. CASE TakeInputs
  BY <1>2 DEF TakeInputs, Begin, NewTurn, NoTurn, Single, OneJobPerInput, Typed
<1>3. CASE TakeResult
  <2>1. turn'.inputs = {} \/ UNCHANGED turn
    BY <1>3 DEF TakeResult, Begin, NewTurn, NoTurn
  <2>. QED
    BY <1>3, <2>1 DEF TakeResult, Single, OneJobPerInput
<1>4. ASSUME NEW n \in 0..MaxBatch, ModelReplies(n) PROVE Single'
  BY <1>4 DEF ModelReplies, Single, OneJobPerInput, Typed
<1>5. CASE ModelRambles
  BY <1>5, RamblesKeeps DEF ModelRambles, Same, Single, OneJobPerInput
<1>6. CASE Fails
  BY <1>6, FailedKeeps DEF Fails, Single, OneJobPerInput, Typed
<1>7. CASE OpBegin
  BY <1>7 DEF OpBegin, CreateJob, Stale, Single, OneJobPerInput, Typed
<1>8. CASE OpCommit
  BY <1>8 DEF OpCommit, Single, OneJobPerInput, Typed
<1>9. CASE OpSeen
  BY <1>9, SeenKeeps DEF OpSeen, Same, Single, OneJobPerInput
<1>10. CASE Publish
  BY <1>10, PublishKeeps DEF Publish, Same, Single, OneJobPerInput
<1>11. CASE SendError
  BY <1>11 DEF SendError, Stale, Finish, Ended, NoTurn, Single, OneJobPerInput, Typed
<1>12. CASE Judge
  BY <1>12 DEF Judge, Stale, Finish, Ended, NoTurn, Single, OneJobPerInput, Typed
<1>13. CASE EndTurn
  BY <1>13 DEF EndTurn, NoTurn, Single, OneJobPerInput, Typed
<1>14. ASSUME NEW b \in BOOLEAN, SendEnds(b) PROVE Single'
  BY <1>14, SendKeeps DEF SendEnds, Same, Single, OneJobPerInput
<1>15. ASSUME NEW b \in BOOLEAN, SendReply(b) PROVE Single'
  BY <1>15, ReplyKeeps DEF SendReply, Same, Single, OneJobPerInput
<1>16. ASSUME NEW i \in Input, WriteStatus(i) PROVE Single'
  BY <1>16 DEF WriteStatus, Single, OneJobPerInput, Typed
<1>17. ASSUME NEW i \in Input, Submit(i) PROVE Single'
  <2>1. turn'.inputs = turn.inputs
    <3>1. CASE turn.superseded
      BY <1>17, <3>1 DEF Submit
    <3>2. CASE ~turn.superseded
      BY <1>17, <3>2, CancelledKeeps DEF Submit, Same
    <3>. QED
      BY <3>1, <3>2
  <2>2. status[i] = "none" /\ status' = [status EXCEPT ![i] = "received"] /\ pending' =
       pending \cup {i}
    BY <1>17 DEF Submit
  <2>3. made' = made /\ refs' = refs
    BY <1>17 DEF Submit
  <2>4. \A k \in Input : status[k] # "none" => status'[k] # "none"
    BY <2>2 DEF Typed
  <2>5. \A j \in Job : i \notin made[j]
    BY <2>2 DEF Single
  <2>6. status'[i] # "none"
    BY <2>2 DEF Typed
  <2>. QED
    BY <2>1, <2>2, <2>3, <2>4, <2>5, <2>6 DEF Single, OneJobPerInput, Typed
<1>18. CASE SendNotice
  BY <1>18 DEF SendNotice, Stale, NoSend, Single, OneJobPerInput, Typed
<1>19. CASE Close
  BY <1>19 DEF Close, ChatCancelled, Ended, NoTurn, NoWork, Single, OneJobPerInput, Typed
<1>20. CASE Exit
  BY <1>20 DEF Exit, Forget, NoTurn, NoWork, Single, OneJobPerInput, Typed
<1>21. CASE Crash
  BY <1>21 DEF Crash, Forget, NoTurn, NoWork, Single, OneJobPerInput, Typed
<1>22. CASE Start
  BY <1>22 DEF Start, RecoverJobs, Single, OneJobPerInput, Typed
<1>23. CASE (\E kind \in {"start", "update", "cancel", "status"} : ModelCalls(kind)) \/ Settle
     \/ Pick \/ WorkLoop \/ WorkAnswer \/ ToolStart \/ NextCall \/ DoubtSaved \/ Report \/
     Reported \/ WorkDone \/ (\E known \in BOOLEAN : ToolEnds(known))
  BY <1>1, <1>23 DEF ModelCalls, Settle, Pick, WorkLoop, WorkAnswer, ToolStart, NextCall,
       DoubtSaved, Report, Reported, WorkDone, ToolEnds
<1>24. CASE UNCHANGED vars
  BY <1>1, <1>24 DEF vars
<1>. QED
  BY <1>2, <1>3, <1>4, <1>5, <1>6, <1>7, <1>8, <1>9, <1>10, <1>11, <1>12, <1>13, <1>14,
       <1>15, <1>16, <1>17, <1>18, <1>19, <1>20, <1>21, <1>22, <1>23, <1>24 DEF Next, ChatStep,
       WorkStep

(* Only the acknowledgement of the last message leads to the hand-over.    *)
LEMMA ToldStep == Typed /\ Told /\ [Next]_vars => Told'
<1>. SUFFICES ASSUME Typed, Told, [Next]_vars PROVE Told'
  OBVIOUS
<1>. USE PrototypeAssumption
<1>1. CASE UNCHANGED <<delivered, told, cpc, turn>>
  BY <1>1 DEF Told, ToldWhole, Typed
<1>2. CASE TakeInputs
  BY <1>2 DEF TakeInputs, Begin, NewTurn, NoTurn, Told, ToldWhole, Typed
<1>3. CASE TakeResult
  BY <1>3 DEF TakeResult, Begin, NewTurn, NoTurn, Told, ToldWhole, Typed
<1>4. ASSUME NEW kind \in {"start", "update", "cancel", "status"}, ModelCalls(kind) PROVE Told'
  BY <1>4 DEF ModelCalls, Told, ToldWhole, Typed
<1>5. ASSUME NEW n \in 0..MaxBatch, ModelReplies(n) PROVE Told'
  BY <1>5 DEF ModelReplies, Told, ToldWhole, Typed
<1>6. CASE ModelRambles
  BY <1>6 DEF ModelRambles, Told, ToldWhole, Typed
<1>7. CASE Fails
  BY <1>7 DEF Fails, Told, ToldWhole, Typed
<1>8. CASE OpSeen
  BY <1>8 DEF OpSeen, Ask, Told, ToldWhole, Typed
<1>9. CASE Publish
  BY <1>9 DEF Publish, Stale, Ask, Past, Told, ToldWhole, Typed
<1>10. CASE SendError
  BY <1>10 DEF SendError, Stale, Finish, Ended, NoTurn, Told, ToldWhole, Typed
<1>11. CASE Settle
  BY <1>11 DEF Settle, Told, ToldWhole, Typed
<1>12. CASE Judge
  BY <1>12 DEF Judge, Stale, Finish, Ended, NoTurn, Told, ToldWhole, Typed
<1>13. CASE EndTurn
  BY <1>13 DEF EndTurn, NoTurn, Told, ToldWhole, Typed
<1>14. ASSUME NEW b \in BOOLEAN, SendEnds(b) PROVE Told'
  BY <1>14 DEF SendEnds, Finish, Ended, NoTurn, NoSend, Told, ToldWhole, Typed
<1>15. ASSUME NEW b \in BOOLEAN, SendReply(b) PROVE Told'
  BY <1>15 DEF SendReply, NoSend, Stale, Told, ToldWhole, Typed
<1>16. ASSUME NEW i \in Input, Submit(i) PROVE Told'
  BY <1>16 DEF Submit, ChatCancelled, Ended, NoTurn, Told, ToldWhole, Typed
<1>17. CASE SendNotice
  BY <1>17 DEF SendNotice, Stale, NoSend, Told, ToldWhole, Typed
<1>18. CASE Close
  BY <1>18 DEF Close, ChatCancelled, Ended, NoTurn, NoWork, Told, ToldWhole, Typed
<1>19. CASE Exit
  BY <1>19 DEF Exit, Forget, NoTurn, NoWork, Told, ToldWhole, Typed
<1>20. CASE Crash
  BY <1>20 DEF Crash, Forget, NoTurn, NoWork, Told, ToldWhole, Typed
<1>21. CASE OpBegin \/ OpCommit \/ (\E i \in Input : WriteStatus(i)) \/ Pick \/ WorkLoop \/
     WorkAnswer \/ ToolStart \/ NextCall \/ DoubtSaved \/ Report \/ Reported \/ WorkDone \/ (\E
     known \in BOOLEAN : ToolEnds(known)) \/ Start
  BY <1>1, <1>21 DEF OpBegin, OpCommit, WriteStatus, Pick, WorkLoop, WorkAnswer,
       ToolStart, NextCall, DoubtSaved, Report, Reported, WorkDone, ToolEnds, Start
<1>22. CASE UNCHANGED vars
  BY <1>1, <1>22 DEF vars
<1>. QED
  BY <1>2, <1>3, <1>4, <1>5, <1>6, <1>7, <1>8, <1>9, <1>10, <1>11, <1>12, <1>13, <1>14,
       <1>15, <1>16, <1>17, <1>18, <1>19, <1>20, <1>21, <1>22 DEF Next, ChatStep, WorkStep

(* What lets the tools go on has nobody waiting.                           *)
LEMMA HeardStep == Worked /\ Heard /\ [Next]_vars => Heard'
<1>. SUFFICES ASSUME Worked, Heard, [Next]_vars PROVE Heard'
  OBVIOUS
<1>. USE PrototypeAssumption
<1>1. CASE UNCHANGED <<up, allow, unheard, pending>>
  BY <1>1 DEF Heard
<1>2. CASE TakeInputs
  BY <1>2 DEF TakeInputs, Begin, NewTurn, NoTurn, Heard
<1>3. CASE Judge
  BY <1>3 DEF Judge, Stale, Finish, Ended, NoTurn, Heard
<1>4. ASSUME NEW i \in Input, Submit(i) PROVE Heard'
  BY <1>4 DEF Submit, ChatCancelled, Ended, NoTurn, Heard
<1>5. CASE Close
  BY <1>5 DEF Close, ChatCancelled, Ended, NoTurn, NoWork, Heard
<1>6. CASE Exit
  BY <1>6 DEF Exit, Forget, NoTurn, NoWork, Heard
<1>7. CASE Crash
  BY <1>7 DEF Crash, Forget, NoTurn, NoWork, Heard
<1>8. CASE Start
  BY <1>8 DEF Start, RecoverJobs, Heard
<1>9. CASE TakeResult \/ (\E kind \in {"start", "update", "cancel", "status"} :
     ModelCalls(kind)) \/ (\E n \in 0..MaxBatch : ModelReplies(n)) \/ ModelRambles \/ Fails \/
     OpBegin \/ OpCommit \/ OpSeen \/ Publish \/ SendError \/ Settle \/ EndTurn \/ (\E b \in
     BOOLEAN : SendEnds(b)) \/ (\E b \in BOOLEAN : SendReply(b)) \/ (\E i \in Input :
     WriteStatus(i)) \/ Pick \/ WorkLoop \/ WorkAnswer \/ ToolStart \/ NextCall \/ DoubtSaved \/
     Report \/ Reported \/ WorkDone \/ (\E known \in BOOLEAN : ToolEnds(known)) \/ SendNotice
  BY <1>1, <1>9 DEF TakeResult, ModelCalls, ModelReplies, ModelRambles, Fails, OpBegin,
       OpCommit, OpSeen, Publish, SendError, Settle, EndTurn, SendEnds, SendReply, WriteStatus,
       Pick, WorkLoop, WorkAnswer, ToolStart, NextCall, DoubtSaved, Report, Reported, WorkDone,
       ToolEnds, SendNotice
<1>10. CASE UNCHANGED vars
  BY <1>1, <1>10 DEF vars
<1>. QED
  BY <1>2, <1>3, <1>4, <1>5, <1>6, <1>7, <1>8, <1>9, <1>10 DEF Next, ChatStep, WorkStep

-----------------------------------------------------------------------------
(* The queue of results. *)

(* Jobs can be listed in order: each stands at the number of those up to   *)
(* it.                                                                     *)
LEMMA InOrderLists ==
  ASSUME NEW S \in SUBSET Job
  PROVE  /\ InOrder(S) \in [1..Cardinality(S) -> S]
         /\ \A m, n \in DOMAIN InOrder(S) : m < n => InOrder(S)[m] < InOrder(S)[n]
<1> DEFINE UpTo(x) == {y \in S : y <= x}
           place == [x \in S |-> Cardinality(UpTo(x))]
           c == Cardinality(S)
<1>1. IsFiniteSet(S) /\ c \in Nat /\ S \subseteq Nat
  <2>1. 1 \in Int /\ MaxJob \in Int
    BY PrototypeAssumption
  <2>2. IsFiniteSet(1..MaxJob)
    BY <2>1, FS_Interval
  <2>3. IsFiniteSet(S)
    BY <2>2, FS_Subset DEF Job
  <2>4. Cardinality(S) \in Nat
    BY <2>3, FS_CardinalityType
  <2>5. S \subseteq Nat
    BY DEF Job
  <2> QED
    BY <2>3, <2>4, <2>5
<1>2. \A x \in S : /\ UpTo(x) \subseteq S /\ IsFiniteSet(UpTo(x)) /\ x \in UpTo(x)
                   /\ Cardinality(UpTo(x)) \in Nat
  <2> SUFFICES ASSUME NEW x \in S
               PROVE  UpTo(x) \subseteq S /\ IsFiniteSet(UpTo(x)) /\ x \in UpTo(x)
    BY FS_CardinalityType
  <2>1. UpTo(x) \subseteq S /\ x \in UpTo(x)
    BY <1>1
  <2> QED
    BY <1>1, <2>1, FS_Subset
<1>3. ASSUME NEW x \in S
      PROVE  place[x] \in 1..c
  <2>1. Cardinality(UpTo(x)) <= c
    BY <1>1, <1>2, FS_Subset
  <2>2. Cardinality(UpTo(x)) # 0
    BY <1>2, FS_EmptySet
  <2> QED
    BY <1>1, <1>2, <2>1, <2>2
<1>4. ASSUME NEW x \in S, NEW y \in S, x < y
      PROVE  place[x] < place[y]
  <2>0. x \in Int /\ y \in Int /\ \A z \in S : z \in Int
    BY <1>1
  <2>1. UpTo(x) \subseteq UpTo(y) /\ y \notin UpTo(x)
    <3>1. (\A z \in S : z <= x => z <= y) /\ ~ (y <= x)
      BY <1>4, <2>0
    <3> QED
      BY <3>1
  <2>2. UpTo(x) # UpTo(y)
    BY <1>2, <2>1
  <2>3. /\ Cardinality(UpTo(x)) <= Cardinality(UpTo(y))
        /\ Cardinality(UpTo(x)) # Cardinality(UpTo(y))
    BY <1>2, <2>1, <2>2, FS_Subset
  <2> QED
    BY <1>2, <2>3
<1>5. place \in Surjection(S, 1..c)
  <2>1. place \in [S -> 1..c]
    BY <1>3
  <2>2. \A x, y \in S : place[x] = place[y] => x = y
    <3> SUFFICES ASSUME NEW x \in S, NEW y \in S, place[x] = place[y]
                 PROVE  x = y
      OBVIOUS
    <3>1. ~ (x < y) /\ ~ (y < x)
      <4>1. place[x] \in Int /\ place[y] \in Int
        BY <1>3
      <4> HIDE DEF place
      <4> QED
        BY <1>4, <4>1
    <3> QED
      BY <1>1, <3>1
  <2>3. place \in Injection(S, 1..c)
    BY <2>1, <2>2 DEF Injection, IsInjective
  <2>4. IsFiniteSet(1..c) /\ Cardinality(1..c) = c
    <3>1. 1 \in Int /\ c \in Int
      BY <1>1
    <3> HIDE DEF c
    <3>2. IsFiniteSet(1..c) /\ Cardinality(1..c) = IF 1 > c THEN 0 ELSE c - 1 + 1
      BY <3>1, FS_Interval
    <3> QED
      BY <1>1, <3>2
  <2> HIDE DEF place
  <2> QED
    BY <2>3, <2>4, FS_Injection
<1>6. \A n \in 1..c : \E x \in S : place[x] = n
  <2> HIDE DEF place, c
  <2> QED
    BY <1>5 DEF Surjection
<1> DEFINE list == [n \in 1..c |-> CHOOSE x \in S : place[x] = n]
<1>7. \A n \in 1..c : list[n] \in S /\ place[list[n]] = n
  <2> HIDE DEF place, c
  <2> QED
    BY <1>6
<1>8. list \in [1..c -> S]
  <2> SUFFICES \A n \in 1..c : list[n] \in S
    OBVIOUS
  <2> QED
    BY <1>7
<1>9. ASSUME NEW m \in 1..c, NEW n \in 1..c, m < n
      PROVE  list[m] < list[n]
  <2>1. PICK x, y : x = list[m] /\ y = list[n]
    OBVIOUS
  <2>2. x \in S /\ y \in S /\ place[x] = m /\ place[y] = n
    BY <1>7, <2>1
  <2>3. ~ (y < x) /\ x # y
    <3>1. m \in Int /\ n \in Int
      OBVIOUS
    <3> HIDE DEF place, list, c
    <3> QED
      BY <1>4, <1>9, <2>2, <3>1
  <2>4. x \in Int /\ y \in Int
    BY <1>1, <2>2
  <2> HIDE DEF list
  <2> QED
    BY <2>1, <2>3, <2>4
<1>10. \E s \in [1..c -> S] : \A m, n \in DOMAIN s : m < n => s[m] < s[n]
  <2> HIDE DEF place, c
  <2>1. DOMAIN list = 1..c
    OBVIOUS
  <2> HIDE DEF list
  <2> QED
    BY <1>8, <1>9, <2>1
<1> QED
  BY <1>10 DEF InOrder

LEMMA InOrderSeq ==
  ASSUME NEW S \in SUBSET Job
  PROVE  InOrder(S) \in Seq(Job)
<1>1. IsFiniteSet(S)
  <2>1. 1 \in Int /\ MaxJob \in Int
    BY PrototypeAssumption
  <2> QED
    BY <2>1, FS_Interval, FS_Subset DEF Job
<1>2. Cardinality(S) \in Nat
  BY <1>1, FS_CardinalityType
<1>3. InOrder(S) \in [1..Cardinality(S) -> Job]
  BY InOrderLists
<1> QED
  BY <1>2, <1>3, SeqDef
-----------------------------------------------------------------------------
(* The types. *)

Turns == [on: BOOLEAN, inputs: SUBSET Input, about: SUBSET Job, notify: BOOLEAN,
          superseded: BOOLEAN, late: BOOLEAN, out: BOOLEAN, silent: BOOLEAN, valid: BOOLEAN,
          claimed: BOOLEAN, waited: BOOLEAN, waiting: BOOLEAN, saw: BOOLEAN, rewrites: Nat,
          batch: 0..MaxBatch, sent: 0..MaxBatch, failed: BOOLEAN]
Works == [job: 0..MaxJob, restart: BOOLEAN, stop: BOOLEAN, steps: 0..MaxStep, calls: 0..MaxCall]
Sends == [kind: {"none", "reply", "waiting", "error"}, current: BOOLEAN]

(* Only a process that has one end left is closed.                         *)
Ends ==
  /\ up \in {"up", "closing", "down"} /\ crashes \in 0..MaxCrash
  /\ up = "closing" => crashes < MaxCrash

(* A worker among the calls of a round has one left.                       *)
Rounds ==
  /\ work \in Works
  /\ wpc \in {"off", "loop", "ask", "act", "tool", "doubt", "report", "reported", "done"}
  /\ wpc \in {"act", "tool", "doubt"} => work.calls # 0

(* No message is sent before there is a reply, nor more than it has.       *)
Batches ==
  /\ turn \in Turns /\ results \in Seq(Job)
  /\ cpc \in {"off", "ask", "op", "publish", "send", "settle", "judge", "error", "finish", "over"}
  /\ op \in {"none", "start", "update", "cancel", "status", "done"}
  /\ flight \in Sends
  /\ cpc \in {"ask", "op", "publish"} => turn.sent = 0
  /\ cpc = "send" => turn.sent < turn.batch

Marks ==
  /\ delivered \subseteq Job /\ ran \subseteq Job /\ told \subseteq Job
  /\ open \in BOOLEAN /\ allow \in BOOLEAN /\ unheard \subseteq Input

LEMMA EndsStep == Ends /\ [Next]_vars => Ends'
<1>. SUFFICES ASSUME Ends, [Next]_vars PROVE Ends'
  OBVIOUS
<1>. USE PrototypeAssumption
<1>1. CASE UNCHANGED <<up, crashes>>
  BY <1>1 DEF Ends
<1>2. CASE Close \/ Exit \/ Crash \/ Start
  BY <1>2 DEF Close, Exit, Crash, Start, Ends
<1>3. ~ (Close \/ Exit \/ Crash \/ Start) => UNCHANGED <<up, crashes>>
  BY DEF Next, ChatStep, WorkStep, vars, TakeInputs, TakeResult, ModelCalls, ModelReplies,
         ModelRambles, Fails, OpBegin, OpCommit, OpSeen, Publish, SendError, Settle, Judge,
         EndTurn, SendEnds, SendReply, WriteStatus, Pick, WorkLoop, WorkAnswer, ToolStart,
         NextCall, DoubtSaved, Report, Reported, WorkDone, ToolEnds, Submit, SendNotice
<1>. QED
  BY <1>1, <1>2, <1>3

LEMMA RoundsStep == Typed /\ Rounds /\ [Next]_vars => Rounds'
<1>. SUFFICES ASSUME Typed, Rounds, [Next]_vars PROVE Rounds'
  OBVIOUS
<1>. USE PrototypeAssumption
<1>1. CASE UNCHANGED worker
  BY <1>1 DEF Rounds
<1>2. ASSUME work' = NoWork, wpc' = "off" PROVE Rounds'
  BY <1>2 DEF Rounds, NoWork, Works
<1>3. CASE OpCommit
  <2>1. CASE UNCHANGED worker
    BY <1>1, <2>1
  <2>2. CASE /\ work' = [work EXCEPT !.restart = TRUE, !.stop = (op = "cancel")]
             /\ wpc' = IF wpc = "ask" THEN "loop" ELSE wpc
    <3>1. work' \in Works /\ work'.calls = work.calls
      BY <2>2 DEF Rounds, Works
    <3>. QED
      BY <2>2, <3>1 DEF Rounds
  <2>. QED
    BY <1>3, <2>1, <2>2 DEF OpCommit
<1>4. CASE Pick
  <2>1. PICK j \in Job : work' = [NoWork EXCEPT !.job = j]
    BY <1>4 DEF Pick
  <2>2. work' \in Works
    <3>1. j \in 0..MaxJob /\ 0 \in 0..MaxStep /\ 0 \in 0..MaxCall
      BY DEF Job
    <3>2. work' = [job |-> j, restart |-> FALSE, stop |-> FALSE, steps |-> 0, calls |-> 0]
      BY <2>1 DEF NoWork
    <3>. QED
      BY <3>1, <3>2 DEF Works
  <2>. QED
    BY <1>4, <2>2 DEF Pick, Rounds
<1>5. CASE WorkLoop
  <2>1. CASE UNCHANGED work
    BY <1>5, <2>1 DEF WorkLoop, Rounds
  <2>2. CASE work.steps # MaxStep /\ work' = [work EXCEPT !.restart = FALSE, !.steps = @ + 1]
    <3>1. work.steps \in 0..MaxStep
      BY DEF Rounds, Works
    <3>2. work.steps + 1 \in 0..MaxStep
      BY <2>2, <3>1
    <3>3. work' \in Works
      BY <2>2, <3>2 DEF Rounds, Works
    <3>. QED
      BY <1>5, <3>3 DEF WorkLoop, Rounds
  <2>. QED
    BY <1>5, <2>1, <2>2 DEF WorkLoop
<1>6. CASE WorkAnswer
  <2>1. CASE wpc' \in {"report", "done"} /\ UNCHANGED work
    BY <1>6, <2>1 DEF Rounds
  <2>2. ASSUME NEW n \in 1..MaxCall, work' = [work EXCEPT !.calls = n], wpc' = "act"
        PROVE  Rounds'
    <3>1. n \in 0..MaxCall /\ n # 0
      OBVIOUS
    <3>. QED
      BY <2>2, <3>1 DEF Rounds, Works
  <2>. QED
    BY <1>6, <2>1, <2>2 DEF WorkAnswer
<1>7. ASSUME wpc \in {"act", "tool", "doubt"}, CallOver
      PROVE  Rounds'
  <2>1. work.calls \in 0..MaxCall /\ work.calls # 0
    BY <1>7 DEF Rounds, Works
  <2>2. /\ work.calls - 1 \in 0..MaxCall
        /\ work.calls # 1 => work.calls - 1 # 0
    BY <2>1
  <2>3. work' \in Works /\ work'.calls = work.calls - 1
    BY <1>7, <2>2 DEF CallOver, Rounds, Works
  <2>. QED
    BY <1>7, <2>2, <2>3 DEF CallOver, Rounds
<1>8. CASE NextCall \/ DoubtSaved
  BY <1>7, <1>8 DEF NextCall, DoubtSaved
<1>9. ASSUME NEW known \in BOOLEAN, ToolEnds(known) PROVE Rounds'
  <2>1. CASE known
    BY <1>7, <1>9, <2>1 DEF ToolEnds
  <2>2. CASE ~ known
    <3>1. work' = [work EXCEPT !.stop = TRUE] /\ wpc = "tool" /\ wpc' = "doubt"
      BY <1>9, <2>2 DEF ToolEnds
    <3>. QED
      BY <3>1 DEF Rounds, Works
  <2>. QED
    BY <2>1, <2>2
<1>10. CASE ToolStart \/ Report \/ Reported
  BY <1>10 DEF ToolStart, Report, Reported, Rounds
<1>11. CASE WorkDone \/ Close \/ Exit \/ Crash
  BY <1>2, <1>11 DEF WorkDone, Close, Exit, Crash, Forget
<1>12. CASE ChatStep /\ ~ OpCommit
  BY <1>1, <1>12 DEF ChatStep, TakeInputs, TakeResult, ModelCalls, ModelReplies, ModelRambles,
         Fails, OpBegin, OpSeen, Publish, SendError, Settle, Judge, EndTurn, SendEnds, SendReply,
         WriteStatus
<1>13. CASE (\E i \in Input : Submit(i)) \/ SendNotice \/ Start \/ UNCHANGED vars
  BY <1>1, <1>13 DEF Submit, SendNotice, Start, vars
<1>. QED
  BY <1>3, <1>4, <1>5, <1>6, <1>8, <1>9, <1>10, <1>11, <1>12, <1>13 DEF Next, WorkStep

(* What the steps of a turn make of it.                                    *)
LEMMA TurnsKept ==
  ASSUME NEW t \in Turns
  PROVE  /\ Past(t) \in Turns /\ Past(t).sent = t.sent /\ Past(t).batch = t.batch
         /\ Ended(t) \in Turns /\ Failed(t) \in Turns
         /\ \A b, c, d \in BOOLEAN :
              LET u == [Past(t) EXCEPT !.out = b, !.silent = c, !.valid = d]
              IN u \in Turns /\ u.sent = t.sent /\ u.batch = t.batch
<1>1. Past(t) \in Turns /\ Past(t).sent = t.sent /\ Past(t).batch = t.batch
  BY DEF Past, Turns
<1>2. ASSUME Ended(t) \in Turns PROVE Failed(t) \in Turns
  <2>1. t.notify \in BOOLEAN
    BY DEF Turns
  <2>2. PICK e : e = Ended(t)
    OBVIOUS
  <2>3. [e EXCEPT !.notify = t.notify] \in Turns
    BY <1>2, <2>1, <2>2 DEF Turns
  <2>. QED
    BY <2>2, <2>3 DEF Failed
<1>3. Ended(t) \in Turns
  <2>1. t.on \in BOOLEAN /\ t.inputs \in SUBSET Input /\ t.superseded \in BOOLEAN
    BY DEF Turns
  <2>2. 0 \in 0..MaxBatch /\ {} \in SUBSET Job
    BY PrototypeAssumption
  <2>3. NoTurn \in Turns
    BY <2>2 DEF NoTurn, Turns
  <2>4. PICK n : n = NoTurn
    OBVIOUS
  <2>5. [n EXCEPT !.on = t.on, !.inputs = t.inputs, !.superseded = t.superseded, !.late = TRUE]
          \in Turns
    BY <2>1, <2>3, <2>4 DEF Turns
  <2>. QED
    BY <2>4, <2>5 DEF Ended
<1>4. ASSUME NEW b \in BOOLEAN, NEW c \in BOOLEAN, NEW d \in BOOLEAN
      PROVE  LET u == [Past(t) EXCEPT !.out = b, !.silent = c, !.valid = d]
             IN u \in Turns /\ u.sent = t.sent /\ u.batch = t.batch
  <2>1. PICK p : p = Past(t)
    OBVIOUS
  <2>2. PICK q : q = [p EXCEPT !.out = b]
    OBVIOUS
  <2>3. q \in Turns /\ q.sent = p.sent /\ q.batch = p.batch
    BY <1>1, <2>1, <2>2 DEF Turns
  <2>4. PICK r : r = [q EXCEPT !.silent = c]
    OBVIOUS
  <2>5. r \in Turns /\ r.sent = p.sent /\ r.batch = p.batch
    BY <2>3, <2>4 DEF Turns
  <2>6. PICK u : u = [r EXCEPT !.valid = d]
    OBVIOUS
  <2>7. u \in Turns /\ u.sent = p.sent /\ u.batch = p.batch
    BY <2>5, <2>6 DEF Turns
  <2>8. u = [Past(t) EXCEPT !.out = b, !.silent = c, !.valid = d]
    BY <2>1, <2>2, <2>4, <2>6
  <2>. QED
    BY <1>1, <2>1, <2>7, <2>8
<1>. QED
  BY <1>1, <1>2, <1>3, <1>4
(* Away from the sends a turn is only what it was. *)
LEMMA BatchesOf ==
  ASSUME Batches, turn' \in Turns, results' \in Seq(Job), flight' \in Sends,
         op' \in {"none", "start", "update", "cancel", "status", "done"},
         \/ cpc' \in {"off", "settle", "judge", "error", "finish", "over"}
         \/ cpc' \in {"ask", "op", "publish"} /\ turn'.sent = 0
         \/ cpc' = "send" /\ turn'.sent < turn'.batch
  PROVE  Batches'
BY DEF Batches

LEMMA FinishedTurn ==
  ASSUME Batches, NEW as, Finish(as), results' = results, op' = op,
         flight' \in Sends
  PROVE  Batches'
<1>1. turn' \in Turns /\ cpc' = "finish"
  BY TurnsKept DEF Finish, Batches
<1>. QED
  BY <1>1, BatchesOf DEF Batches

LEMMA CancelledTurn ==
  ASSUME Batches, NEW as, ChatCancelled(as), results' \in Seq(Job),
         op' = op, flight' = flight
  PROVE  Batches'
<1>1. cpc' \in {"off", "finish", "over"}
  BY DEF ChatCancelled, Batches
<1>2. PICK t : t = [turn EXCEPT !.superseded = TRUE]
  OBVIOUS
<1>3. t \in Turns
  BY <1>2 DEF Batches, Turns
<1>4. turn' \in Turns
  BY <1>2, <1>3, TurnsKept DEF ChatCancelled, Batches
<1>. QED
  BY <1>1, <1>4, BatchesOf DEF Batches

LEMMA AskAgain ==
  ASSUME Batches, cpc \in {"ask", "op", "publish"}, Ask, results' = results, op' = op,
         flight' = flight
  PROVE  Batches'
<1>1. 0 \in 0..MaxBatch /\ turn.waited \in BOOLEAN
  BY PrototypeAssumption DEF Batches, Turns
<1>2. turn' \in Turns /\ turn'.sent = 0
  BY <1>1 DEF Ask, Batches, Turns
<1>. QED
  BY <1>2, BatchesOf DEF Ask, Batches

LEMMA NewTurns ==
  ASSUME NEW inputs \in SUBSET Input, NEW about \in SUBSET Job
  PROVE  NewTurn(inputs, about) \in Turns /\ NewTurn(inputs, about).sent = 0 /\ NoTurn \in Turns
<1>1. 0 \in 0..MaxBatch /\ {} \in SUBSET Job
  BY PrototypeAssumption
<1>2. NoTurn \in Turns /\ NoTurn.sent = 0
  BY <1>1 DEF NoTurn, Turns
<1>3. PICK t : t = NoTurn
  OBVIOUS
<1>4. PICK u : u = [t EXCEPT !.on = TRUE, !.inputs = inputs, !.about = about]
  OBVIOUS
<1>5. u \in Turns /\ u.sent = 0
  BY <1>2, <1>3, <1>4 DEF Turns
<1>6. PICK b \in BOOLEAN : b = ((inputs \cap Addressed) \ quiet # {})
  OBVIOUS
<1>7. PICK v : v = [u EXCEPT !.notify = b]
  OBVIOUS
<1>8. v \in Turns /\ v.sent = 0
  BY <1>5, <1>6, <1>7 DEF Turns
<1>9. v = NewTurn(inputs, about)
  BY <1>3, <1>4, <1>6, <1>7 DEF NewTurn
<1>. QED
  BY <1>2, <1>8, <1>9

LEMMA BatchesStep == Typed /\ Worked /\ Batches /\ [Next]_vars => Batches'
<1>. SUFFICES ASSUME Typed, Worked, Batches, [Next]_vars PROVE Batches'
  OBVIOUS
<1>. USE PrototypeAssumption
<1>0. /\ turn \in Turns /\ results \in Seq(Job) /\ flight \in Sends
      /\ op \in {"none", "start", "update", "cancel", "status", "done"}
  BY DEF Batches
<1>1. CASE UNCHANGED <<turn, results, cpc, op, flight>>
  BY <1>1 DEF Batches
<1>2. CASE TakeInputs
  <2>1. pending \in SUBSET Input /\ {} \in SUBSET Job
    BY DEF Typed
  <2>2. turn' = NewTurn(pending, {}) /\ cpc' = "ask" /\ op' = "none" /\ UNCHANGED <<results, flight>>
    BY <1>2 DEF TakeInputs, Begin
  <2>. QED
    BY <1>0, <2>1, <2>2, NewTurns, BatchesOf
<1>3. CASE TakeResult
  <2>1. results # <<>> /\ results' = Tail(results) /\ UNCHANGED flight
    BY <1>3 DEF TakeResult
  <2>2. Head(results) \in Job /\ results' \in Seq(Job)
    BY <1>0, <2>1, HeadTailProperties
  <2>3. CASE UNCHANGED <<turn, cpc, op>>
    BY <2>1, <2>2, <2>3 DEF Batches
  <2>4. CASE Begin({}, {Head(results)})
    <3>1. {} \in SUBSET Input /\ {Head(results)} \in SUBSET Job
      BY <2>2
    <3>2. turn' = NewTurn({}, {Head(results)}) /\ cpc' = "ask" /\ op' = "none"
      BY <2>4 DEF Begin
    <3>. QED
      BY <1>0, <2>1, <2>2, <3>1, <3>2, NewTurns, BatchesOf
  <2>. QED
    BY <1>3, <2>3, <2>4 DEF TakeResult
<1>4. ASSUME NEW kind \in {"start", "update", "cancel", "status"}, ModelCalls(kind) PROVE Batches'
  BY <1>4 DEF ModelCalls, Batches
<1>5. ASSUME NEW n \in 0..MaxBatch, ModelReplies(n) PROVE Batches'
  <2>1. turn' \in Turns /\ turn'.sent = turn.sent
    BY <1>0, <1>5 DEF ModelReplies, Turns
  <2>. QED
    BY <1>0, <1>5, <2>1, BatchesOf DEF ModelReplies, Batches
<1>6. CASE ModelRambles
  <2>1. CASE turn.rewrites = 0
    <3>0. turn.waited \in BOOLEAN /\ turn' = [turn EXCEPT !.rewrites = 1, !.saw = turn.waited]
      BY <1>0, <1>6, <2>1 DEF ModelRambles, Turns
    <3>1. turn' \in Turns /\ turn'.sent = turn.sent
      BY <1>0, <3>0 DEF Turns
    <3>. QED
      BY <1>0, <1>6, <2>1, <3>1, BatchesOf DEF ModelRambles, Batches
  <2>2. CASE turn.rewrites # 0
    <3>1. turn' = Failed(turn) /\ cpc' = "error"
          /\ UNCHANGED <<results, op, flight>>
      BY <1>6, <2>2 DEF ModelRambles
    <3>. QED
      BY <1>0, <3>1, TurnsKept, BatchesOf
  <2>. QED
    BY <2>1, <2>2
<1>7. CASE Fails
  <2>1. turn' = Failed(turn) /\ cpc' = "error"
        /\ UNCHANGED <<results, op, flight>>
    BY <1>7 DEF Fails
  <2>. QED
    BY <1>0, <2>1, TurnsKept, BatchesOf
<1>8. CASE OpBegin \/ OpCommit
  BY <1>8 DEF OpBegin, OpCommit, Batches
<1>9. CASE OpSeen
  <2>1. CASE Ask
    BY <1>9, <2>1, AskAgain DEF OpSeen
  <2>2. CASE cpc' = "judge" /\ turn' = Ended(turn)
    BY <1>0, <1>9, <2>2, TurnsKept, BatchesOf DEF OpSeen
  <2>. QED
    BY <1>9, <2>1, <2>2 DEF OpSeen
<1>10. CASE Publish
  <2>0. cpc = "publish" /\ UNCHANGED <<results, op, flight>>
    BY <1>10 DEF Publish
  <2>1. CASE Ask
    BY <2>0, <2>1, AskAgain
  <2>2. CASE cpc' = "judge" /\ turn' = Ended(turn)
    BY <1>0, <2>0, <2>2, TurnsKept, BatchesOf
  <2>3. CASE /\ turn' = [Past(turn) EXCEPT !.out = (turn.batch > 0), !.silent = (turn.batch = 0),
                                           !.valid = TRUE]
             /\ cpc' = IF turn.batch > 0 THEN "send" ELSE "judge"
    <3>1. turn' \in Turns /\ turn'.sent = turn.sent /\ turn'.batch = turn.batch
      <4>1. PICK b, c : b = (turn.batch > 0) /\ c = (turn.batch = 0)
        OBVIOUS
      <4>2. b \in BOOLEAN /\ c \in BOOLEAN
        BY <4>1
      <4>. QED
        BY <1>0, <2>3, <4>1, <4>2, TurnsKept
    <3>2. turn.sent = 0
      BY <2>0 DEF Batches
    <3>. QED
      BY <1>0, <2>0, <2>3, <3>1, <3>2, BatchesOf
  <2>. QED
    BY <1>10, <2>1, <2>2, <2>3 DEF Publish
<1>11. CASE SendError
  <2>1. CASE UNCHANGED <<turn, cpc>> /\ flight' = [kind |-> "error", current |-> TRUE]
    BY <1>11, <2>1 DEF SendError, Batches, Sends
  <2>2. CASE Finish("error") /\ UNCHANGED flight
    BY <1>0, <1>11, <2>2, FinishedTurn DEF SendError
  <2>. QED
    BY <1>11, <2>1, <2>2 DEF SendError
<1>12. CASE Settle
  BY <1>0, <1>12, BatchesOf DEF Settle
<1>13. CASE Judge
  <2>1. \E as : Finish(as)
    BY <1>13 DEF Judge
  <2>. QED
    BY <1>0, <1>13, <2>1, FinishedTurn DEF Judge
<1>14. CASE EndTurn
  <2>1. flight' \in Sends
    BY <1>0, <1>14 DEF EndTurn, Sends
  <2>2. NoTurn \in Turns
    BY NewTurns
  <2>. QED
    BY <1>0, <1>14, <2>1, <2>2, BatchesOf DEF EndTurn
<1>15. ASSUME NEW b \in BOOLEAN, SendEnds(b) PROVE Batches'
  <2>1. flight' \in Sends /\ UNCHANGED <<results, op>>
    BY <1>15 DEF SendEnds, NoSend, Sends
  <2>2. CASE UNCHANGED <<turn, cpc>>
    BY <1>0, <2>1, <2>2 DEF Batches
  <2>3. CASE \E as : Finish(as)
    BY <1>0, <2>1, <2>3, FinishedTurn
  <2>4. CASE /\ cpc = "send" /\ b /\ turn' = [turn EXCEPT !.sent = @ + 1]
             /\ cpc' = IF turn.sent + 1 = turn.batch THEN "settle" ELSE "send"
    <3>1. turn.sent \in 0..MaxBatch /\ turn.batch \in 0..MaxBatch /\ turn.sent < turn.batch
      BY <1>0, <2>4 DEF Batches, Turns
    <3>2. /\ turn.sent + 1 \in 0..MaxBatch
          /\ turn.sent + 1 # turn.batch => turn.sent + 1 < turn.batch
      BY <3>1
    <3>3. turn' \in Turns /\ turn'.sent = turn.sent + 1 /\ turn'.batch = turn.batch
      BY <1>0, <2>4, <3>2 DEF Turns
    <3>. QED
      BY <1>0, <2>1, <2>4, <3>2, <3>3, BatchesOf
  <2>5. CASE turn' = [turn EXCEPT !.failed = TRUE] /\ cpc' = "judge"
    <3>1. turn' \in Turns
      BY <1>0, <2>5 DEF Turns
    <3>. QED
      BY <1>0, <2>1, <2>5, <3>1, BatchesOf
  <2>6. CASE /\ turn' = [turn EXCEPT !.waiting = FALSE, !.waited = b,
                                     !.saw = IF b /\ cpc = "ask" THEN TRUE ELSE @]
             /\ UNCHANGED cpc
    <3>1. turn.saw \in BOOLEAN
      BY <1>0 DEF Turns
    <3>2. PICK w : w = IF b /\ cpc = "ask" THEN TRUE ELSE turn.saw
      OBVIOUS
    <3>3. w \in BOOLEAN
      BY <3>1, <3>2
    <3>4. turn' = [turn EXCEPT !.waiting = FALSE, !.waited = b, !.saw = w]
      BY <2>6, <3>2
    <3>5. PICK v : v = [turn EXCEPT !.waiting = FALSE, !.waited = b]
      OBVIOUS
    <3>6. v \in Turns /\ v.sent = turn.sent /\ v.batch = turn.batch
      BY <1>0, <3>5 DEF Turns
    <3>7. [v EXCEPT !.saw = w] \in Turns /\ [v EXCEPT !.saw = w].sent = turn.sent
          /\ [v EXCEPT !.saw = w].batch = turn.batch
      BY <3>3, <3>6 DEF Turns
    <3>8. turn' \in Turns /\ turn'.sent = turn.sent /\ turn'.batch = turn.batch
      BY <3>4, <3>5, <3>7
    <3>. QED
      BY <1>0, <2>1, <2>6, <3>8 DEF Batches
  <2>. QED
    BY <1>15, <2>2, <2>3, <2>4, <2>5, <2>6 DEF SendEnds
<1>16. ASSUME NEW b \in BOOLEAN, SendReply(b) PROVE Batches'
  <2>1. CASE turn' = [turn EXCEPT !.failed = TRUE] /\ cpc' = "judge" /\ UNCHANGED flight
    <3>1. turn' \in Turns
      BY <1>0, <2>1 DEF Turns
    <3>. QED
      BY <1>0, <1>16, <2>1, <3>1, BatchesOf DEF SendReply
  <2>2. CASE flight' = [kind |-> "reply", current |-> TRUE] /\ UNCHANGED <<turn, cpc>>
    BY <1>16, <2>2 DEF SendReply, Batches, Sends
  <2>. QED
    BY <1>16, <2>1, <2>2 DEF SendReply
<1>17. CASE SendNotice
  <2>1. turn' \in Turns /\ turn'.sent = turn.sent /\ turn'.batch = turn.batch
    BY <1>0, <1>17 DEF SendNotice, Turns
  <2>2. flight' \in Sends
    BY <1>17 DEF SendNotice, Sends
  <2>. QED
    BY <1>17, <2>1, <2>2 DEF SendNotice, Batches
<1>18. ASSUME NEW i \in Input, Submit(i) PROVE Batches'
  <2>1. results' \in Seq(Job)
    <3>1. PICK S : S = {j \in Job : st[j] \in Terminal /\ j \notin delivered /\ j \notin ToSet(results)}
      OBVIOUS
    <3>2. InOrder(S) \in Seq(Job)
      BY <3>1, InOrderSeq
    <3>3. results' = results \o InOrder(S)
      BY <1>18, <3>1 DEF Submit
    <3>. QED
      BY <1>0, <3>2, <3>3, ConcatProperties
  <2>2. CASE UNCHANGED <<turn, cpc, fate>>
    BY <1>0, <1>18, <2>1, <2>2 DEF Submit, Batches
  <2>3. CASE ChatCancelled("cancelled")
    BY <1>18, <2>1, <2>3, CancelledTurn DEF Submit
  <2>. QED
    BY <1>18, <2>2, <2>3 DEF Submit
<1>19. CASE WorkDone
  <2>1. work.job \in Job
    BY <1>19 DEF WorkDone, Worked
  <2>2. Append(results, work.job) \in Seq(Job)
    BY <1>0, <2>1, AppendProperties
  <2>. QED
    BY <1>0, <1>19, <2>2 DEF WorkDone, Batches
<1>20. CASE Close
  BY <1>0, <1>20, CancelledTurn DEF Close
<1>21. CASE Exit \/ Crash
  <2>1. turn' = NoTurn /\ results' = <<>> /\ cpc' = "off" /\ op' = "none" /\ flight' = NoSend
    BY <1>21 DEF Exit, Crash, Forget
  <2>2. NoTurn \in Turns /\ <<>> \in Seq(Job) /\ NoSend \in Sends
    BY NewTurns, EmptySeq DEF NoSend, Sends
  <2>. QED
    BY <2>1, <2>2, BatchesOf
<1>22. CASE Start
  <2>1. PICK S : S = {j \in Job : st'[j] \notin {"none", "queued"} /\ j \notin delivered}
    OBVIOUS
  <2>2. InOrder(S) \in Seq(Job)
    BY <2>1, InOrderSeq
  <2>3. results' = InOrder(S)
    BY <1>22, <2>1 DEF Start
  <2>. QED
    BY <1>22, <2>2, <2>3 DEF Start, Batches
<1>23. CASE (\E i \in Input : WriteStatus(i)) \/ Pick \/ WorkLoop \/ WorkAnswer \/ ToolStart
            \/ NextCall \/ DoubtSaved \/ Report \/ Reported
            \/ (\E known \in BOOLEAN : ToolEnds(known)) \/ UNCHANGED vars
  BY <1>1, <1>23 DEF WriteStatus, Pick, WorkLoop, WorkAnswer, ToolStart, NextCall, DoubtSaved,
         Report, Reported, ToolEnds, vars
<1>. QED
  BY <1>2, <1>3, <1>4, <1>5, <1>6, <1>7, <1>8, <1>9, <1>10, <1>11, <1>12, <1>13, <1>14, <1>15,
     <1>16, <1>17, <1>18, <1>19, <1>20, <1>21, <1>22, <1>23 DEF Next, ChatStep, WorkStep

(* Only what is recovered is quiet. *)
Quiet == quiet \subseteq Input

LEMMA QuietStep == Quiet /\ [Next]_vars => Quiet'
<1>. SUFFICES ASSUME Quiet, [Next]_vars PROVE Quiet'
  OBVIOUS
<1>1. CASE UNCHANGED quiet
  BY <1>1 DEF Quiet
<1>2. CASE Start \/ TakeInputs \/ Exit \/ Crash
  BY <1>2 DEF Start, TakeInputs, Exit, Crash, Forget, Quiet
<1>3. CASE ~(Start \/ TakeInputs \/ Exit \/ Crash)
  BY <1>1, <1>3 DEF Next, ChatStep, WorkStep, vars, TakeResult, ModelCalls, ModelReplies,
     ModelRambles, Fails, OpBegin, OpCommit, OpSeen, Publish, SendError, Settle, Judge, EndTurn,
     SendEnds, SendReply, WriteStatus, Pick, WorkLoop, WorkAnswer, ToolStart, NextCall, DoubtSaved,
     Report, Reported, WorkDone, ToolEnds, Submit, SendNotice, Close
<1>. QED
  BY <1>2, <1>3

LEMMA MarksStep == Typed /\ Worked /\ Batches /\ Marks /\ [Next]_vars => Marks'
<1>. SUFFICES ASSUME Typed, Worked, Batches, Marks, [Next]_vars PROVE Marks'
  OBVIOUS
<1>1. CASE UNCHANGED <<delivered, ran, told, open, allow, unheard>>
  BY <1>1 DEF Marks
<1>2. CASE Settle
  BY <1>2 DEF Settle, Marks, Batches, Turns
<1>3. ASSUME NEW b \in BOOLEAN, SendEnds(b) PROVE Marks'
  <2>1. told' \in {told, told \cup turn.about} /\ open' = FALSE
        /\ UNCHANGED <<delivered, ran, allow, unheard>>
    BY <1>3 DEF SendEnds
  <2>2. turn.about \subseteq Job
    BY DEF Batches, Turns
  <2>. QED
    BY <2>1, <2>2 DEF Marks
<1>4. CASE Judge
  <2>1. allow' \in BOOLEAN
    BY <1>4 DEF Judge
  <2>2. unheard' \in {pending, unheard} /\ UNCHANGED <<delivered, ran, told, open>>
    BY <1>4 DEF Judge
  <2>. QED
    BY <2>1, <2>2 DEF Marks, Typed
<1>5. CASE ToolStart
  <2>1. work.job \in Job
    BY <1>5 DEF ToolStart, Worked
  <2>. QED
    BY <1>5, <2>1 DEF ToolStart, Marks
<1>6. ASSUME NEW i \in Input, Submit(i) PROVE Marks'
  BY <1>6 DEF Submit, Marks
<1>7. CASE SendNotice \/ Close \/ SendError
  BY <1>7 DEF SendNotice, Close, SendError, Marks
<1>8. ASSUME NEW b \in BOOLEAN, SendReply(b) PROVE Marks'
  BY <1>8 DEF SendReply, Marks
<1>9. CASE Exit \/ Crash
  BY <1>9 DEF Exit, Crash, Forget, Marks
<1>10. CASE Start
  <2>1. open' = FALSE /\ UNCHANGED <<delivered, ran, told>>
    BY <1>10 DEF Start
  <2>2. unheard' = pending' /\ pending' \subseteq Input /\ allow' = (pending' = {})
    BY <1>10 DEF Start
  <2>3. allow' \in BOOLEAN
    BY <2>2
  <2>. QED
    BY <2>1, <2>2, <2>3 DEF Marks
<1>11. CASE TakeInputs \/ TakeResult \/ ModelRambles \/ Fails \/ OpBegin \/ OpCommit \/ OpSeen
            \/ Publish \/ EndTurn
            \/ (\E kind \in {"start", "update", "cancel", "status"} : ModelCalls(kind))
            \/ (\E n \in 0..MaxBatch : ModelReplies(n)) \/ (\E i \in Input : WriteStatus(i))
  BY <1>1, <1>11 DEF TakeInputs, TakeResult, ModelRambles, Fails, OpBegin, OpCommit, OpSeen,
         Publish, EndTurn, ModelCalls, ModelReplies, WriteStatus
<1>12. CASE Pick \/ WorkLoop \/ WorkAnswer \/ NextCall \/ DoubtSaved \/ Report \/ Reported
            \/ WorkDone \/ (\E known \in BOOLEAN : ToolEnds(known)) \/ UNCHANGED vars
  BY <1>1, <1>12 DEF Pick, WorkLoop, WorkAnswer, NextCall, DoubtSaved, Report, Reported, WorkDone,
         ToolEnds, vars
<1>. QED
  BY <1>2, <1>3, <1>4, <1>5, <1>6, <1>7, <1>8, <1>9, <1>10, <1>11, <1>12 DEF Next, ChatStep,
     WorkStep

-----------------------------------------------------------------------------
(* What becomes of the inputs. *)

(* Where a turn has yet to say what becomes of its inputs.                 *)
Answering == {"ask", "op", "publish", "send", "settle", "judge", "error"}

(* An input that is received waits, or is being answered, or its status is *)
(* about to be written.                                                    *)
Remembered ==
  up = "up" => \A i \in Input : status[i] = "received" =>
    \/ i \in pending
    \/ i \in turn.inputs /\ cpc \in Answering
    \/ fate[i] \notin {"none", "received"}

(* Who answers is a turn; and only a process that is closed leaves an      *)
(* input for the next one.                                                 *)
Answered ==
  /\ cpc \in Answering => turn.on
  /\ up # "closing" => \A i \in Input : fate[i] # "received"
  /\ Remembered

(* A turn that goes on answers the same inputs.                            *)
LEMMA GoesOn ==
  ASSUME Answered, turn'.inputs = turn.inputs, turn'.on = turn.on,
         cpc' \in Answering <=> cpc \in Answering, UNCHANGED <<status, pending, fate, up>>
  PROVE  Answered'
BY DEF Answered, Remembered

(* A turn that ends has a status for each of its inputs.                   *)
LEMMA Finishes ==
  ASSUME Typed, Answered, NEW as \in {"responded", "no_reply", "cancelled", "error"}, Finish(as),
         UNCHANGED <<status, pending, up>>
  PROVE  Answered'
<1>1. \A i \in Input : fate'[i] = IF i \in turn.inputs THEN as ELSE fate[i]
  BY DEF Finish
<1>2. cpc' \notin Answering
  BY DEF Finish, Answering
<1>. QED
  BY <1>1, <1>2 DEF Answered, Remembered

(* A new input cancels the turn, whose inputs all get a status.            *)
LEMMA Superseded ==
  ASSUME Typed, Answered, NEW i \in Input, Submit(i)
  PROVE  Answered'
<1>1. /\ up = "up" /\ up' = "up" /\ pending' = pending \cup {i}
      /\ \A k \in Input : k # i => status'[k] = status[k]
  BY DEF Submit, Typed
<1>2. CASE UNCHANGED <<turn, cpc, fate>>
  BY <1>1, <1>2 DEF Answered, Remembered
<1>3. CASE ChatCancelled("cancelled")
  <2>1. cpc' \notin Answering
    BY <1>3 DEF ChatCancelled, Answering
  <2>2. CASE cpc \in Answering
    <3>1. \A k \in Input : fate'[k] = IF k \notin turn.inputs THEN fate[k]
                                      ELSE IF cpc = "error" THEN "error" ELSE "cancelled"
      BY <1>3, <2>2 DEF ChatCancelled, Answering
    <3>. QED
      BY <1>1, <2>1, <3>1 DEF Answered, Remembered
  <2>3. CASE cpc \notin Answering
    <3>1. fate' = fate
      BY <1>3, <2>3 DEF ChatCancelled, Answering
    <3>. QED
      BY <1>1, <2>1, <2>3, <3>1 DEF Answered, Remembered
  <2>. QED
    BY <2>2, <2>3
<1>. QED
  BY <1>2, <1>3 DEF Submit

(* What the steps of a turn make of its fields.                            *)
LEMMA StaysOn ==
  ASSUME NEW t, DOMAIN t = DOMAIN NoTurn
  PROVE  /\ Past(t).on = t.on /\ Ended(t).on = t.on /\ Failed(t).on = t.on
         /\ \A b, c, d : [Past(t) EXCEPT !.out = b, !.silent = c, !.valid = d].on = t.on
<1>1. DOMAIN Past(t) = DOMAIN NoTurn /\ Past(t).on = t.on
  BY DEF Past, NoTurn
<1>2. DOMAIN Ended(t) = DOMAIN NoTurn /\ Ended(t).on = t.on
  BY DEF Ended, NoTurn
<1>3. Failed(t).on = t.on
  BY <1>2 DEF Failed, NoTurn
<1>. QED
  BY <1>1, <1>2, <1>3 DEF NoTurn

(* Every input stays accounted for.                                        *)
LEMMA AnsweredStep == Typed /\ Answered /\ [Next]_vars => Answered'
<1>. SUFFICES ASSUME Typed, Answered, [Next]_vars PROVE Answered'
  OBVIOUS
<1>0. DOMAIN turn = DOMAIN NoTurn /\ "on" \in DOMAIN NoTurn
  BY DEF Typed, NoTurn
<1>1. CASE UNCHANGED <<turn, cpc, status, pending, fate, up>>
  BY <1>1, GoesOn
<1>2. CASE TakeInputs \/ TakeResult
  <2>0. \A a, b : NewTurn(a, b).on = TRUE /\ NewTurn(a, b).inputs = a
    BY DEF NewTurn, NoTurn
  <2>1. CASE TakeInputs
    <3>1. turn' = NewTurn(pending, {}) /\ cpc' = "ask" /\ cpc \notin Answering /\ up = "up"
          /\ UNCHANGED <<status, fate, up>>
      BY <2>1 DEF TakeInputs, Begin, Answered
    <3>. QED
      BY <2>0, <3>1 DEF Answered, Remembered, Answering
  <2>2. CASE TakeResult
    <3>1. cpc \notin Answering /\ UNCHANGED <<status, fate, up, pending>>
      BY <2>2 DEF TakeResult, Answered
    <3>2. CASE UNCHANGED <<turn, cpc>>
      BY <1>1, <3>1, <3>2
    <3>3. CASE Begin({}, {Head(results)})
      BY <2>0, <3>1, <3>3 DEF Begin, Answered, Remembered, Answering
    <3>. QED
      BY <2>2, <3>2, <3>3 DEF TakeResult
  <2>. QED
    BY <1>2, <2>1, <2>2
<1>3. ASSUME NEW kind \in {"start", "update", "cancel", "status"}, ModelCalls(kind) PROVE Answered'
  BY <1>3, GoesOn DEF ModelCalls, Answering
<1>4. ASSUME NEW n \in 0..MaxBatch, ModelReplies(n) PROVE Answered'
  <2>1. turn'.on = turn.on /\ turn'.inputs = turn.inputs
    BY <1>0, <1>4 DEF ModelReplies, NoTurn
  <2>. QED
    BY <1>4, <2>1, GoesOn DEF ModelReplies, Answering
<1>5. CASE ModelRambles
  <2>1. turn'.inputs = turn.inputs
    BY <1>5, RamblesKeeps DEF Same
  <2>2. turn'.on = turn.on
    <3>1. CASE turn' = [turn EXCEPT !.rewrites = 1, !.saw = turn.waited]
      BY <1>0, <3>1 DEF NoTurn
    <3>2. CASE turn' = Failed(turn)
      BY <1>0, <3>2, StaysOn
    <3>. QED
      BY <1>5, <3>1, <3>2 DEF ModelRambles
  <2>. QED
    BY <1>5, <2>1, <2>2, GoesOn DEF ModelRambles, Answering
<1>6. CASE Fails
  <2>1. turn'.on = turn.on
    BY <1>0, <1>6, StaysOn DEF Fails
  <2>2. turn'.inputs = turn.inputs
    BY <1>6, FailedKeeps DEF Fails
  <2>. QED
    BY <1>6, <2>1, <2>2, GoesOn DEF Fails, Answering
<1>7. CASE OpSeen
  <2>1. turn'.inputs = turn.inputs
    BY <1>7, SeenKeeps DEF Same
  <2>2. turn'.on = turn.on
    <3>1. CASE turn' = [turn EXCEPT !.saw = turn.waited, !.batch = 0]
      BY <1>0, <3>1 DEF NoTurn
    <3>2. CASE turn' = Ended(turn)
      BY <1>0, <3>2, StaysOn
    <3>. QED
      BY <1>7, <3>1, <3>2 DEF OpSeen, Ask
  <2>. QED
    BY <1>7, <2>1, <2>2, GoesOn DEF OpSeen, Ask, Answering
<1>8. CASE Publish
  <2>1. turn'.inputs = turn.inputs
    BY <1>8, PublishKeeps DEF Same
  <2>2. turn'.on = turn.on
    <3>1. CASE turn' = [turn EXCEPT !.saw = turn.waited, !.batch = 0]
      BY <1>0, <3>1 DEF NoTurn
    <3>2. CASE turn' = Ended(turn)
      BY <1>0, <3>2, StaysOn
    <3>3. CASE turn' = [Past(turn) EXCEPT !.out = (turn.batch > 0), !.silent = (turn.batch = 0),
                                          !.valid = TRUE]
      BY <1>0, <3>3, StaysOn
    <3>. QED
      BY <1>8, <3>1, <3>2, <3>3 DEF Publish, Ask
  <2>. QED
    BY <1>8, <2>1, <2>2, GoesOn DEF Publish, Ask, Answering
<1>9. ASSUME NEW b \in BOOLEAN, SendReply(b) PROVE Answered'
  <2>1. turn'.inputs = turn.inputs
    BY <1>9, ReplyKeeps DEF Same
  <2>2. turn'.on = turn.on
    BY <1>0, <1>9 DEF SendReply, NoTurn
  <2>. QED
    BY <1>9, <2>1, <2>2, GoesOn DEF SendReply, Answering
<1>10. CASE SendNotice
  <2>1. turn'.on = turn.on /\ turn'.inputs = turn.inputs
    BY <1>0, <1>10 DEF SendNotice, NoTurn
  <2>. QED
    BY <1>10, <2>1, GoesOn DEF SendNotice
<1>11. CASE SendError
  <2>1. CASE Finish("error")
    BY <1>11, <2>1, Finishes DEF SendError
  <2>2. CASE UNCHANGED <<turn, cpc, fate>>
    BY <1>1, <1>11, <2>2 DEF SendError
  <2>. QED
    BY <1>11, <2>1, <2>2 DEF SendError
<1>12. ASSUME NEW b \in BOOLEAN, SendEnds(b) PROVE Answered'
  <2>0. UNCHANGED <<status, pending, up>>
    BY <1>12 DEF SendEnds
  <2>1. CASE UNCHANGED <<turn, cpc, fate>>
    BY <1>1, <2>0, <2>1
  <2>2. CASE \E as \in {"error", "cancelled"} : Finish(as)
    BY <2>0, <2>2, Finishes
  <2>3. CASE /\ cpc = "send" /\ cpc' \in {"send", "settle", "judge"} /\ UNCHANGED fate
             /\ turn' = [turn EXCEPT !.sent = @ + 1] \/ turn' = [turn EXCEPT !.failed = TRUE]
    <3>1. turn'.on = turn.on /\ turn'.inputs = turn.inputs
      BY <1>0, <2>3 DEF NoTurn
    <3>. QED
      BY <2>0, <2>3, <3>1, GoesOn DEF Answering
  <2>4. CASE /\ turn' = [turn EXCEPT !.waiting = FALSE, !.waited = b,
                                     !.saw = IF b /\ cpc = "ask" THEN TRUE ELSE @]
             /\ UNCHANGED <<cpc, fate>>
    <3>1. turn'.on = turn.on /\ turn'.inputs = turn.inputs
      BY <1>0, <2>4 DEF NoTurn
    <3>. QED
      BY <2>0, <2>4, <3>1, GoesOn
  <2>. QED
    BY <1>12, <2>1, <2>2, <2>3, <2>4 DEF SendEnds
<1>13. CASE Settle
  BY <1>13, GoesOn DEF Settle, Answering
<1>14. CASE Judge
  <2>1. \E as \in {"error", "responded", "no_reply"} : Finish(as)
    BY <1>14 DEF Judge
  <2>. QED
    BY <1>14, <2>1, Finishes DEF Judge
<1>15. ASSUME NEW i \in Input, WriteStatus(i) PROVE Answered'
  <2>1. /\ status'[i] = fate[i] /\ fate'[i] = "none" /\ UNCHANGED <<turn, cpc, pending, up>>
        /\ \A k \in Input : k # i => status'[k] = status[k] /\ fate'[k] = fate[k]
    BY <1>15 DEF WriteStatus, Typed
  <2>. QED
    BY <2>1 DEF Answered, Remembered
<1>16. CASE EndTurn
  <2>1. cpc \notin Answering /\ cpc' \notin Answering /\ UNCHANGED <<status, pending, fate, up>>
    BY <1>16 DEF EndTurn, Answering
  <2>. QED
    BY <2>1 DEF Answered, Remembered
<1>17. ASSUME NEW i \in Input, Submit(i) PROVE Answered'
  BY <1>17, Superseded
<1>18. CASE Close
  <2>1. up' = "closing" /\ cpc' \notin Answering
    BY <1>18 DEF Close, ChatCancelled, Answering
  <2>. QED
    BY <2>1 DEF Answered, Remembered
<1>19. CASE Exit \/ Crash
  <2>1. up' = "down" /\ cpc' \notin Answering /\ \A i \in Input : fate'[i] # "received"
    BY <1>19 DEF Exit, Crash, Forget, Answering
  <2>. QED
    BY <2>1 DEF Answered, Remembered
<1>20. CASE Start
  <2>1. UNCHANGED <<turn, cpc, fate>> /\ up = "down"
    BY <1>20 DEF Start
  <2>2. \A i \in Input : status'[i] = "received" => i \in pending'
    BY <1>20 DEF Start, Typed
  <2>. QED
    BY <2>1, <2>2 DEF Answered, Remembered
<1>21. CASE OpBegin \/ OpCommit \/ WorkStep \/ UNCHANGED vars
  BY <1>1, <1>21 DEF OpBegin, OpCommit, WorkStep, Pick, WorkLoop, WorkAnswer, ToolStart, NextCall,
     DoubtSaved, Report, Reported, WorkDone, ToolEnds, vars
<1>. QED
  BY <1>2, <1>3, <1>4, <1>5, <1>6, <1>7, <1>8, <1>9, <1>10, <1>11, <1>12, <1>13, <1>14, <1>15,
     <1>16, <1>17, <1>18, <1>19, <1>20, <1>21 DEF Next, ChatStep

-----------------------------------------------------------------------------
(* The ends of jobs. *)

(* A job that has ended is not taken up again, whatever stops, crashes and *)
(* changes of jobs come (recover_jobs, _manage_task, _work_loop).          *)
JobsStayEnded == [][\A j \in Job : st[j] \in Terminal => st'[j] \in Terminal]_vars

(* The chat is woken only by jobs that have ended (_work_loop, submit,     *)
(* start).                                                                 *)
WokenByEnded == \A n \in DOMAIN results : st[results[n]] \in Terminal

(* A worker that is done with a job leaves it ended.                       *)
Woken ==
  /\ WokenByEnded
  /\ wpc \in {"done", "reported"} => st[work.job] \in Terminal

(* Whoever writes the status of a job that has ended writes another end.   *)
LEMMA EndedStays ==
  ASSUME Typed, Worked, [Next]_vars, NEW j \in Job, st[j] \in Terminal
  PROVE  st'[j] \in Terminal
<1>. USE DEF Terminal
<1>0. st \in [Job -> JobStatus] /\ work.job \in 0..MaxJob
  BY DEF Typed
<1>1. CASE UNCHANGED st
  BY <1>1
<1>2. CASE OpBegin
  <2>1. CASE UNCHANGED st
    BY <2>1
  <2>2. CASE CreateJob
    BY <1>0, <2>2 DEF CreateJob
  <2>. QED
    BY <1>2, <2>1, <2>2 DEF OpBegin
<1>3. CASE OpCommit
  BY <1>0, <1>3 DEF OpCommit
<1>4. CASE Pick
  <2>1. PICK k \in Job : st[k] = "queued" /\ st' = [st EXCEPT ![k] = "running"]
    BY <1>4 DEF Pick
  <2>. QED
    BY <1>0, <2>1
<1>5. CASE WorkLoop \/ WorkAnswer \/ DoubtSaved \/ Report
  BY <1>0, <1>5 DEF WorkLoop, WorkAnswer, DoubtSaved, Report
<1>6. CASE Close
  BY <1>0, <1>6 DEF Close
<1>7. CASE Start
  BY <1>0, <1>7 DEF Start, RecoverJobs
<1>8. CASE \/ TakeInputs \/ TakeResult \/ ModelRambles \/ Fails \/ OpSeen \/ Publish \/ SendError
           \/ Settle \/ Judge \/ EndTurn \/ SendNotice \/ Exit \/ Crash
           \/ (\E kind \in {"start", "update", "cancel", "status"} : ModelCalls(kind))
           \/ (\E n \in 0..MaxBatch : ModelReplies(n))
           \/ (\E b \in BOOLEAN : SendEnds(b) \/ SendReply(b))
           \/ (\E i \in Input : WriteStatus(i) \/ Submit(i))
  BY <1>1, <1>8 DEF TakeInputs, TakeResult, ModelRambles, Fails, OpSeen, Publish, SendError, Settle,
     Judge, EndTurn, SendNotice, Exit, Crash, ModelCalls, ModelReplies, SendEnds, SendReply,
     WriteStatus, Submit
<1>9. CASE \/ ToolStart \/ NextCall \/ Reported \/ WorkDone \/ UNCHANGED vars
           \/ (\E known \in BOOLEAN : ToolEnds(known))
  BY <1>1, <1>9 DEF ToolStart, NextCall, Reported, WorkDone, ToolEnds, vars
<1>. QED
  BY <1>2, <1>3, <1>4, <1>5, <1>6, <1>7, <1>8, <1>9 DEF Next, ChatStep, WorkStep

(* What is listed are jobs of the list.                                    *)
LEMMA Listed ==
  ASSUME NEW S \in SUBSET Job
  PROVE  \A n \in DOMAIN InOrder(S) : InOrder(S)[n] \in S
BY InOrderLists

(* What joins the queue of results has ended.                              *)
LEMMA WokenStep == Typed /\ Worked /\ Batches /\ Woken /\ [Next]_vars => Woken'
<1>. SUFFICES ASSUME Typed, Worked, Batches, Woken, [Next]_vars PROVE Woken'
  OBVIOUS
<1>0. /\ results \in Seq(Job) /\ work.job \in 0..MaxJob
      /\ \A n \in DOMAIN results : results[n] \in Job
      /\ wpc # "off" => work.job \in Job
      /\ st \in [Job -> JobStatus]
  BY DEF Batches, Worked, Typed
<1>1. ASSUME results' = results PROVE WokenByEnded'
  BY <1>0, <1>1, EndedStays DEF Woken, WokenByEnded
<1>2. ASSUME UNCHANGED worker PROVE wpc' \in {"done", "reported"} => st'[work'.job] \in Terminal
  BY <1>0, <1>2, EndedStays DEF Woken
<1>3. CASE UNCHANGED <<results, wpc, work>>
  BY <1>1, <1>2, <1>3 DEF Woken
<1>4. CASE OpCommit
  <2>1. UNCHANGED results
    BY <1>4 DEF OpCommit
  <2>2. CASE UNCHANGED worker
    BY <1>1, <1>2, <2>1, <2>2 DEF Woken
  <2>3. CASE /\ work' = [work EXCEPT !.restart = TRUE, !.stop = (op = "cancel")]
             /\ wpc' = IF wpc = "ask" THEN "loop" ELSE wpc
    <3>1. work'.job = work.job
      BY <2>3 DEF Typed, NoWork
    <3>2. wpc' \in {"done", "reported"} => wpc = wpc'
      BY <2>3
    <3>. QED
      BY <1>0, <1>1, <2>1, <3>1, <3>2, EndedStays DEF Woken
  <2>. QED
    BY <1>4, <2>2, <2>3 DEF OpCommit
<1>5. CASE WorkLoop
  <2>1. CASE wpc' = "done" /\ UNCHANGED work
    <3>1. st'[work.job] \in Terminal
      BY <1>0, <1>5, <2>1 DEF WorkLoop, Terminal
    <3>. QED
      BY <1>1, <1>5, <2>1, <3>1 DEF WorkLoop, Woken
  <2>2. CASE wpc' = "ask"
    BY <1>1, <1>5, <2>2 DEF WorkLoop, Woken
  <2>. QED
    BY <1>5, <2>1, <2>2 DEF WorkLoop
<1>6. CASE WorkAnswer
  <2>1. CASE wpc' = "done" /\ UNCHANGED work /\ st' = [st EXCEPT ![work.job] = "failed"]
    <3>1. st'[work.job] \in Terminal
      BY <1>0, <1>6, <2>1 DEF WorkAnswer, Terminal
    <3>. QED
      BY <1>1, <1>6, <2>1, <3>1 DEF WorkAnswer, Woken
  <2>2. CASE wpc' \in {"act", "report"}
    BY <1>1, <1>6, <2>2 DEF WorkAnswer, Woken
  <2>. QED
    BY <1>6, <2>1, <2>2 DEF WorkAnswer
<1>7. CASE Report
  <2>1. CASE wpc' = "reported" /\ st' = [st EXCEPT ![work.job] = "completed"]
    <3>1. st'[work.job] \in Terminal /\ work' = work
      BY <1>0, <1>7, <2>1 DEF Report, Terminal
    <3>. QED
      BY <1>1, <1>7, <2>1, <3>1 DEF Report, Woken
  <2>2. CASE wpc' = "loop"
    BY <1>1, <1>7, <2>2 DEF Report, Woken
  <2>. QED
    BY <1>7, <2>1, <2>2 DEF Report
<1>8. CASE Reported
  <2>1. wpc = "reported" /\ UNCHANGED <<results, work, st>>
    BY <1>8 DEF Reported
  <2>. QED
    BY <1>1, <2>1 DEF Woken
<1>9. CASE WorkDone
  <2>1. wpc' = "off" /\ UNCHANGED st /\ wpc = "done"
    BY <1>9 DEF WorkDone
  <2>2. CASE results' = results
    BY <1>1, <2>1, <2>2 DEF Woken
  <2>3. CASE results' = Append(results, work.job)
    <3>1. \A n \in DOMAIN results' : \/ results'[n] = work.job
                                     \/ n \in DOMAIN results /\ results'[n] = results[n]
      BY <1>0, <2>3
    <3>2. st[work.job] \in Terminal
      BY <2>1 DEF Woken
    <3>. QED
      BY <2>1, <3>1, <3>2 DEF Woken, WokenByEnded
  <2>. QED
    BY <1>9, <2>2, <2>3 DEF WorkDone
<1>10. CASE TakeResult
  <2>1. \A n \in DOMAIN results' : n + 1 \in DOMAIN results /\ results'[n] = results[n + 1]
    BY <1>0, <1>10 DEF TakeResult
  <2>2. UNCHANGED <<st, worker>>
    BY <1>10 DEF TakeResult
  <2>. QED
    BY <1>2, <2>1, <2>2 DEF Woken, WokenByEnded
<1>11. ASSUME NEW i \in Input, Submit(i) PROVE Woken'
  <2>1. PICK S : S = {j \in Job : st[j] \in Terminal /\ j \notin delivered /\ j \notin ToSet(results)}
    OBVIOUS
  <2>2. InOrder(S) \in Seq(Job) /\ \A n \in DOMAIN InOrder(S) : InOrder(S)[n] \in S
    BY <2>1, InOrderSeq, Listed
  <2>3. results' = results \o InOrder(S) /\ UNCHANGED <<st, worker>>
    BY <1>11, <2>1 DEF Submit
  <2>4. \A n \in DOMAIN results' : \/ n \in DOMAIN results /\ results'[n] = results[n]
                                   \/ \E m \in DOMAIN InOrder(S) : results'[n] = InOrder(S)[m]
    <3>1. PICK t : t = InOrder(S)
      OBVIOUS
    <3>2. t \in Seq(Job)
      BY <2>2, <3>1
    <3>3. \A n \in DOMAIN (results \o t) : \/ n \in DOMAIN results /\ (results \o t)[n] = results[n]
                                           \/ \E m \in DOMAIN t : (results \o t)[n] = t[m]
      <4>. TAKE n \in DOMAIN (results \o t)
      <4>1. /\ DOMAIN results = 1..Len(results) /\ DOMAIN t = 1..Len(t)
            /\ DOMAIN (results \o t) = 1..(Len(results) + Len(t))
            /\ Len(results) \in Nat /\ Len(t) \in Nat
        BY <1>0, <3>2
      <4>2. CASE n <= Len(results)
        BY <1>0, <3>2, <4>1, <4>2
      <4>3. CASE ~(n <= Len(results))
        <5>1. n - Len(results) \in DOMAIN t /\ (results \o t)[n] = t[n - Len(results)]
          BY <1>0, <3>2, <4>1, <4>3
        <5>. QED
          BY <5>1
      <4>. QED
        BY <4>2, <4>3
    <3>. QED
      BY <2>3, <3>1, <3>3
  <2>5. WokenByEnded'
    BY <2>1, <2>2, <2>3, <2>4 DEF Woken, WokenByEnded
  <2>. QED
    BY <1>2, <2>3, <2>5 DEF Woken
<1>12. CASE Close \/ Pick \/ DoubtSaved
  <2>1. wpc' \in {"off", "loop", "act"} /\ UNCHANGED results
    BY <1>12 DEF Close, Pick, DoubtSaved, CallOver
  <2>. QED
    BY <1>1, <2>1 DEF Woken
<1>13. CASE Exit \/ Crash
  <2>1. wpc' = "off" /\ results' = <<>>
    BY <1>13 DEF Exit, Crash, Forget
  <2>. QED
    BY <2>1 DEF Woken, WokenByEnded
<1>14. CASE Start
  <2>1. PICK S : S = {j \in Job : st'[j] \notin {"none", "queued"} /\ j \notin delivered}
    OBVIOUS
  <2>2. results' = InOrder(S) /\ UNCHANGED worker /\ RecoverJobs
    BY <1>14, <2>1 DEF Start
  <2>3. \A n \in DOMAIN InOrder(S) : InOrder(S)[n] \in S
    BY <2>1, Listed
  <2>4. \A j \in S : st'[j] \in Terminal
    BY <1>0, <2>1, <2>2 DEF RecoverJobs, Terminal, JobStatus
  <2>. QED
    BY <1>2, <2>2, <2>3, <2>4 DEF Woken, WokenByEnded
<1>15. CASE \/ ToolStart \/ NextCall \/ (\E known \in BOOLEAN : ToolEnds(known))
  <2>1. wpc' \in {"loop", "act", "tool", "doubt"} /\ UNCHANGED results
    BY <1>15 DEF ToolStart, NextCall, ToolEnds, CallOver
  <2>. QED
    BY <1>1, <2>1 DEF Woken
<1>16. CASE \/ TakeInputs \/ ModelRambles \/ Fails \/ OpBegin \/ OpSeen \/ Publish \/ SendError
            \/ Settle \/ Judge \/ EndTurn \/ SendNotice \/ UNCHANGED vars
            \/ (\E kind \in {"start", "update", "cancel", "status"} : ModelCalls(kind))
            \/ (\E n \in 0..MaxBatch : ModelReplies(n))
            \/ (\E b \in BOOLEAN : SendEnds(b) \/ SendReply(b))
            \/ (\E i \in Input : WriteStatus(i))
  BY <1>3, <1>16 DEF TakeInputs, ModelRambles, Fails, OpBegin, OpSeen, Publish, SendError, Settle,
     Judge, EndTurn, SendNotice, vars, ModelCalls, ModelReplies, SendEnds, SendReply, WriteStatus
<1>. QED
  BY <1>4, <1>5, <1>6, <1>7, <1>8, <1>9, <1>10, <1>11, <1>12, <1>13, <1>14, <1>15, <1>16
     DEF Next, ChatStep, WorkStep

-----------------------------------------------------------------------------
(* The theorems. *)

(* What the variables of a conversation are, the queue of results apart.   *)
LEMMA TypedHolds == Spec => []Typed
BY InvariantInit, TypedStep, PTL DEF Spec

(* The rows of the jobs, and who holds them. *)
LEMMA WorkedHolds == Spec => []Worked
BY InvariantInit, WorkedStep, TypedHolds, PTL DEF Spec

(* The shapes of the variables, at the start.                              *)
LEMMA ShapesInit == Init => Ends /\ Rounds /\ Batches /\ Marks
<1>. SUFFICES ASSUME Init PROVE Ends /\ Rounds /\ Batches /\ Marks
  OBVIOUS
<1>1. Ends
  BY PrototypeAssumption DEF Init, Ends
<1>2. NoWork \in Works
  BY PrototypeAssumption DEF NoWork, Works
<1>3. Rounds /\ Marks
  BY <1>2 DEF Init, Rounds, Marks
<1>4. NoTurn \in Turns /\ <<>> \in Seq(Job) /\ NoSend \in Sends
  BY NewTurns, EmptySeq DEF NoSend, Sends
<1>5. Batches
  BY <1>4 DEF Init, Batches, NoTurn
<1>. QED
  BY <1>1, <1>3, <1>5

(* The turn and the queue of results.                                      *)
LEMMA BatchesHold == Spec => []Batches
BY ShapesInit, BatchesStep, TypedHolds, WorkedHolds, PTL DEF Spec

(* What the variables of a conversation are: a reply never sends more than *)
(* its messages, a round runs no call it does not have, and the queue of   *)
(* results holds jobs only, also over restarts.                            *)
THEOREM TypeCorrect == Spec => []TypeOK
<1>1. Typed /\ Ends /\ Rounds /\ Batches /\ Marks /\ Quiet => TypeOK
  BY DEF Typed, Ends, Rounds, Works, Batches, Turns, Sends, Marks, Quiet, TypeOK
<1>2. Init => Quiet
  BY DEF Init, Quiet
<1>. QED
  BY <1>1, <1>2, ShapesInit, QuietStep, TypedHolds, WorkedHolds, EndsStep, RoundsStep, BatchesStep, MarksStep,
     PTL DEF Spec

(* A job of which a tool has begun is never queued again (recover_jobs).   *)
THEOREM NothingIsRedone == Spec => []NoneRedone
<1>1. Worked => NoneRedone
  BY DEF Worked, NoneRedone
<1>. QED
  BY <1>1, WorkedHolds, PTL

(* Whatever is cancelled, asked for again or regrouped after a restart, an *)
(* input starts at most one job (_manage_task, start).                     *)
THEOREM JobsAreNotRepeated == Spec => []OneJobPerInput
<1>1. Single => OneJobPerInput
  BY DEF Single
<1>. QED
  BY <1>1, InvariantInit, SingleStep, TypedHolds, PTL DEF Spec

(* A report counts as handed over only when all of one reply about it was  *)
(* acknowledged (_deliver, pipeline).                                      *)
THEOREM ReportsAreToldWhole == Spec => []ToldWhole
<1>1. Told => ToldWhole
  BY DEF Told
<1>. QED
  BY <1>1, InvariantInit, ToldStep, TypedHolds, PTL DEF Spec

(* No tool of the background work starts while an input waits to be heard  *)
(* (allow_tools, _worker_action).                                          *)
THEOREM ToolsWaitForInputs == Spec => ToolsWait
<1>. DEFINE Starts == wpc # "tool" /\ wpc' = "tool"
<1>1. Worked /\ Heard /\ [Next]_vars => (Starts => unheard = {})
  <2>. SUFFICES ASSUME Worked, Heard, [Next]_vars, Starts PROVE unheard = {}
    OBVIOUS
  <2>1. ToolStart
        BY DEF Next, ChatStep, WorkStep, vars, TakeInputs, Begin, TakeResult, ModelCalls,
       ModelReplies, ModelRambles, Fails, OpBegin, CreateJob, OpCommit, OpSeen, Ask, Publish,
       SendError, Finish, Settle, Judge, EndTurn, SendEnds, SendReply, WriteStatus, Pick,
       WorkLoop, WorkAnswer, NextCall, CallOver, DoubtSaved, Report, Reported, WorkDone,
       ToolEnds, Submit, ChatCancelled, SendNotice, Close, Exit, Forget, Crash, Start
  <2>. QED
    BY <2>1 DEF ToolStart, Worked, Heard
<1>2. Spec => []Heard
  BY InvariantInit, HeardStep, WorkedHolds, PTL DEF Spec
<1>3. Worked /\ Heard /\ [Next]_vars => [Starts => unheard = {}]_vars
  BY <1>1
<1>. QED
  BY <1>2, <1>3, WorkedHolds, PTL DEF Spec, ToolsWait

(* No input that is received is forgotten while the process is up: it      *)
(* waits, is being answered, or its status is about to be written - what   *)
(* InputSettles needs of the state (submit, _chat_loop, _finish_input).    *)
THEOREM InputsAreRemembered == Spec => []Remembered
<1>1. Init => Answered
  BY DEF Init, Answered, Remembered, Answering
<1>2. Answered => Remembered
  BY DEF Answered
<1>. QED
  BY <1>1, <1>2, AnsweredStep, TypedHolds, PTL DEF Spec

(* A job that has ended stays so (recover_jobs, close, _manage_task).      *)
THEOREM EndedJobsStayEnded == Spec => JobsStayEnded
<1>1. Typed /\ Worked /\ [Next]_vars => [\A j \in Job : st[j] \in Terminal => st'[j] \in Terminal]_vars
  BY EndedStays
<1>. QED
  BY <1>1, TypedHolds, WorkedHolds, PTL DEF Spec, JobsStayEnded

(* No result of a job that still runs or waits wakes the chat (_work_loop, *)
(* submit, start).                                                         *)
THEOREM EndedJobsWakeTheChat == Spec => []WokenByEnded
<1>1. Init => Woken
  BY DEF Init, Woken, WokenByEnded
<1>2. Woken => WokenByEnded
  BY DEF Woken
<1>. QED
  BY <1>1, <1>2, WokenStep, TypedHolds, WorkedHolds, BatchesHold, PTL DEF Spec

=============================================================================
