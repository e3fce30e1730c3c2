------------------------------ MODULE V3Ingress ------------------------------
(***************************************************************************)
(* Reports of one external service in the V3 archive: the HTTP ingress     *)
(* (ingress.py) stores each as an event, and a worker of the scheduler     *)
(* (scheduler.py) answers them one after the other.  The worker is a task  *)
(* that ends when it is idle and is started again on demand.               *)
(*                                                                         *)
(* A task the model has scheduled while it answered a report bears the     *)
(* key of the service: when it fires, cancel_user cancels the worker.  A   *)
(* stop closes the ingress, cancels the scheduled tasks, then the worker.  *)
(*                                                                         *)
(* An action is the code between two awaits.  The database connection      *)
(* serves its callers in order, so a look at a row and the step that       *)
(* depends on it are one action where the step comes before any write that *)
(* follows the look is noticed.                                            *)
(***************************************************************************)
EXTENDS Naturals, Sequences, FiniteSets, SequencesExt

CONSTANTS
  Report,                  \* (service id, message_id): what a service reports
  None,                    \* no report
  Task,                    \* the tasks the model schedules meanwhile
  MaxTry,                  \* bound: requests per report, the sender's retries included
  MaxStop,                 \* bound: orderly stops of the process
  MaxCrash                 \* bound: crashes

ASSUME IngressAssumption ==
  IsFiniteSet(Report) /\ None \notin Report /\ MaxTry \in Nat /\ MaxStop \in Nat /\ MaxCrash \in Nat

Request == Report \X (1..MaxTry)

VARIABLES
  \* the database
  ledger,                  \* the reports in events, in the order of `sequence'
  status,                  \* their status
  task,                    \* scheduled_tasks: status
  \* the process
  up, stops, crashes,
  req,                     \* where the handler of each request is
  queue, ids,              \* _service_queues[key], _service_event_ids
  wk, cur,                 \* where the worker is, the report it answers
  tracked,                 \* _tasks[key] is the worker
  sched,                   \* where the asyncio task of each scheduled task is
  \* history
  told,                    \* reports whose sender was told that they are accepted
  ahead,                   \* those told before a report was stored
  displaced,               \* reports a scheduled task has put out of the worker's reach
  lost                     \* reports left cancelled: their restoration was cut off

database == <<ledger, status, task>>
process == <<up, stops, crashes>>
worker == <<queue, ids, wk, cur, tracked>>
history == <<told, ahead, displaced, lost>>
vars == <<ledger, status, task, up, stops, crashes, req, queue, ids, wk, cur, tracked, sched,
          told, ahead, displaced, lost>>

TypeOK ==
  /\ ledger \in Seq(Report) /\ IsInjective(ledger)
  /\ status \in [Report -> {"none", "received", "cancelled", "finalized", "error"}]
  /\ \A r \in Report : r \in ToSet(ledger) <=> status[r] # "none"
  /\ task \in [Task -> {"none", "pending", "running", "done", "error"}]
  /\ up \in {"up", "closing", "stopping", "ending", "down"}
  /\ stops \in 0..MaxStop /\ crashes \in 0..MaxCrash
  /\ req \in [Request -> {"new", "look", "append", "put", "over"}]
  /\ queue \in Seq(Report) /\ ids \subseteq Report
  /\ wk \in {"off", "new", "wait", "leave", "run", "flush", "undo", "restore"}
  /\ cur \in Report \cup {None} /\ (wk \in {"run", "flush", "undo", "restore"} => cur # None)
  /\ tracked \in BOOLEAN /\ (tracked => wk # "off")
  /\ sched \in [Task -> {"off", "sleep", "fire", "await", "run", "late", "last"}]
  /\ told \subseteq ToSet(ledger) /\ ahead \in [Report -> SUBSET Report]
  /\ displaced \subseteq Report /\ lost \subseteq Report

Init ==
  /\ ledger = <<>> /\ status = [r \in Report |-> "none"] /\ task = [t \in Task |-> "none"]
  /\ up = "up" /\ stops = 0 /\ crashes = 0 /\ req = [q \in Request |-> "new"]
  /\ queue = <<>> /\ ids = {} /\ wk = "off" /\ cur = None /\ tracked = FALSE
  /\ sched = [t \in Task |-> "off"] /\ told = {}
  /\ ahead = [r \in Report |-> {}] /\ displaced = {} /\ lost = {}

-----------------------------------------------------------------------------
(* The ingress. *)

(* _handle_client: a request is being read. *)
Arrive(q) ==
  /\ up = "up" /\ req[q] = "new"
  /\ req' = [req EXCEPT ![q] = "look"]
  /\ UNCHANGED <<database, process, worker, sched, history>>

(* It is too slow, too large, not authorised or not a report. *)
Refuse(q) ==
  /\ req[q] = "look"
  /\ req' = [req EXCEPT ![q] = "over"]
  /\ UNCHANGED <<database, process, worker, sched, history>>

(* Mutant: a report is queued whether it is already or not.                *)
EnqueueTwice(r) ==
  /\ queue' = Append(queue, r) /\ ids' = ids \cup {r}
  /\ IF wk = "off" THEN wk' = "new" /\ tracked' = TRUE ELSE UNCHANGED <<wk, tracked>>

(* dispatch_service_event: queued once, and a worker is started if none    *)
(* is alive.                                                               *)
Enqueue(r) ==
  IF r \in ids THEN UNCHANGED <<queue, ids, wk, tracked>>
  ELSE /\ queue' = Append(queue, r) /\ ids' = ids \cup {r}
       /\ IF wk = "off" THEN wk' = "new" /\ tracked' = TRUE ELSE UNCHANGED <<wk, tracked>>

(* The sender is told that the report is accepted. *)
Accept(q) ==
  /\ req' = [req EXCEPT ![q] = "over"]
  /\ told' = told \cup {q[1]}

(* _retry_received: a report that is known is queued again if nobody has   *)
(* finished with it.                                                       *)
Retry(q) ==
  /\ IF status[q[1]] = "received" THEN Enqueue(q[1]) ELSE UNCHANGED <<queue, ids, wk, tracked>>
  /\ Accept(q)

(* _process_request: the report is looked up by its id. *)
Look(q) ==
  /\ req[q] = "look"
  /\ IF status[q[1]] # "none" THEN Retry(q)
     ELSE /\ req' = [req EXCEPT ![q] = "append"]
          /\ UNCHANGED <<queue, ids, wk, tracked, told>>
  /\ UNCHANGED <<database, process, cur, sched, ahead, displaced, lost>>

(* append_event. *)
Insert(r) ==
  /\ ledger' = Append(ledger, r)
  /\ status' = [status EXCEPT ![r] = "received"]

(* Mutant: an event is stored for every request.                           *)
StoreBlind(q) ==
  /\ req[q] = "append"
  /\ Insert(q[1])
  /\ req' = [req EXCEPT ![q] = "put"]
  /\ UNCHANGED <<task, process, worker, sched, history>>

(* It is stored as an event, unless another request for it was faster. *)
Store(q) ==
  /\ req[q] = "append"
  /\ IF status[q[1]] # "none"
     THEN Retry(q) /\ UNCHANGED <<ledger, status, ahead>>
     ELSE /\ Insert(q[1])
          /\ ahead' = [ahead EXCEPT ![q[1]] = told]
          /\ req' = [req EXCEPT ![q] = "put"]
          /\ UNCHANGED <<queue, ids, wk, tracked, told>>
  /\ UNCHANGED <<task, process, cur, sched, displaced, lost>>

Put(q) ==
  /\ req[q] = "put"
  /\ Enqueue(q[1]) /\ Accept(q)
  /\ UNCHANGED <<database, process, cur, sched, ahead, displaced, lost>>

-----------------------------------------------------------------------------
(* The worker. *)

(* Mutant: the newest report first.                                        *)
GetNewest ==
  IF queue = <<>> THEN wk' = "wait" /\ cur' = None /\ UNCHANGED <<queue, displaced>>
  ELSE /\ cur' = Last(queue) /\ queue' = Front(queue)
       /\ wk' = "run" /\ displaced' = displaced \ {cur'}

(* _run_service_queue: what is queued is taken at once, and its pipeline   *)
(* begins (_run_service_event).                                            *)
GetNext ==
  IF queue = <<>> THEN wk' = "wait" /\ cur' = None /\ UNCHANGED <<queue, displaced>>
  ELSE /\ cur' = Head(queue) /\ queue' = Tail(queue)
       /\ wk' = "run" /\ displaced' = displaced \ {cur'}

(* The first step of a worker, or a report has come for one that waits. *)
Take ==
  /\ wk = "new" \/ (wk = "wait" /\ queue # <<>>)
  /\ GetNext
  /\ UNCHANGED <<database, process, req, ids, tracked, sched, told, ahead, lost>>

(* The pipeline has written what became of the report.  The insert of a    *)
(* row is noticed before a later write of its status is.                   *)
Finalize(as) ==
  /\ wk = "run" /\ \A k \in 1..MaxTry : req[<<cur, k>>] # "put"
  /\ status' = [status EXCEPT ![cur] = as]
  /\ wk' = "flush"
  /\ UNCHANGED <<ledger, task, process, req, queue, ids, cur, tracked, sched, history>>

(* schedule_once: the scheduler tool runs at once, in a tool round of the  *)
(* pipeline, while the report is still `received'.                         *)
Schedule(t) ==
  /\ wk = "run" /\ task[t] = "none"
  /\ task' = [task EXCEPT ![t] = "pending"]
  /\ sched' = [sched EXCEPT ![t] = "sleep"]
  /\ UNCHANGED <<ledger, status, process, req, worker, history>>

(* The pipeline has returned. *)
Answered ==
  /\ wk = "flush"
  /\ ids' = ids \ {cur}
  /\ GetNext
  /\ UNCHANGED <<database, process, req, tracked, sched, told, ahead, lost>>

(* Whoever waits for the worker goes on. *)
Release == sched' = [t \in Task |-> CASE sched[t] = "await" -> "run"
                                      [] sched[t] = "late" -> "last"
                                      [] OTHER -> sched[t]]

(* Mutant: a worker that ends leaves what came at the last moment.         *)
LeaveQueued == wk' = "off" /\ tracked' = FALSE /\ Release

(* The end of the worker: a queue that is not empty gets another, unless   *)
(* the scheduler stops.                                                    *)
Leave ==
  /\ IF queue # <<>> /\ up \notin {"stopping", "ending"}
     THEN wk' = "new" /\ tracked' = TRUE
     ELSE wk' = "off" /\ tracked' = FALSE
  /\ Release

(* No report for SERVICE_WORKER_IDLE_SECONDS; one may arrive as the time   *)
(* runs out.                                                               *)
Idle ==
  /\ wk = "wait"
  /\ Leave
  /\ UNCHANGED <<database, process, req, queue, ids, cur, history>>

(* cancel() reaches the worker.  One that was never started ends without   *)
(* its cleanup.  A second cancellation may cut off what the first has      *)
(* begun: the pipeline's handler before it has written, or the worker's.   *)
WorkerCancelled ==
  /\ \/ wk = "new" /\ wk' = "off"
     \/ wk = "wait" /\ wk' = "leave"
     \/ wk = "run" /\ wk' = "undo"
     \/ wk = "flush" /\ wk' = "leave"
     \/ wk = "undo" /\ wk' \in {"undo", "leave"}
     \/ wk = "restore" /\ wk' \in {"restore", "leave"}
     \/ wk \in {"off", "leave"} /\ UNCHANGED wk
  /\ lost' = IF wk = "restore" /\ wk' = "leave" THEN lost \cup {cur} ELSE lost

(* The pipeline's handler of the cancellation. *)
Undo ==
  /\ wk = "undo"
  /\ status' = [status EXCEPT ![cur] = "cancelled"]
  /\ wk' = "restore"
  /\ UNCHANGED <<ledger, task, process, req, queue, ids, cur, tracked, sched, history>>

(* The worker's: a cancelled report is received again. *)
Restore ==
  /\ wk = "restore"
  /\ status' = [status EXCEPT ![cur] = "received"]
  /\ wk' = "leave"
  /\ UNCHANGED <<ledger, task, process, req, queue, ids, cur, tracked, sched, history>>

(* The finally blocks of a worker that was cancelled. *)
WorkerLeaves ==
  /\ wk = "leave"
  /\ ids' = ids \ {cur} /\ cur' = None
  /\ Leave
  /\ UNCHANGED <<database, process, req, queue, history>>

-----------------------------------------------------------------------------
(* The scheduled tasks. *)

(* _scheduled_sleep_and_fire: it is due. *)
Due(t) ==
  /\ sched[t] = "sleep"
  /\ task' = [task EXCEPT ![t] = "running"]
  /\ sched' = [sched EXCEPT ![t] = "fire"]
  /\ UNCHANGED <<ledger, status, process, req, worker, history>>

(* _fire_scheduled_task: cancel_user takes the worker out of _tasks,       *)
(* cancels it and waits for it.                                            *)
Fire(t) ==
  /\ sched[t] = "fire"
  /\ IF tracked
     THEN /\ tracked' = FALSE /\ WorkerCancelled
          /\ displaced' = displaced \cup (CASE wk = "new" -> ToSet(queue)
                                            [] wk = "run" -> {cur}
                                            [] OTHER -> {})
          /\ sched' = [sched EXCEPT ![t] = IF wk' = "off" THEN "run" ELSE "await"]
     ELSE /\ sched' = [sched EXCEPT ![t] = "run"]
          /\ UNCHANGED <<tracked, wk, displaced, lost>>
  /\ UNCHANGED <<database, process, req, queue, ids, cur, told, ahead>>

(* Its own pipeline has ended. *)
TaskEnds(t, as) ==
  /\ sched[t] \in {"run", "last"}
  /\ task' = [task EXCEPT ![t] = as]
  /\ sched' = [sched EXCEPT ![t] = "off"]
  /\ UNCHANGED <<ledger, status, process, req, worker, history>>

-----------------------------------------------------------------------------
(* The process. *)

(* main.run is cancelled: the ingress is closed. *)
Close ==
  /\ up = "up" /\ stops < MaxStop
  /\ up' = "closing" /\ stops' = stops + 1
  /\ UNCHANGED <<database, crashes, req, worker, sched, history>>

(* shutdown, when the requests are answered: every scheduled task is       *)
(* cancelled.  One that waits for the worker passes the cancellation on to *)
(* it, and goes on.                                                        *)
Shutdown ==
  /\ up = "closing" /\ \A q \in Request : req[q] \in {"new", "over"}
  /\ up' = "stopping"
  /\ sched' = [t \in Task |-> IF sched[t] = "await" THEN "late" ELSE "off"]
  /\ IF \E t \in Task : sched[t] = "await" THEN WorkerCancelled ELSE UNCHANGED <<wk, lost>>
  /\ UNCHANGED <<database, stops, crashes, req, queue, ids, cur, tracked, told, ahead, displaced>>

(* cancel_user, for every conversation. *)
StopWorker ==
  /\ up = "stopping" /\ \A t \in Task : sched[t] \notin {"late", "last"}
  /\ tracked
  /\ tracked' = FALSE /\ WorkerCancelled
  /\ up' = "ending"
  /\ UNCHANGED <<database, stops, crashes, req, queue, ids, cur, sched, told, ahead, displaced>>

Forget ==
  /\ up' = "down"
  /\ req' = [q \in Request |-> IF req[q] = "new" THEN "new" ELSE "over"]
  /\ queue' = <<>> /\ ids' = {} /\ wk' = "off" /\ cur' = None /\ tracked' = FALSE
  /\ sched' = [t \in Task |-> "off"]
  /\ displaced' = {}
  /\ lost' = IF wk = "restore" THEN lost \cup {cur} ELSE lost

(* The store is closed, the process ends. *)
Exit ==
  /\ \/ up = "ending" /\ wk = "off"
     \/ up = "stopping" /\ ~tracked /\ \A t \in Task : sched[t] \notin {"late", "last"}
  /\ Forget
  /\ UNCHANGED <<database, stops, crashes, told, ahead>>

Crash ==
  /\ up # "down" /\ crashes < MaxCrash
  /\ crashes' = crashes + 1
  /\ Forget
  /\ UNCHANGED <<database, stops, told, ahead>>

(* The order of `sequence'. *)
Before(e, r) == \E m, n \in DOMAIN ledger : m < n /\ ledger[m] = e /\ ledger[n] = r

(* get_pending_service_events: in the order of their sequence.             *)
PendingEvents ==
  LET received == {r \in Report : status[r] = "received"}
  IN {q \in [1..Cardinality(received) -> received] :
        /\ ToSet(q) = received
        /\ \A m, n \in DOMAIN q : m < n => Before(q[m], q[n])}

(* startup: what is still received is queued in the order of its arrival,  *)
(* and every task that has not ended sleeps again; then the ingress opens. *)
Start ==
  /\ up = "down"
  /\ up' = "up"
  /\ queue' \in PendingEvents
  /\ ids' = ToSet(queue')
  /\ IF queue' # <<>> THEN wk' = "new" /\ tracked' = TRUE ELSE UNCHANGED <<wk, tracked>>
  /\ sched' = [t \in Task |-> IF task[t] \in {"pending", "running"} THEN "sleep" ELSE "off"]
  /\ UNCHANGED <<database, stops, crashes, req, cur, history>>

-----------------------------------------------------------------------------
Serve == \E q \in Request : Refuse(q) \/ Look(q) \/ Store(q) \/ Put(q)

Work ==
  \/ Take \/ Answered \/ Undo \/ Restore \/ WorkerLeaves
  \/ \E as \in {"finalized", "error"} : Finalize(as)

Fires == \E t \in Task : Fire(t) \/ \E as \in {"done", "error"} : TaskEnds(t, as)

Stop == Shutdown \/ StopWorker \/ Exit

Next ==
  \/ \E q \in Request : Arrive(q)
  \/ Serve \/ Work \/ Idle \/ Fires
  \/ \E t \in Task : Schedule(t) \/ Due(t)
  \/ Close \/ Stop \/ Crash \/ Start

(* Whatever has begun goes on, and the process is started again.  Nobody   *)
(* has to send a report, to schedule a task or to stop the process.        *)
Spec ==
  /\ Init /\ [][Next]_vars
  /\ WF_vars(Serve) /\ WF_vars(Work) /\ WF_vars(Fires) /\ WF_vars(Stop) /\ WF_vars(Start)
-----------------------------------------------------------------------------
(* What must hold. *)

Begins(r) == wk # "run" /\ wk' = "run" /\ cur' = r

(* However often a report is sent, and whatever restarts in between, no    *)
(* turn begins for one that has been answered (dispatch_service_event,     *)
(* _retry_received, startup).                                              *)
AnsweredOnce == [][\A r \in Report : Begins(r) => status[r] = "received"]_vars

(* A report that was accepted before another was stored is answered        *)
(* before it, also by the worker of a later process (_run_service_queue,   *)
(* startup; current-design.md: a per-service FIFO worker, to which the     *)
(* ordinary same-key cancellation does not apply).  The code breaks this   *)
(* for a report whose worker a scheduled task cancels; it is excepted.     *)
FirstComeFirst ==
  [][\A r \in Report : Begins(r) =>
       \A e \in ahead[r] : status[e] = "received" => e \in displaced]_vars

(* Every stored report is answered in the end, over retries, idle workers, *)
(* stops and crashes: no report stays queued without a worker, or received *)
(* without a queue.  Excepted are two the code loses against the words of  *)
(* current-design.md: one a scheduled task has taken away, and one whose   *)
(* restoration after a graceful cancellation was cut off.                  *)
Attended ==
  []<>(\A r \in Report : status[r] \in {"received", "cancelled"} => r \in displaced \cup lost)

=============================================================================
