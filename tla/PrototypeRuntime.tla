-------------------------- MODULE PrototypeRuntime --------------------------
(***************************************************************************)
(* One conversation of the prototype runtime of the V3 archive             *)
(* (prototype/runtime.py, prototype/storage.py): a chat task answers the   *)
(* inputs in short turns, a worker runs durable background jobs, and every *)
(* send or tool that has begun is a task of its own which nothing cancels. *)
(*                                                                         *)
(* asyncio runs one task at a time between two awaits, so an action here   *)
(* is the code up to the next await that another task can get between, or  *)
(* a section under Conversation.lock; the one section the worker can reach *)
(* into (a change of a job, _manage_task) is two actions and holds `lock'. *)
(* A new input supersedes the turn and cancels its chat task; a job still  *)
(* running when the process ends is of unknown effect and is not resumed.  *)
(***************************************************************************)
EXTENDS Naturals, Sequences, FiniteSets, SequencesExt

CONSTANTS
  Input,                   \* the inputs people send to the conversation
  Addressed,               \* those sent with notify, which ask for a waiting notice
  MaxJob,                  \* bound: rows of prototype_jobs
  MaxBatch,                \* messages of one reply
  MaxStep,                 \* max_worker_steps
  MaxCall,                 \* tool calls of one worker round
  MaxCrash                 \* bound: ends of the process

ASSUME PrototypeAssumption ==
  /\ Addressed \subseteq Input
  /\ MaxJob \in Nat /\ MaxBatch \in Nat /\ MaxStep \in Nat /\ MaxCall \in Nat /\ MaxCrash \in Nat

Job == 1..MaxJob           \* in the order of created_at
Terminal == {"completed", "failed", "cancelled", "unknown"}
JobStatus == Terminal \cup {"none", "queued", "running"}
InputStatus == {"none", "received", "cancelled", "responded", "no_reply", "error"}

VARIABLES
  \* the database
  status,                  \* events: the status of each inbound row
  st,                      \* prototype_jobs: status
  made,                    \* the inputs a job was created from
  refs,                    \* input_event_ids: those and the inputs that changed it
  delivered,               \* the jobs whose report has been handed over
  ran,                     \* the jobs with a worker_tool_call row
  open,                    \* a send_started row is without its send_result
  \* the process
  up, crashes,
  pending, results, allow, \* Conversation: pending, results, allow_tools
  quiet,                   \* the inputs of `pending' without notify: those recovered
  lock,                    \* the job _manage_task is about to change, 0 when the lock is free
  turn,                    \* Conversation.turn
  cpc,                     \* where the chat task is
  op,                      \* the operation of the turn on background jobs
  flight,                  \* the send that holds send_lock
  fate,                    \* the status _finish_input will write
  wpc, work,               \* where the worker is, and its Work
  \* history
  told,                    \* jobs of which a turn saw a whole batch acknowledged
  unheard                  \* inputs no valid turn has taken in

database == <<status, st, made, refs, delivered, ran, open>>
jobs == <<st, made, refs>>
conv == <<pending, results, allow, quiet>>
chat == <<turn, cpc, op, fate>>
worker == <<wpc, work>>
process == <<up, crashes>>
history == <<told, unheard>>
vars == <<status, st, made, refs, delivered, ran, open, up, crashes, pending, results, allow, quiet,
          lock, turn, cpc, op, flight, fate, wpc, work, told, unheard>>

(* `late' is the chat timeout, noticed: time passes anywhere, and what     *)
(* matters is who looks at the clock.  `batch' are the messages of the     *)
(* reply, `sent' those acknowledged; `saw' is what _publish_reply is told  *)
(* of the notice; `about' the job whose result woke the chat.              *)
NoTurn == [on |-> FALSE, inputs |-> {}, about |-> {}, notify |-> FALSE, superseded |-> FALSE,
           late |-> FALSE, out |-> FALSE, silent |-> FALSE, valid |-> FALSE, claimed |-> FALSE,
           waited |-> FALSE, waiting |-> FALSE, saw |-> FALSE, rewrites |-> 0, batch |-> 0, sent |-> 0,
           failed |-> FALSE]

(* A turn of inputs some of which ask for a notice, or of a result.        *)
NewTurn(inputs, about) ==
  [NoTurn EXCEPT !.on = TRUE, !.inputs = inputs, !.about = about,
                 !.notify = ((inputs \cap Addressed) \ quiet # {})]

(* What is still looked at once the reply is taken: no notice can start    *)
(* any more and nobody waits for one.                                      *)
Past(t) == [t EXCEPT !.claimed = FALSE, !.waited = FALSE, !.waiting = FALSE, !.saw = FALSE,
                     !.rewrites = 0]

(* What is still looked at of a turn that ends, or has given its reply up. *)
Ended(t) == [NoTurn EXCEPT !.on = t.on, !.inputs = t.inputs, !.superseded = t.superseded, !.late = TRUE]

(* What is still looked at of a turn that failed: who is to be told. *)
Failed(t) == [Ended(t) EXCEPT !.notify = t.notify]

NoWork == [job |-> 0, restart |-> FALSE, stop |-> FALSE, steps |-> 0, calls |-> 0]

NoSend == [kind |-> "none", current |-> FALSE]

TypeOK ==
  /\ status \in [Input -> InputStatus] /\ st \in [Job -> JobStatus]
  /\ made \in [Job -> SUBSET Input] /\ refs \in [Job -> SUBSET Input]
  /\ delivered \subseteq Job /\ ran \subseteq Job /\ open \in BOOLEAN
  /\ up \in {"up", "closing", "down"} /\ crashes \in 0..MaxCrash
  /\ pending \subseteq Input /\ results \in Seq(Job) /\ allow \in BOOLEAN
  /\ quiet \subseteq Input
  /\ lock \in 0..MaxJob
  /\ turn \in [on: BOOLEAN, inputs: SUBSET Input, about: SUBSET Job, notify: BOOLEAN,
               superseded: BOOLEAN, late: BOOLEAN, out: BOOLEAN, silent: BOOLEAN, valid: BOOLEAN,
               claimed: BOOLEAN, waited: BOOLEAN, waiting: BOOLEAN, saw: BOOLEAN, rewrites: Nat,
               batch: 0..MaxBatch, sent: 0..MaxBatch, failed: BOOLEAN]
  /\ cpc \in {"off", "ask", "op", "publish", "send", "settle", "judge", "error", "finish", "over"}
  /\ op \in {"none", "start", "update", "cancel", "status", "done"}
  /\ flight \in [kind: {"none", "reply", "waiting", "error"}, current: BOOLEAN]
  /\ fate \in [Input -> InputStatus]
  /\ wpc \in {"off", "loop", "ask", "act", "tool", "doubt", "report", "reported", "done"}
  /\ work \in [job: 0..MaxJob, restart: BOOLEAN, stop: BOOLEAN, steps: 0..MaxStep, calls: 0..MaxCall]
  /\ told \subseteq Job /\ unheard \subseteq Input

-----------------------------------------------------------------------------
(* The process. *)

(* What a process starts from: nothing but the database. *)
Forget ==
  /\ pending' = {} /\ results' = <<>> /\ allow' = TRUE /\ lock' = 0
  /\ quiet' = {}
  /\ turn' = NoTurn /\ cpc' = "off" /\ op' = "none" /\ flight' = NoSend
  /\ fate' = [i \in Input |-> "none"] /\ wpc' = "off" /\ work' = NoWork /\ unheard' = {}

Init ==
  /\ status = [i \in Input |-> "none"] /\ st = [j \in Job |-> "none"]
  /\ made = [j \in Job |-> {}] /\ refs = [j \in Job |-> {}]
  /\ delivered = {} /\ ran = {} /\ open = FALSE /\ up = "up" /\ crashes = 0
  /\ pending = {} /\ results = <<>> /\ allow = TRUE /\ quiet = {} /\ lock = 0 /\ turn = NoTurn
  /\ cpc = "off"
  /\ op = "none" /\ flight = NoSend /\ fate = [i \in Input |-> "none"]
  /\ wpc = "off" /\ work = NoWork /\ told = {} /\ unheard = {}

Crash ==
  /\ up # "down" /\ crashes < MaxCrash
  /\ up' = "down" /\ crashes' = crashes + 1
  /\ Forget
  /\ UNCHANGED <<database, told>>

(* The jobs a list of which is read back, in order. *)
InOrder(S) ==
  CHOOSE s \in [1..Cardinality(S) -> S] : \A m, n \in DOMAIN s : m < n => s[m] < s[n]

(* Mutant: what was running is queued once more.                           *)
RecoverQueued == st' = [j \in Job |-> IF st[j] = "running" THEN "queued" ELSE st[j]]

(* recover_jobs: what was running is unknown; nothing undelivered is       *)
(* dropped.                                                                *)
RecoverJobs == st' = [j \in Job |-> IF st[j] = "running" THEN "unknown" ELSE st[j]]

(* Mutant: every received input is heard again, taken in by a job or not.  *)
StartForgetful ==
  /\ up = "down"
  /\ RecoverJobs
  /\ pending' = {i \in Input : status[i] = "received"} /\ unheard' = pending'
  /\ quiet' = pending'
  /\ allow' = (pending' = {})
  /\ results' = InOrder({j \in Job : st'[j] \notin {"none", "queued"} /\ j \notin delivered})
  /\ open' = FALSE
  /\ up' = "up"
  /\ UNCHANGED <<status, made, refs, delivered, ran, crashes, lock, chat, flight, worker, told>>

(* An input that a job has taken in is not heard again; the rest of those  *)
(* received is, without a notice.  A send without a receipt gets one that  *)
(* says unknown.                                                           *)
Start ==
  /\ up = "down"
  /\ RecoverJobs
  /\ LET accepted == UNION {refs[j] : j \in Job}
         received == {i \in Input : status[i] = "received"}
         again == received \ accepted
     IN /\ status' = [i \in Input |-> IF i \in received \cap accepted THEN "cancelled" ELSE status[i]]
        /\ pending' = again /\ unheard' = again /\ quiet' = again
        /\ allow' = (again = {})
  /\ results' = InOrder({j \in Job : st'[j] \notin {"none", "queued"} /\ j \notin delivered})
  /\ open' = FALSE
  /\ up' = "up"
  /\ UNCHANGED <<made, refs, delivered, ran, crashes, lock, chat, flight, worker, told>>

(* cancel() reaches the chat task: its await raises, and the status that   *)
(* _chat_turn ends with is `as' - unless it was ending already, or it was  *)
(* reporting an error.  In _finish_input it leaves the cleanup behind.     *)
ChatCancelled(as) ==
  LET ends == cpc \in {"ask", "op", "publish", "send", "settle", "judge", "error"}
  IN /\ cpc' = IF ends THEN "finish" ELSE IF cpc = "finish" THEN "over" ELSE cpc
     /\ fate' = IF ends THEN [i \in Input |-> IF i \notin turn.inputs THEN fate[i]
                                              ELSE IF cpc = "error" THEN "error" ELSE as]
                ELSE fate
     /\ turn' = IF turn.on THEN Ended([turn EXCEPT !.superseded = TRUE]) ELSE turn

(* close: the chat and the worker are cancelled, what they began is not. *)
Close ==
  /\ up = "up" /\ crashes < MaxCrash
  /\ up' = "closing" /\ allow' = TRUE
  /\ ChatCancelled("received")
  /\ st' = IF wpc \notin {"off", "done"} THEN [st EXCEPT ![work.job] = "unknown"] ELSE st
  /\ wpc' = "off" /\ work' = NoWork
  /\ UNCHANGED <<status, made, refs, delivered, ran, open, crashes, pending, results, quiet, lock, op,
                 flight, history>>

(* The process ends when the started actions have written their receipts. *)
Exit ==
  /\ up = "closing" /\ flight = NoSend /\ lock = 0 /\ \A i \in Input : fate[i] = "none"
  /\ up' = "down" /\ crashes' = crashes + 1
  /\ Forget
  /\ UNCHANGED <<database, told>>

-----------------------------------------------------------------------------
(* The chat. *)

(* submit: the input is durable, the turn superseded, its chat task        *)
(* cancelled unless that was done before, and every report nobody has      *)
(* heard is queued again.                                                  *)
Submit(i) ==
  /\ up = "up" /\ lock = 0 /\ status[i] = "none"
  /\ status' = [status EXCEPT ![i] = "received"]
  /\ pending' = pending \cup {i} /\ unheard' = unheard \cup {i}
  /\ allow' = FALSE
  /\ results' = results \o InOrder({j \in Job : st[j] \in Terminal /\ j \notin delivered
                                                 /\ j \notin ToSet(results)})
  /\ IF turn.superseded THEN UNCHANGED <<turn, cpc, fate>> ELSE ChatCancelled("cancelled")
  /\ UNCHANGED <<jobs, delivered, ran, open, process, quiet, lock, op, flight, worker, told>>

Begin(inputs, about) ==
  /\ turn' = NewTurn(inputs, about)
  /\ cpc' = "ask" /\ op' = "none"

(* _chat_loop: all pending inputs make one turn. *)
TakeInputs ==
  /\ up = "up" /\ lock = 0 /\ ~turn.on /\ pending # {}
  /\ pending' = {} /\ quiet' = {}
  /\ Begin(pending, {})
  /\ UNCHANGED <<database, process, results, allow, lock, flight, fate, worker, history>>

(* Or, when nobody waits, one result does. *)
TakeResult ==
  /\ up = "up" /\ lock = 0 /\ ~turn.on /\ pending = {} /\ results # <<>>
  /\ results' = Tail(results)
  /\ IF Head(results) \in delivered THEN UNCHANGED <<turn, cpc, op>> ELSE Begin({}, {Head(results)})
  /\ UNCHANGED <<database, process, pending, allow, quiet, lock, flight, fate, worker, history>>

Ask == cpc' = "ask" /\ turn' = [turn EXCEPT !.saw = turn.waited, !.batch = 0]

(* pipeline, lane chat: the model calls the task tool, once in a turn of   *)
(* inputs.                                                                 *)
ModelCalls(kind) ==
  /\ cpc = "ask" /\ op = "none" /\ turn.inputs # {}
  /\ op' = kind /\ cpc' = "op"
  /\ UNCHANGED <<database, process, conv, lock, turn, flight, fate, worker, history>>

(* The model returns an envelope of n messages that parses. *)
ModelReplies(n) ==
  /\ cpc = "ask"
  /\ turn' = [turn EXCEPT !.batch = n]
  /\ cpc' = "publish"
  /\ UNCHANGED <<database, process, conv, lock, op, flight, fate, worker, history>>

(* An answer that does not parse, or calls where none are allowed, is      *)
(* corrected once.                                                         *)
ModelRambles ==
  /\ cpc = "ask"
  /\ IF turn.rewrites = 0
     THEN cpc' = "ask" /\ turn' = [turn EXCEPT !.rewrites = 1, !.saw = turn.waited]
     ELSE cpc' = "error" /\ turn' = Failed(turn)
  /\ UNCHANGED <<database, process, conv, lock, op, flight, fate, worker, history>>

(* The model fails, or the chat timeout - received_at + chat_timeout -     *)
(* ends the pipeline where it is.                                          *)
Fails ==
  /\ cpc \in {"ask", "op", "publish", "send", "settle"}
  /\ cpc' = "error" /\ turn' = Failed(turn)
  /\ UNCHANGED <<database, process, conv, lock, op, flight, fate, worker, history>>

Stale == turn.superseded \/ pending # {}

(* create_job: a second job for the same inputs is not made.               *)
CreateJob ==
  IF \E j \in Job : made[j] = turn.inputs THEN UNCHANGED jobs
  ELSE \E j \in Job :
         /\ st[j] = "none" /\ \A k \in Job : k < j => st[k] # "none"
         /\ st' = [st EXCEPT ![j] = "queued"]
         /\ made' = [made EXCEPT ![j] = turn.inputs]
         /\ refs' = [refs EXCEPT ![j] = turn.inputs]

(* _manage_task under the lock.  It runs although the chat task that asked *)
(* for it may be gone.                                                     *)
OpBegin ==
  /\ op \in {"start", "update", "cancel", "status"} /\ lock = 0 /\ turn.on
  /\ LET active == {j \in Job : st[j] \in {"queued", "running"}}
     IN \/ /\ Stale \/ op = "status" \/ (op # "start" /\ active = {})
           /\ op' = "done"
           /\ UNCHANGED <<jobs, lock>>
        \/ /\ ~Stale /\ op = "start"
           /\ CreateJob
           /\ op' = "done"
           /\ UNCHANGED lock
        \/ /\ ~Stale /\ op \in {"update", "cancel"}
           /\ \E j \in active : lock' = j /\ \A k \in active : j <= k
           /\ UNCHANGED <<jobs, op>>
  /\ UNCHANGED <<status, delivered, ran, open, process, conv, turn, cpc, flight, fate, worker, history>>

(* The second half: the row takes the inputs, then the running Work is     *)
(* told and its model request cancelled, or a queued job is cancelled.     *)
OpCommit ==
  /\ lock # 0
  /\ refs' = [refs EXCEPT ![lock] = @ \cup turn.inputs]
  /\ IF work.job = lock
     THEN /\ work' = [work EXCEPT !.restart = TRUE, !.stop = (op = "cancel")]
          /\ wpc' = IF wpc = "ask" THEN "loop" ELSE wpc
          /\ UNCHANGED st
     ELSE /\ st' = IF op = "cancel" THEN [st EXCEPT ![lock] = "cancelled"] ELSE st
          /\ UNCHANGED worker
  /\ lock' = 0 /\ op' = "done"
  /\ UNCHANGED <<status, made, delivered, ran, open, process, conv, turn, cpc, flight, fate, history>>

(* The chat task sees its operation done and asks again. *)
OpSeen ==
  /\ cpc = "op" /\ op = "done"
  /\ IF turn.superseded THEN cpc' = "judge" /\ turn' = Ended(turn) ELSE Ask
  /\ UNCHANGED <<database, process, conv, lock, op, flight, fate, worker, history>>

(* _publish_reply: the reply is given up, waits for the receipt of a       *)
(* notice, is asked for again after one, or becomes the turn's output.     *)
Publish ==
  /\ cpc = "publish" /\ lock = 0
  /\ \/ /\ Stale
        /\ cpc' = "judge"
        /\ turn' = Ended(turn)
     \/ /\ ~Stale /\ ~turn.waiting
        /\ IF turn.waited /\ ~turn.saw
           THEN Ask
           ELSE /\ turn' = [Past(turn) EXCEPT !.out = (turn.batch > 0), !.silent = (turn.batch = 0),
                                              !.valid = TRUE]
                /\ cpc' = IF turn.batch > 0 THEN "send" ELSE "judge"
  /\ UNCHANGED <<database, process, conv, lock, op, flight, fate, worker, history>>

(* _deliver decides under both locks that the next message of a reply is   *)
(* still wanted and in time, and records that it starts; or drops the rest.*)
SendReply(late) ==
  /\ cpc = "send" /\ flight = NoSend /\ lock = 0
  /\ IF up # "up" \/ Stale \/ late
     THEN /\ turn' = [turn EXCEPT !.failed = TRUE]
          /\ cpc' = "judge"
          /\ UNCHANGED <<open, flight>>
     ELSE /\ flight' = [kind |-> "reply", current |-> TRUE]
          /\ open' = TRUE
          /\ UNCHANGED <<turn, cpc>>
  /\ UNCHANGED <<status, jobs, delivered, ran, process, conv, lock, op, fate, worker, history>>

(* The timer of an addressed input starts the waiting notice, once, and    *)
(* not after an output, a silence, or the deadline.                        *)
SendNotice ==
  /\ turn.notify /\ cpc # "over"
  /\ flight = NoSend /\ lock = 0 /\ up = "up"
  /\ ~Stale /\ ~turn.late /\ ~turn.out /\ ~turn.silent /\ ~turn.claimed
  /\ turn' = [turn EXCEPT !.claimed = TRUE, !.waiting = TRUE]
  /\ flight' = [kind |-> "waiting", current |-> TRUE]
  /\ open' = TRUE
  /\ UNCHANGED <<status, jobs, delivered, ran, process, conv, lock, cpc, op, fate, worker, history>>

(* Mutant: an input is written back only when it was answered.             *)
FinishAnswered(as) ==
  /\ cpc' = "finish"
  /\ turn' = Ended(turn)
  /\ fate' = [i \in Input |-> IF i \in turn.inputs /\ as = "responded" THEN as ELSE fate[i]]

Finish(as) ==
  /\ cpc' = "finish"
  /\ turn' = Ended(turn)
  /\ fate' = [i \in Input |-> IF i \in turn.inputs THEN as ELSE fate[i]]

(* _chat_turn reports the failure to somebody who waits for an answer. *)
SendError ==
  /\ cpc = "error" /\ flight = NoSend /\ lock = 0
  /\ IF up = "up" /\ ~Stale /\ turn.notify
     THEN /\ flight' = [kind |-> "error", current |-> TRUE]
          /\ open' = TRUE
          /\ UNCHANGED <<turn, cpc, fate>>
     ELSE /\ Finish("error")
          /\ UNCHANGED <<open, flight>>
  /\ UNCHANGED <<status, jobs, delivered, ran, process, conv, lock, op, worker, history>>

(* The send returns, fails or times out; the receipt is written in any     *)
(* case, and the turn that asked learns of it if it still is the turn.  A  *)
(* notice that arrived makes the model start over, if there is time.       *)
SendEnds(ok) ==
  /\ flight # NoSend
  /\ flight' = NoSend /\ open' = FALSE
  /\ \/ /\ ~flight.current \/ (flight.kind = "reply" /\ cpc # "send")
        /\ UNCHANGED <<turn, cpc, fate, told>>
     \/ /\ flight.current /\ flight.kind = "reply" /\ cpc = "send"
        /\ LET last == ok /\ turn.sent + 1 = turn.batch
           IN /\ turn' = IF ok THEN [turn EXCEPT !.sent = @ + 1] ELSE [turn EXCEPT !.failed = TRUE]
              /\ told' = IF last THEN told \cup turn.about ELSE told
              /\ cpc' = IF last THEN "settle" ELSE IF ok THEN "send" ELSE "judge"
        /\ UNCHANGED fate
     \/ /\ flight.current /\ flight.kind = "waiting" /\ ok /\ cpc = "ask"
        /\ Finish("cancelled")
        /\ UNCHANGED told
     \/ /\ flight.current /\ flight.kind = "waiting"
        /\ turn' = IF cpc \in {"judge", "error", "finish", "over"} THEN turn
                   ELSE [turn EXCEPT !.waiting = FALSE, !.waited = ok,
                                     !.saw = IF ok /\ cpc = "ask" THEN TRUE ELSE @]
        /\ UNCHANGED <<cpc, fate, told>>
     \/ /\ flight.current /\ flight.kind = "error"
        /\ IF cpc = "error" THEN Finish("error") ELSE UNCHANGED <<turn, cpc, fate>>
        /\ UNCHANGED told
  /\ UNCHANGED <<status, jobs, delivered, ran, process, conv, lock, op, worker, unheard>>

(* Mutant: the report is handed over while its messages are being sent.    *)
SettleEarly ==
  /\ cpc \in {"send", "settle"}
  /\ delivered' = delivered \cup turn.about
  /\ cpc' = IF cpc = "send" THEN cpc ELSE "judge"
  /\ UNCHANGED <<status, jobs, ran, open, process, conv, lock, turn, op, flight, fate, worker, history>>

(* A batch sent to its end hands over the report it was about. *)
Settle ==
  /\ cpc = "settle"
  /\ delivered' = delivered \cup turn.about
  /\ cpc' = "judge"
  /\ UNCHANGED <<status, jobs, ran, open, process, conv, lock, turn, op, flight, fate, worker, history>>

(* Mutant: the end of any turn lets the tools start again.                 *)
JudgeOpen ==
  /\ cpc = "judge" /\ lock = 0
  /\ LET as == IF turn.failed THEN "error" ELSE IF turn.sent > 0 THEN "responded"
               ELSE IF turn.valid /\ turn.silent THEN "no_reply" ELSE "error"
     IN /\ Finish(as)
        /\ allow' = (allow \/ ~Stale)
        /\ unheard' = IF turn.valid /\ as # "error" THEN pending ELSE unheard
  /\ UNCHANGED <<database, process, pending, results, quiet, lock, op, flight, worker, told>>

(* The pipeline has returned: what became of the turn, and whether tools   *)
(* may start again.                                                        *)
Judge ==
  /\ cpc = "judge" /\ lock = 0
  /\ LET as == IF turn.failed THEN "error" ELSE IF turn.sent > 0 THEN "responded"
               ELSE IF turn.valid /\ turn.silent THEN "no_reply" ELSE "error"
         heard == turn.valid /\ as # "error"
     IN /\ Finish(as)
        /\ allow' = (allow \/ (heard /\ ~Stale))
        /\ unheard' = IF heard THEN pending ELSE unheard
  /\ UNCHANGED <<database, process, pending, results, quiet, lock, op, flight, worker, told>>

(* _finish_input writes one row after the other. *)
WriteStatus(i) ==
  /\ fate[i] # "none"
  /\ status' = [status EXCEPT ![i] = fate[i]]
  /\ fate' = [fate EXCEPT ![i] = "none"]
  /\ UNCHANGED <<jobs, delivered, ran, open, process, conv, lock, turn, cpc, op, flight, worker,
                 history>>

(* _chat_loop: the turn is over; a send it began may not be. *)
EndTurn ==
  /\ turn.on /\ lock = 0
  /\ cpc = "over" \/ (cpc = "finish" /\ \A i \in turn.inputs : fate[i] = "none")
  /\ turn' = NoTurn /\ cpc' = "off" /\ op' = "none"
  /\ flight' = [flight EXCEPT !.current = FALSE]
  /\ UNCHANGED <<database, process, conv, lock, fate, worker, history>>

-----------------------------------------------------------------------------
(* The worker. *)

(* _work_loop: the oldest queued job is run. *)
Pick ==
  /\ up = "up" /\ lock = 0 /\ wpc = "off"
  /\ \E j \in Job :
       /\ st[j] = "queued" /\ \A k \in Job : st[k] = "queued" => j <= k
       /\ st' = [st EXCEPT ![j] = "running"]
       /\ work' = [NoWork EXCEPT !.job = j]
  /\ wpc' = "loop"
  /\ UNCHANGED <<status, made, refs, delivered, ran, open, process, conv, lock, chat, flight, history>>

(* pipeline, lane worker: another round, or the end of the rounds. *)
WorkLoop ==
  /\ wpc = "loop"
  /\ IF work.stop \/ work.steps = MaxStep
     THEN /\ st' = IF st[work.job] = "unknown" THEN st
                   ELSE [st EXCEPT ![work.job] = IF work.stop THEN "cancelled" ELSE "failed"]
          /\ wpc' = "done"
          /\ UNCHANGED work
     ELSE /\ wpc' = "ask"
          /\ work' = [work EXCEPT !.restart = FALSE, !.steps = @ + 1]
          /\ UNCHANGED st
  /\ UNCHANGED <<status, made, refs, delivered, ran, open, process, conv, lock, chat, flight, history>>

(* The model asks for tools, reports, or fails. *)
WorkAnswer ==
  /\ wpc = "ask"
  /\ \/ \E n \in 1..MaxCall : work' = [work EXCEPT !.calls = n] /\ wpc' = "act" /\ UNCHANGED st
     \/ wpc' = "report" /\ UNCHANGED <<work, st>>
     \/ wpc' = "done" /\ st' = [st EXCEPT ![work.job] = "failed"] /\ UNCHANGED work
  /\ UNCHANGED <<status, made, refs, delivered, ran, open, process, conv, lock, chat, flight, history>>

(* _worker_action up to its row: not while an input waits to be heard, and *)
(* not for a job that changed meanwhile.                                   *)
ToolStart ==
  /\ wpc = "act" /\ ~work.restart /\ ~work.stop
  /\ allow /\ lock = 0 /\ pending = {}
  /\ ran' = ran \cup {work.job}
  /\ wpc' = "tool"
  /\ UNCHANGED <<status, jobs, delivered, open, process, conv, lock, chat, flight, work, history>>

(* Mutant: the last call of a round is followed by another.                *)
CallOverAgain == work' = [work EXCEPT !.calls = @ - 1] /\ wpc' = "act"

CallOver ==
  /\ work' = [work EXCEPT !.calls = @ - 1]
  /\ wpc' = IF work.calls = 1 THEN "loop" ELSE "act"

(* The call is skipped, or refused: not a tool of the worker, or a tool    *)
(* that has failed three times.                                            *)
NextCall ==
  /\ wpc = "act"
  /\ work.restart \/ work.stop \/ (allow /\ lock = 0 /\ pending = {})
  /\ CallOver
  /\ UNCHANGED <<database, process, conv, lock, chat, flight, history>>

(* The tool returns, or times out with an unknown effect. *)
ToolEnds(known) ==
  /\ wpc = "tool"
  /\ IF known THEN CallOver ELSE work' = [work EXCEPT !.stop = TRUE] /\ wpc' = "doubt"
  /\ UNCHANGED <<database, process, conv, lock, chat, flight, history>>

DoubtSaved ==
  /\ wpc = "doubt"
  /\ st' = [st EXCEPT ![work.job] = "unknown"]
  /\ CallOver
  /\ UNCHANGED <<status, made, refs, delivered, ran, open, process, conv, lock, chat, flight, history>>

(* The report is kept only for what was asked: a change while it waits for *)
(* the chat starts another round.                                          *)
Report ==
  /\ wpc = "report"
  /\ IF work.restart \/ work.stop
     THEN wpc' = "loop" /\ UNCHANGED st
     ELSE /\ allow /\ lock = 0 /\ pending = {}
          /\ st' = [st EXCEPT ![work.job] = "completed"]
          /\ wpc' = "reported"
  /\ UNCHANGED <<status, made, refs, delivered, ran, open, process, conv, lock, chat, flight, work,
                 history>>

Reported ==
  /\ wpc = "reported"
  /\ wpc' = "done"
  /\ UNCHANGED <<database, process, conv, lock, chat, flight, work, history>>

(* _work_loop: the result wakes the chat. *)
WorkDone ==
  /\ wpc = "done" /\ lock = 0
  /\ results' = IF work.job \in delivered \cup ToSet(results) THEN results
                ELSE Append(results, work.job)
  /\ wpc' = "off" /\ work' = NoWork
  /\ UNCHANGED <<database, process, pending, allow, quiet, lock, chat, flight, history>>

-----------------------------------------------------------------------------
ChatStep ==
  \/ TakeInputs \/ TakeResult
  \/ \E kind \in {"start", "update", "cancel", "status"} : ModelCalls(kind)
  \/ \E n \in 0..MaxBatch : ModelReplies(n)
  \/ ModelRambles \/ Fails
  \/ OpBegin \/ OpCommit \/ OpSeen \/ Publish
  \/ SendError \/ Settle \/ Judge \/ EndTurn
  \/ \E b \in BOOLEAN : SendEnds(b) \/ SendReply(b)
  \/ \E i \in Input : WriteStatus(i)

WorkStep ==
  \/ Pick \/ WorkLoop \/ WorkAnswer \/ ToolStart \/ NextCall \/ DoubtSaved
  \/ Report \/ Reported \/ WorkDone
  \/ \E known \in BOOLEAN : ToolEnds(known)

Next ==
  \/ ChatStep \/ WorkStep
  \/ \E i \in Input : Submit(i)
  \/ SendNotice
  \/ Close \/ Exit \/ Crash \/ Start

(* The chat and its sends go on: each await of theirs ends by itself or by *)
(* a timeout, and the process is started again.                            *)
Spec ==
  /\ Init /\ [][Next]_vars
  /\ WF_vars(ChatStep) /\ WF_vars(Exit) /\ WF_vars(Start)
-----------------------------------------------------------------------------
(* What must hold. *)

(* Task creation is not repeated: whatever is cancelled, asked for again   *)
(* or regrouped after a restart, an input starts at most one job           *)
(* (request_key, _manage_task, start).                                     *)
OneJobPerInput == \A j, k \in Job : j # k => made[j] \cap made[k] = {}

(* While an input waits to be heard no tool of the background work starts; *)
(* a chat that failed does not release it (allow_tools).  That holds for   *)
(* one process: a restart closes the gate only for inputs it finds         *)
(* received, and an input whose chat had failed no longer keeps it closed. *)
ToolsWait == [][(wpc # "tool" /\ wpc' = "tool") => unheard = {}]_vars

(* A job of which a tool has begun is never in the queue again, whatever   *)
(* ends the process: its effect is unknown and it is not redone            *)
(* (recover_jobs, close).                                                  *)
NoneRedone == \A j \in Job : st[j] = "queued" => j \notin ran

(* A report counts as handed over only when every message of one reply     *)
(* about it was acknowledged.                                              *)
ToldWhole == delivered \subseteq told

(* Every input is attended to in the end, also after it was superseded, or *)
(* the process stopped while it was being answered.                        *)
InputSettles == []<>(\A i \in Input : status[i] # "received")

=============================================================================
