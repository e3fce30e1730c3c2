# A verification project for Mutsumi's SYNC

TLA+ models of the two generations of the system in this repository - the V4
runtime in `src/src/` (Rust) and the V3 archive in `src/archive/v3/` (Python) -,
the TLC runs that check them on small instances, and TLAPS proofs of what matters
most for every instance. Paths in the text are relative to the repository; those
that begin with `src/` in `PROJECT.json` are the same with one `src/` in front.

## 1. The system

SYNC is an assistant that lives in a private mailbox.

**V4.** Events arrive from a web page, from QQ and from registered reports; an
attention loop runs one *turn* at a time over what is pending; a turn asks a model in
rounds, and executes the messages and tool calls the model proposes, each behind an
independent review. Everything durable is in one SQLite *ledger*; the process may be
killed anywhere and is started again by the service manager.

| component | state it keeps | operations | hard behaviour | what makes it correct |
|---|---|---|---|---|
| execution boundary `executor.rs`, `ledger.rs` | tables `reviews`, `actions`, result events; the outside world | validate, snapshot, review, begin, request, finish, recover | calls interleave with facts, cancellation, ledger failures, crashes | at most one request per action, start durable first, start only on reviewed facts, one true and final receipt |
| turn loop `runtime.rs`, `ledger.rs` | `rounds`, `projections`, `projected_events`; the live request | load, route, refresh, ask, record, execute, save, end | a round half done at a crash or a ledger error; facts in the middle of a round | native call/result pairs complete and true; nothing projected is hidden or told twice; no start in doubt; the turn ends |
| attention loop and ingress `web/mod.rs`, `web/routes.rs`, `scheduler.rs`, `ledger_stream.rs`, `reporting.rs` | events, ingress ids, attention cursor, pause flag in memory and in the cache, a `Notify`, handlers, background jobs | ingest, wake, lift, park, run a turn, checkpoint, pause, restart | check-then-wait, two copies of a flag, dropped handlers, crash between turn and checkpoint | checkpoint covers only what was read; a committed pause holds; no lost wake-up; nothing answered twice but after a lost checkpoint |
| control plane `web/roles.rs`, `web/models.rs`, `web/routes.rs` | role book, model settings, QQ switch; profile in the ledger | save roles, save model, switch QQ, decide on a QQ event | durable write before memory, stale book across awaits | memory follows the profile; versions never fork |
| media store `media.rs` | object files, media rows | register, describe, read for a target | look-up, create, write, insert with two callers or a crash | a row implies its bytes; a grant never grows |
| vision cache `vision.rs` | cache rows, weak locks, three slots | observe | single flight, errors, slots | at most one model call per key at a time; slots come back |
| render worker `rendering.rs`, `workers/md2svg` | a child process, its pipe, eight queue slots | render, shut down | timeout, late answer, dropped caller | an answer belongs to its request; slots come back |
| report registry `reporting.rs` | `report_events` | register, enable, receive | enable racing receive, capacity | a disabled event accepts nothing afterwards |
| transports `napcat.rs`, `onebot.rs`, `simulator.rs`, `sender.rs` | credentials, uploads | send, resolve | accept then fail | classed honestly at the execution boundary |
| router, quick replies, scripts `routing.rs`, `jev.rs` | none | route, interpret | pure | |
| tools and workspace `tools.rs`, `workspace.rs` | files, a sandboxed process | bash, edit, wait, clock | timeout against exit, edit lock | an interrupted command is of unknown effect |
| model provider and reviewer `provider.rs`, `review.rs` | none | complete | failure | |
| web sessions, configuration, start, playground, benchmark, deployment | sessions; none | | | |

Handlers of the web service commit to the ledger and wake the attention loop through
`Ingress::changed`; the loop calls `Scheduler::step`, which runs
`Runtime::run_pending`; a turn calls `Executor::execute` for every action and the
projection functions of the ledger between them; the executor calls the sender or a
tool. The control plane excludes a running turn by the lock `control`. Media jobs run
beside all of it and come back as events.

**V3.** The former system is one asyncio process over one SQLite database. A QQ
receiver and an HTTP ingress hand inputs to a *scheduler*, which keeps one task per
user and one worker per service; each runs the *pipeline* for one turn; what a turn
leaves behind is rows, a working window and summaries. The *prototype runtime* is a
second design in the same tree: a chat task that always answers soon, and a worker
that runs durable background jobs.

| component | state it keeps | operations | hard behaviour | what makes it correct |
|---|---|---|---|---|
| pipeline `pipeline.py` | input row, event, calls and results, action ledger, staged writes, journal; locals of the turn | store input, ask, execute or stage calls, send, settle, undo, commit what was staged | cancellation at any await, also of the cleanup; a send acknowledged and not yet recorded; answers rejected and rewritten | staged writes happen once; ledger, row, window and journal agree on what the user was told |
| scheduler and conversation `scheduler.py`, `window.py`, `memory/store.py`, `pipeline.py` | `_tasks`, debounce, window with its coverage, summaries, scheduled tasks | dispatch text, image, task, heartbeat; cancel and wait; compact; restore | turns that overlap, a compaction cancelled half way, a capped restoration, crash | a summary claims only what it summarises; nothing answered is forgotten; one turn at a time |
| service ingress and worker `ingress.py`, `scheduler.py` | events of reports, queue and id set, worker task, scheduled tasks | receive, deduplicate, queue, answer, idle out, cancel, stop, recover | retries of the sender, worker that ends while something is queued, a task that cancels the worker | answered once, in order, none for ever waiting |
| prototype runtime `prototype/runtime.py`, `prototype/storage.py` | inbound events, jobs, sends, conversation, chat task, worker | submit, answer, waiting notice, start/update/cancel/inspect a job, run its tools, report, stop, recover | superseded turns whose sends go on, unknown outcomes, changes of a job while its tool runs | one job per input; no tool is redone or starts over an unheard input; a report is told whole; inputs settle |
| memory store `memory/store.py` | all tables | | | modelled where the others use it |
| dashboard, configuration, receiver, projections, episodes | | | an episode timer removes its successor | |

`PROJECT.json` lists every component with its status, and under `hazards` the places
where this code is hard to test, each with the properties that cover it or with the
reason why none does.

## 2. The modules

| module | models | built on |
|---|---|---|
| `ActionLifecycle` | what the boundary promises of one action: authorised, attempted at most once, settled once and truly | |
| `ExecutionGate` | `Executor::execute` over `actions`, `reviews` and fact events | implements `ActionLifecycle` |
| `TurnLoop` | `Runtime::run_inner`, `Ledger::history`, `round`, `save_history` | abstracts `ExecutionGate` to start and outcome |
| `Attention` | `WebState::work`, `submit`, `qq_event`, `Ingress`, `EventRegistry::receive`, `Scheduler::step`, the cursor | abstracts `TurnLoop` to what a turn read, projected, and how it ended |
| `ControlPlane` | `save_roles`, `save_model_settings`, `napcat_enabled`, the decision of `qq_event`, `profile_for`, `WebState::build` | abstracts `Attention` to a turn that holds `control` |
| `V3Pipeline` | `pipeline()` and `_flush_pending_writes` of one turn | |
| `V3Conversation` | the dispatchers and `cancel_user` of the scheduler, the window, compaction, startup | abstracts `V3Pipeline` to the steps that touch the memory |
| `V3Ingress` | `_handle_client`, `dispatch_service_event`, `_run_service_queue`, scheduled tasks, shutdown and startup | abstracts `V3Pipeline` to a turn that ends, fails or is cancelled |
| `PrototypeRuntime` | chat task, worker, sends and job table of one conversation | |
| `MC...` | instances for TLC | |
| `ExecutionGateProofs`, `AttentionProofs`, `ControlPlaneProofs`, `TurnLoopProofs`, `V3PipelineProofs`, `PrototypeRuntimeProofs`, `V3IngressProofs`, `V3ConversationProofs` | theorems | |

Operators whose comment begins with "Mutant" are deliberate errors: they stand beside
the definition they corrupt, nothing uses them, and putting one in place of that
definition makes TLC find the property they are paired with violated.

### ExecutionGate

A *call* is one invocation of `execute`; its position `pc` is the await it has
reached, and one action of the module is the code between two awaits or one
transaction. `rev` is `Ledger::revision`, the newest fact event. `review`, `status`
and `basis` are rows of `reviews` and `actions`, `results` the `action_result`
events. `issued` counts requests handed to the outside and `landed` those that took
effect; `landed` moves by itself, also after a timeout or a crash, which is why a
send error is never proof that nothing happened. Two calls may carry the same id:
the code has no lock, the primary keys of the tables are all that holds them apart.
`LedgerError` is the `?` of each ledger call. `Crash` and `Recover` are the end of
the process and `Ledger::open`.

### TurnLoop

`log` holds the events that matter to a projection, by seq: inbound facts, recorded
rounds, action results. `stored` and `projected` are the saved projection; `history`
and `live` are the two transcripts of a turn in progress. A message is its kind, what
it refers to and what it says; text is abstracted. The shape of a model round is how
many messages and tool calls it holds and whether its content parses. An action is a
start, durable, and an outcome, or a refusal without a row, as `ExecutionGate` shows.
The router's decision is a choice between silence and generation.

### Attention

A position of `log` is the seq of an `inbound` or `media_observation` event. `permit`
is the one stored permit of `tokio::sync::Notify`; `pausing` the atomic flag and
`flag` its row in the cache, which `set_attention` writes one after the other.
`handler[e]` and `job[e]` are the positions of the HTTP handler and of the background
observation of event `e`; `Drop` is a handler whose client went away, or whose
`cache_put` failed, between two awaits. `unsure` stands for an unknown action, which
pauses a restarted service. `CheckpointFails` is either `?` of `Scheduler::step` after a
turn that ended well: the loop takes the error for that of the turn, pauses, and the
cursor stays where it was, so that the next lift answers the same events again.
`slipped` records that, and a crash in the same place. `answered`, `held` and `owed`
are history variables too.

### ControlPlane

`roles`, `current` and `qq` are what the process follows, `profile` and `settings`
what the ledger holds; a restart reads the book back from the profile. A book or
model is its version and the request that saved it, and all a book decides here is
whether it admits one guest. `pc[r]` is the await at which the handler of request `r`
is, `write[r]` the write it has handed to the ledger's thread and that has not run
yet. `Release` is the end of the guards of a handler: also of a dropped one, whose
queued write `Land`s later, in any order with those of others. `StartTurn` binds book
and model as `scoped_runtime` does, under `control`.

### V3Pipeline

One turn, from the stored input to the end of the cleanup. `deps` is what kind of a
turn it is: a chat or scheduled turn, an image, the report of a service (its event is
there already), a heartbeat (no input to remember). `row`, `event`, `called`,
`result`, `acted`, `outbound`, `hinted` and `journal` are what the database holds;
`pending` the calls the turn has staged (`memory_save`, `self_note`), `flush` those
still to be written and `landing` how far the first has come. Each await is a
position of `pc`, and `Cancel` may strike at each: what was awaited may have happened
or not, which is a choice of the cancel actions. The cleanup runs in a task of its own
behind `asyncio.shield`; the second await of it is not shielded, so a second
cancellation cuts it (`cut`). `sent`, `hints`, `sorry`, `dropped` and `landed` record
what the world saw. After NapCat has acknowledged a special message its media are
marked as used (`Mark`); when that raises, the tool reports an error and the code takes
the message for failed (`unmarked`). `CallRaises` is a tool call whose arguments raise
out of the round, `SettleFails` and `FailEventRaises` are the write of the event's
status that raises, after the turn is in the window (`unsettled`) or in the handler of
an earlier error.

### V3Conversation

`rows` are the input rows in the order of their id, `status` whether the turn of a
row was answered, `summaries` the `covered_through_message_id` of each summary. `st[t]`
is where turn `t` or the dispatcher that is about to start it stands; `for[t]` the turn
such a dispatcher waits for in `cancel_user`; `tracked` the task in `_tasks`. `window`
carries record ids, 0 where a turn has none (heartbeats), and `trusted` is
`coverage_trusted`. A compaction is `Compact` (the snapshot), `Summarise` or
`SummaryFails`, `Replace`; turns of other tasks may come between any two of them.
`Schedule` is the scheduler tool, which runs at once among the calls of a turn.
`Startup` restores the newest `MaxRestore` answered rows behind `Boundary`.

### V3Ingress

A request is a report and a try: a sender retries what was not acknowledged. `ledger`
and `status` are the rows of `events`; `queue` and `ids` the memory of the scheduler;
`wk` the position of the worker task, `tracked` whether `_tasks` still knows it.
`Schedule` is the scheduler tool: it is not staged but runs in the tool loop, while the
report is still `received`, so that a report's own task may cancel it. `Fire` is such a
task; it bears the key of the service and cancels the worker, which restores the status
of the report it was answering (`Undo`, `Restore`). `Close`, `Shutdown`, `StopWorker`,
`Exit` are the orderly stop in its order, `Start` the recovery from the rows.

### PrototypeRuntime

`status` and `st` are the rows of inbound events and of jobs, `made` and `refs` the
inputs a job was created from and those that changed it, `ran` the jobs of which a
tool was started. `turn` is the `Turn` object of the chat task and `cpc` its await;
`flight` a send, which is a task of its own and goes on when its turn is superseded.
`lock` is the one section under `Conversation.lock` the worker can reach into. The
chat timeout is noticed where the code looks at the clock, so it is a choice of the
steps that look (`Fails`, `SendReply`, `SendEnds`). Inputs a restart recovers are put
back without `notify` (`quiet`): nobody gets a waiting notice or a failure notice for
them. `told` and `unheard` are history variables; `unheard` is of one process, see
section 6.

## 3. The runs

| run | instance | question |
|---|---|---|
| `gate` | 2 actions, 2 calls, a message and a command, 2 facts, crashes and cancellation | at most one request per action, receipts and results true, starts fresh, `ActionLifecycle` implemented, what was started is settled |
| `turn` | 2 turns of 1 round, 2 calls behind a message or unparsable content with a call, 1 fact | the second turn rebuilds what the first left; no start after a doubt |
| `turn_sends` | 1 turn of 3 rounds - two messages, a call, unparsable content -, 1 correction | one budget for unparsable content and refused messages, the turn ends |
| `mailbox` | the owner on the page and, with a picture, on QQ, 1 crash | checkpoint and pause, no lost wake-up, nothing answered twice but after a lost checkpoint |
| `mailbox_pause` | the owner on the page, a report, 1 crash | expected violation, see section 6 |
| `control` | two saves of the book, one of the model, QQ on, a guest's message, 1 crash | profile and memory agree, a save is durable, a turn keeps what it was built with, one winner per version, a saved book binds |
| `control_switch` | a save of the book and QQ on | expected violation, see section 6 |
| `pipeline` | a turn of 2 answers of up to 2 calls, 1 rewrite, 1 send, 2 failures, 2 cancellations | staged writes done once, ledger, row, window and journal agree with what was sent |
| `conversation` | 4 turns, 2 of them alive at a time, 1 row restored, 1 summary kept, 1 crash | what a summary claims, what is forgotten |
| `conversation_race` | the same with 3 alive | expected violation, see section 6 |
| `ingress` | 2 reports of 2 requests each, 1 scheduled task, 1 stop, 1 crash | answered once, in order, in the end |
| `prototype` | 2 inputs, 1 of them asking for a notice, 2 jobs, replies of up to 2 messages, 1 worker step, 1 tool call, 1 crash | one job per input, no tool redone or started over an unheard input, reports told whole, inputs settle |

Why the bounds are enough. Two calls suffice for the conflicts of the boundary, all
of which are between one call and another on one id; the second action is there so
that one call's settlement can disturb another's snapshot. Crashes are unbounded in
`ExecutionGate` and `TurnLoop`: calls and turns run out instead. Two turns are needed
to rebuild what one left, and two tool calls are the fewest of which one can be settled
and one not; a message before them makes the doubt cross from messages to calls; three
rounds hold a correction, a refusal to correct again and an end. In `Attention` the
owner's two paths make two handlers race with `set_attention`, the picture brings the
background job and its event, one crash separates each commit from the next, and the
ledger may fail at any checkpoint. In
`ControlPlane` two forms are the fewest that can share a version, one of which shuts
out the guest the other admits; one request of each kind meets each lock.

In `V3Pipeline` two answers are the fewest for a call and then a final text, two calls
for one to be staged before another is cancelled, and two cancellations for the cleanup
to be cut; one rewrite and one send each reach their limit. In `V3Conversation` a
compaction needs a turn before the one that compacts and leaves one behind; the fourth
turn comes after the summary, and a restoration of one row is the smallest that can be
too small for what there is. Two turns alive are one that runs and one that waits for
it; with three the race of section 6 appears, and the properties of `conversation`
except what overlapped for that reason. In `V3Ingress` two reports have an order, a
second request is the retry, and a stop and a crash can come one after the other. In
`PrototypeRuntime` the second input supersedes the first, the second job is the one an
input asked for twice would make, a reply of two messages can be told by half, and one
crash leaves each of the rows half done.

`CHECK_DEADLOCK` is off everywhere: the bounded environment runs out of work.

### Fairness

`ExecutionGate`: each call, because transports, tools and reviewers have timeouts, and
`Recover`, because the service manager restarts the service. `TurnLoop`: the steps of
a turn and `Recover`; no fairness on ledger failures, cancellation, crashes or facts.
`Attention`: each handler and job, the loop and `Restart`, because the runtime polls
every task that can go on and a turn ends (`TurnEnds`). `Drop`, `Accept` and `Crash`
are never owed. `V3Ingress`: handlers, the worker, tasks that have begun, the orderly
stop and the start: asyncio runs what is ready and model calls time out; nobody has to
send a report, schedule a task or stop the process, and the idle end of the worker is
not owed either. `PrototypeRuntime`: the chat with its sends, each await of which ends
or times out, the end of an orderly stop, and the start; not the worker, whose tools
may take for ever without an input being forgotten. `V3Pipeline` states fairness for
its steps and is checked for safety; `V3Conversation` states none.


## 4. What is proved

Every theorem is about `Spec` with all values of the constants that the named
assumptions of the modules allow; nothing is assumed besides. None of the properties is
inductive as it stands; what follows names the invariant each of them rests on.

**The execution boundary** (`ExecutionGateProofs`, any sets of actions, parameters and
calls, any bound on facts): type correctness, `AtMostOnce`, `TruthfulReceipt`,
`NoOrphan`, `FreshStart`, `SettledForGood`, the refinement of `ActionLifecycle`, and
`ToldAsRecorded`. `GateInv` adds `Custody`: what a call knows of the row it registered
in each of its positions - for instance that a call about to issue has a started row
and no request behind it - and `Exclusive`: two calls that are executing have different
ids, which rests on `begin` finding no row. `NoOrphan` is part of the invariant, and
tells what `Recover` may assume. What a caller is told needs one more conjunct,
`Traced`: behind every request there is a call that has not returned a refusal.

**A turn** (`TurnLoopProofs`, any shapes of rounds, limits, facts, failures and
crashes): type correctness, `NoStartInDoubt`, `CorrectionBudget`, `OrderlyEnd`, and what
is told of a turn: `PairedCalls`, `ToolTruth` and `NothingHidden`. `Placed` relates the
position of the turn to the rows of its rounds and actions; `Doubtless` says that what a
turn started is settled before anything else is, and that the turn knows when an outcome
is in doubt; `Logged` and `Saved` that its events are projected or will be with the open
round; `Counted` that the rounds with nothing to answer after which the model was asked
again, whether their content did not parse or their messages were refused, are no more
than the one counter of corrections says, which stays within its limit.

The code builds a transcript by putting pieces together: what was stored, one message
for a fact, a call with its results for a round. `Sound` says of a transcript and a set
of events that every call in it has all its results behind it, that it contradicts no
row, that it tells each fact of the set once and no other fact, and each result of the
set at least once. Transcripts that are sound for different events are sound together
(`Joined`). The invariant `Transcripts` says for which events the stored transcript, the
history and the live request are sound; `Recorded` that a result in the log is the final
status of its row, and `Shaped` how far the open round has come, whose call at the end
of a transcript is the only one that may still lack results. What is told stays told
(`Lasts`), because a result is told only of an action gone by: its row does not change
any more, but for an outcome nobody knows that becomes `unknown`. The messages of the
events not yet projected are joined by `FlattenSeq`, which is recursive; that they are
sound if those of each event are is shown by a least counterexample, over a number, and
needs no induction principle.

**The mailbox** (`AttentionProofs`, any events and any number of crashes): type
correctness, `CheckpointSeen`, `PauseHolds` and `NothingAnsweredTwice`. `MailboxInv`
orders the four marks over the log - cursor, answered, projected, context - by the
position of the loop (`Ordered`), says where the loop can be while the pause is held
and that both copies of the flag agree then (`Paused`), and that the
cursor has caught up before the loop looks for work unless the checkpoint slipped
(`Settled`). Over this invariant
`WakeIsDue` is inductive as it stands: a loop that waits while something is pending, and
is not paused, has its wake-up still to come, or a handler was dropped. This is why a
`Notify` with one stored permit is enough, although the loop looks at the flag and at
the log in two steps before it waits.

**The control plane** (`ControlPlaneProofs`, any requests, messages and crashes): type
correctness, `TurnInForce`, `ProfileFollows`, `SavedIsDurable`, `OneWinner` and
`SavedBookBinds`. `LockInv` says which lock each position of a handler holds.
`FollowInv` adds what a queued write contains (`Queued`) and how far the profile is
ahead of memory between the two writes of a save (`Landed`). `SaveInv` adds that what
took effect is there or superseded, in memory and in the ledger (`Lasting`), that a save
at its write still starts from what is in force (`Current`), and that versions are not
reused (`Single`).

**A turn of V3** (`V3PipelineProofs`, any limits and any number of answers, calls and
cancellations): type correctness and all five properties of `pipeline`. `SentInv`
follows a message from the acknowledgement to the ledger and the row, or to the count
of those taken for failed; `EndInv` says what is settled when the body of the turn has
been left, by a return, an exception - that of the last write of the event included -
or a cancellation, and `WriteInv` accounts for each staged write in each position of the
cleanup.

**A conversation of V3** (`V3ConversationProofs`, any number of turns, any number of
them alive at a time, any limits, any crashes): `TypeOK`, `ClaimedIsSummarised` and
`NothingForgotten`. A summary names the last row it covers and stands for all before it,
but a compaction sees only a window, at an earlier time. Hence `ConvInv`: every window,
also the snapshot of a compaction in progress, `Holds` all answered turns that nothing
else tells of, and is `Sorted` by their rows; summaries reach over nothing else
(`Claims`). What would break this is a row that gets its place while another turn is
compacting; `Apart` says that turns which run at the same time are known to overlap, and
that the row of one which runs alone is the last. The theorem does not bound how many
run at once: the race of section 6 is inside it, and spoils only what overlapped.
`TypeOK` follows from `ConvInv` and one conjunct more, that a turn stands in a window
`Once`: a turn is remembered when it is not yet in any window, and a restart puts back
rows, of which a turn has one.

**The worker of V3's services** (`V3IngressProofs`, any finite set of reports):
`TypeOK`, `AnsweredOnce`, `FirstComeFirst`. `Hands` says what the
worker has in hand and who may wait for it, `Rest` what the other variables are,
`Lined` that what is queued is received, queued once, and not what is being answered,
`Rows` what is stored and what the senders were told of it, and `Ordered` that while
the process may answer, what was accepted before a report waits before it. From these
follow `WithinReach`: while requests are taken no report is received without a queue or
queued without a worker, unless a scheduled task took it away, for which one also needs
to know what is left in a queue nobody serves (`Stranded`); and `CancelledIsUndone`:
none stays cancelled, unless the restoration of its status was cut off.

**The prototype runtime** (`PrototypeRuntimeProofs`, any inputs, jobs and crashes):
`TypeOK`, `OneJobPerInput`, `NoneRedone`, `ToldWhole` and `ToolsWait`. The four safety
properties rest on different parts of the state: the rows of jobs and the worker
(`Worked`), the inputs and who has taken them in (`Single`), what a reply has handed
over (`Told`), and who may start a tool (`Heard`). The bounds in `TypeOK` need three
more: a reply being sent has a message left (`Batches`), a worker among its calls has a
call left (`Rounds`), a process that is closing has an end left (`Ends`). That a restart
queues jobs and nothing else rests on a lemma, `InOrderLists`: the jobs of a set can be
listed in order, each at the number of those up to it. `Remembered` says where an
input is that is received - waiting, in a turn that has yet to end, or about to get its
status -, and needs that only a turn answers and only a stop writes `received` back
(`Answered`). `JobsStayEnded` and `WokenByEnded` are about the jobs: what has ended
stays so, and nothing else wakes the chat.

## 5. What is only model-checked

- Liveness - `StartedIsSettled`, `TurnEnds`, `AcceptedIsAttended`, `Attended`,
  `InputSettles` -, which is out of the prover's reach. What three of them need of the
  state, that nothing is left without somebody who will go on with it, is proved:
  `WakeIsDue` for `AcceptedIsAttended`, `WithinReach` and `CancelledIsUndone` for
  `Attended`, `Remembered` for `InputSettles`. That whoever is to go on does so, and
  that this ends, is what the runs check under the fairness of section 3. TLC found
  these four true on the instances of `mailbox`, `ingress` and `prototype` before they
  were proved.

All other properties of the runs that pass are theorems as well.

## 6. Disagreements with the documents

`docs/hz-trial.md` says that a failure of the model or of a tool pauses automatic
progress until the owner sends a new instruction. The failed turn is committed before
the pause is: a process that stops in between is not paused when it comes back, unless
an action is unknown, and answers the pending events again (`mailbox_pause`). Once
the pause is committed it does hold, across reports and restarts (`PauseHolds`).

`web/routes.rs:394` and `docs/hz-validation-2026-10-25.md` say that the saves and the QQ
switch write the profile one after another under `profile_control`. The handler holds
the lock, its write does not: when the client goes away the lock is free while the
write is queued, and it may land after a later one (`control_switch`). The profile then
says that QQ is off while it is on, until the next write. The invariants of `control`
therefore except the time after a dropped handler (`NoneLost`); in every order of
handlers that run to their end the profile is what the process follows.
`hz-trial.md` also says that a save takes effect at once: it does for messages that
arrive afterwards (`SavedBookBinds`).

`archive/v3/docs/current-design.md:16` says that a newer input for the same
conversation cancels the task before it and waits for its cleanup. `cancel_user` takes
the task out of `_tasks` before it waits (`scheduler.py:513`), and the new task is put
there only after the wait: an input that arrives meanwhile neither cancels nor waits,
and two turns of one conversation run side by side (`conversation_race`). The
properties of `conversation` therefore except turns that overlapped.

Three more disagreements are read off the models and have no run of their own. The
properties that pass except exactly these cases, and say so in their comments:

- *Reports and scheduled tasks.* `archive/v3/docs/current-design.md:19-21` says that
  reports are "processed by a per-service FIFO worker; they do not use the ordinary
  same-key cancellation rule", and `:259` "A service FIFO worker does not cancel
  earlier reports". A scheduled task that bears the key of the service does use that
  rule (`scheduler.py:783`, `cancel_user`): it cancels the worker, the report in hand -
  its own, if it fires early - is received again and in no queue, and later ones
  overtake it until a restart. `FirstComeFirst` and `Attended` except such a report
  (`displaced`), and show that no other is overtaken or left.
- *Restoration after a stop.* `:262-263` says "Graceful cancellation restores an
  in-flight service event to `received` rather than excluding it from restart
  recovery." The pipeline writes `cancelled` first and the worker restores `received`
  afterwards (`scheduler.py:279`). A second cancellation in between - the task of a
  service, then the stop - leaves the report `cancelled`, and no start finds it, as
  does a crash there, of which the document does not speak. `Attended` excepts such a
  report (`lost`).
- *Window and restart.* `:127-130` says that startup "uses the same eligibility rules as
  live window insertion". A turn enters the window at `pipeline.py:1619` by what it has
  sent; what a restart finds is decided later. A turn whose final text was refused after
  a special message was acknowledged, one whose event could not be settled
  (`pipeline.py:1667`), and one cancelled after `window.add` stay in the window, and
  their rows say `error` or `cancelled`. `WindowAsStored` excepts these three, and shows
  that window and rows agree in every other turn.

`archive/v3/docs/prototype-conversation-background-work.md:118` says that when an answer
fails, the actions of the background jobs stay paused until the next valid chat. The
gate that keeps them is in memory (`allow_tools`), and a process starts with it open:
after a restart an input whose chat had failed before no longer holds a tool back.
`ToolsWait` follows the code and speaks of one process: `Forget` clears `unheard`.

Where the code promises less than one might expect, without a document to the contrary:

- a ledger error at a checkpoint pauses the loop after a turn that went well, and the
  events are answered again after the next lift (`NothingAnsweredTwice` excepts it);
- a pause set in memory and one stored may differ while a handler and the loop write
  both; `PauseHolds` speaks of a pause that was stored and that no handler has lifted
  since, in memory or on disk;
- an event whose handler was dropped or failed between its commit and the wake-up waits
  for the next one (`AcceptedIsAttended` excepts it);
- memory follows the profile only in runs without a dropped handler (`ProfileFollows`);
- a QQ message that was already decided when a book is saved is still taken;
- a special message NapCat acknowledged, but whose media could not be marked as used, is
  taken for failed: it is not recorded, and an apology may follow it
  (`NoApologyAfterReply` and `RepliesRecorded` except it);
- one message at most is acknowledged and not recorded when a turn is cancelled;
- turns of one conversation that overlap may lose each other's memory: the properties of
  `conversation` do not speak of them;
- texts that wait for the debounce timer are dropped by an image or a scheduled task.

## 7. Not modelled, and why

- *Media store, vision cache, render worker, report registry.* Single transactions,
  or a resource behind one mutex. What they hand to the loop, an event or the outcome
  of a tool, is an input of `Attention`, `TurnLoop` and `ExecutionGate`; their own
  races are in the list of hazards, those without a property marked as such.
- *Transports, provider, reviewer, tools, workspace.* Whatever they do is one of the
  outcomes `ExecutionGate` and `V3Pipeline` choose from: taken, refused, failed, late,
  or interrupted with the effect in doubt.
- *Router, quick replies, the interpreter of the scripts, the parsing of a round.* Pure
  functions of text; their result is a choice. A round that does not parse is part of
  `TurnLoop`, an answer that does not is part of `V3Pipeline`.
- *Prompts, pages, sessions, HTTP, image decoding, signatures, configuration,
  playground, benchmark, dashboards, deployment.* Input and output without a protocol
  between components. `drain`, a command that runs when nothing else does, is left out
  too.
- *V3's receiver, text projections, media records and episode summaries.* Episodes are
  derived from rows the models have and never read back by what is modelled here.
- *Errors of the database in the V3 pipeline*, where the code logs and passes over them;
  where one changes the course of a turn - the use of a medium, the status of an event -
  it is modelled. What SQLite, Tokio and asyncio promise is taken as it is.
