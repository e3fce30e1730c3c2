----------------------------- MODULE V3Pipeline -----------------------------
(***************************************************************************)
(* One turn of the V3 archive (pipeline.py): the input is stored, the      *)
(* model is asked until it gives a final answer, its tool calls are        *)
(* executed or staged, the answer is sent, and a cleanup that cancellation *)
(* must not break commits what was staged.                                 *)
(*                                                                         *)
(* The turn is one asyncio task.  An action is the code between two of its *)
(* awaits; cancel() makes the await it is in raise, and what was awaited   *)
(* may have happened or not.  A turn is cancelled by a newer input or a    *)
(* stop, and by both when a scheduled task is stopped while it waits for   *)
(* the turn it has cancelled.  The cleanup runs in a task of its own.      *)
(* Errors of the database are left out where the code logs and passes over *)
(* them; where it does not, at the status of an event and at the media of  *)
(* a message that was sent, they are modelled.                             *)
(***************************************************************************)
EXTENDS Naturals, Sequences, FiniteSets, SequencesExt

CONSTANTS
  MaxStep,                 \* MAX_TOOL_STEPS
  MaxCall,                 \* bound: tool calls of one answer
  MaxRewrite,              \* MAX_OUTPUT_REWRITES
  MaxSend,                 \* MAX_SENDS_PER_LOOP
  MaxFail,                 \* consecutive failures that stop a tool (3)
  MaxCancel                \* bound: cancellations

ASSUME PipelineAssumption ==
  MaxStep \in Nat \ {0} /\ MaxCall \in Nat /\ MaxRewrite \in Nat /\ MaxSend \in Nat
  /\ MaxFail \in Nat \ {0} /\ MaxCancel \in Nat

(* send; the progress message status_update; memory_save and self_note;    *)
(* no_reply; any other tool.                                               *)
Tool == {"send", "status", "write", "no_reply", "other"}
Call == (1..MaxStep) \X (1..MaxCall)
Final == {"received", "responded", "no_reply", "empty", "cancelled", "error"}

VARIABLES
  deps,                    \* PipelineDeps: what kind of a turn it is
  pc,                      \* where the task is
  \* the database
  row,                     \* messages: the status of the input's row
  event,                   \* events: the status of the inbound event, "orphan" for one that is
                           \* received and of which the turn does not know the id
  called, result,          \* the TOOL_CALL events, the last TOOL_RESULT of each call
  acted,                   \* actions: the calls in the action ledger
  outbound, hinted,        \* the OUTBOUND events, the STATUS_UPDATE events
  journal,                 \* the turn has an inner_journal entry
  \* locals of pipeline()
  step, rewrites, sends,   \* of the loop: step, output_rewrites, send_count
  round, at,               \* the calls of the answer, the one that is executed
  fails,                   \* last_tool_name, consecutive_fails
  responded, final, inner, \* responded, final_status, inner_candidate # ""
  fallback,                \* the text being sent stands in for a rejected answer
  pending,                 \* _pending_writes
  completed, raised,       \* turn_completed; an exception leaves pipeline()
  \* the cleanup task, and the session
  flush, landing,          \* the staged writes still to be done; how far the first has come
  window,                  \* the turn is in deps.window
  \* history
  sent, hints,             \* visible replies acknowledged, progress messages acknowledged
  sorry, dropped,          \* the apology; the final text failed
  unmarked, unsettled,     \* acknowledged messages whose media could not be marked as used; the
                           \* event of a turn that had ended could not be settled
  landed,                  \* how often each staged write was executed
  cancels, cut             \* cancellations; the cleanup itself was cancelled

ledger == <<called, result, acted, outbound, hinted>>
database == <<row, event, ledger, journal>>
loop == <<step, rewrites, sends, round, at, fails>>
outcome == <<responded, final, inner, fallback>>
cleanup == <<pending, flush, landing, landed, cut>>
told == <<sent, hints, sorry, dropped, unmarked, unsettled>>
vars == <<deps, pc, row, event, called, result, acted, outbound, hinted, journal, step, rewrites,
          sends, round, at, fails, responded, final, inner, fallback, pending, completed, raised,
          flush, landing, window, sent, hints, sorry, dropped, unmarked, unsettled, landed, cancels,
          cut>>

NoFail == [tool |-> "none", count |-> 0]

TypeOK ==
  /\ deps \in [remember: BOOLEAN, visible: BOOLEAN, image: BOOLEAN, precreated: BOOLEAN]
  /\ pc \in {"image", "enter", "describe", "note", "save", "admit", "context", "ask", "say", "said",
             "keep", "hint", "hinted", "call", "mark", "posted", "noted", "logcall", "logresult",
             "record", "close", "store", "settle", "undo", "undone", "fail", "failed", "apologise",
             "flush", "hold", "journal", "over"}
  /\ row \in Final \cup {"none", "proactive"}
  /\ event \in {"none", "received", "orphan", "finalized", "cancelled", "error"}
  /\ called \subseteq Call /\ result \in [Call -> {"none", "staged", "given", "committed"}]
  /\ acted \subseteq Call /\ outbound \in Nat /\ hinted \in Nat /\ journal \in BOOLEAN
  /\ step \in 1..MaxStep /\ rewrites \in 0..MaxRewrite + 1 /\ sends \in Nat
  /\ round \in Seq(Tool) /\ Len(round) <= MaxCall /\ at \in 0..MaxCall
  /\ fails \in [tool: Tool \cup {"none"}, count: Nat]
  /\ responded \in BOOLEAN /\ final \in Final /\ inner \in BOOLEAN /\ fallback \in BOOLEAN
  /\ pending \in Seq(Call) /\ completed \in BOOLEAN /\ raised \in BOOLEAN
  /\ flush \in Seq(Call) /\ landing \in {"start", "done", "noted"} /\ window \in BOOLEAN
  /\ sent \in Nat /\ hints \in Nat /\ sorry \in BOOLEAN /\ dropped \in BOOLEAN
  /\ unmarked \in Nat /\ unsettled \in BOOLEAN
  /\ landed \in [Call -> Nat] /\ cancels \in 0..MaxCancel /\ cut \in BOOLEAN

(* A chat or a scheduled turn; the report of a service, whose event is     *)
(* there already; a heartbeat, which remembers no input and may be asked   *)
(* to be silent.                                                           *)
Init ==
  /\ deps \in [remember: BOOLEAN, visible: BOOLEAN, image: BOOLEAN, precreated: BOOLEAN]
  /\ deps.remember => deps.visible
  /\ deps.image \/ deps.precreated => deps.remember
  /\ pc = IF deps.image THEN "image" ELSE "save"
  /\ row = "none" /\ event = IF deps.precreated THEN "received" ELSE "none"
  /\ called = {} /\ result = [c \in Call |-> "none"] /\ acted = {} /\ outbound = 0 /\ hinted = 0
  /\ journal = FALSE
  /\ step = 1 /\ rewrites = 0 /\ sends = 0 /\ round = <<>> /\ at = 0 /\ fails = NoFail
  /\ responded = FALSE /\ final = "received" /\ inner = FALSE /\ fallback = FALSE
  /\ pending = <<>> /\ completed = FALSE /\ raised = FALSE /\ flush = <<>> /\ landing = "start"
  /\ window = FALSE /\ sent = 0 /\ hints = 0 /\ sorry = FALSE /\ dropped = FALSE
  /\ unmarked = 0 /\ unsettled = FALSE
  /\ landed = [c \in Call |-> 0] /\ cancels = 0 /\ cut = FALSE

-----------------------------------------------------------------------------
(* The input. *)

(* _save_inbound_msg, _register_inbound_media: the row of an image. *)
ImageSaved ==
  /\ pc = "image"
  /\ row' = "received" /\ pc' = "enter"
  /\ UNCHANGED <<deps, event, ledger, journal, loop, outcome, completed, raised, cleanup, window,
                 told, cancels>>

(* _append_inbound_events, or the media of the event a service has made. *)
ImageEntered ==
  /\ pc = "enter"
  /\ event' = "received" /\ pc' = "describe"
  /\ UNCHANGED <<deps, row, ledger, journal, loop, outcome, completed, raised, cleanup, window,
                 told, cancels>>

(* describe_image gives a description, or the text of an error. *)
Describe ==
  /\ pc = "describe"
  /\ pc' = "note"
  /\ UNCHANGED <<deps, database, loop, outcome, completed, raised, cleanup, window, told, cancels>>

(* The media record and the event take it. *)
Described ==
  /\ pc = "note"
  /\ pc' = "context"
  /\ UNCHANGED <<deps, database, loop, outcome, completed, raised, cleanup, window, told, cancels>>

(* _save_inbound_msg, for a turn that remembers its input. *)
Saved ==
  /\ pc = "save"
  /\ row' = IF deps.remember THEN "received" ELSE row
  /\ pc' = IF deps.remember /\ ~deps.precreated THEN "admit" ELSE "context"
  /\ UNCHANGED <<deps, event, ledger, journal, loop, outcome, completed, raised, cleanup, window,
                 told, cancels>>

(* _append_inbound_events. *)
Admitted ==
  /\ pc = "admit"
  /\ event' = "received" /\ pc' = "context"
  /\ UNCHANGED <<deps, row, ledger, journal, loop, outcome, completed, raised, cleanup, window,
                 told, cancels>>

(* The poke, the context and its compaction; an error ends the turn. *)
ContextBuilt(ok) ==
  /\ pc = "context"
  /\ pc' = IF ok THEN "ask" ELSE "fail"
  /\ UNCHANGED <<deps, database, loop, outcome, completed, raised, cleanup, window, told, cancels>>

-----------------------------------------------------------------------------
(* The loop. *)

(* The next of MAX_TOOL_STEPS answers is asked for, or the loop is over. *)
Again == IF step < MaxStep THEN step' = step + 1 /\ pc' = "ask" ELSE pc' = "close" /\ UNCHANGED step

(* _do_llm_call raises, or the arguments of a special message are no       *)
(* object, which raises before any call is executed.                       *)
AskFails ==
  /\ pc = "ask"
  /\ pc' = "fail"
  /\ UNCHANGED <<deps, database, loop, outcome, completed, raised, cleanup, window, told, cancels>>

(* Neither content nor calls. *)
Empty ==
  /\ pc = "ask"
  /\ final' = IF final = "received" THEN "empty" ELSE final
  /\ pc' = "close"
  /\ UNCHANGED <<deps, database, loop, responded, inner, fallback, completed, raised, cleanup,
                 window, told, cancels>>

(* Mutant: a rejected answer keeps its inner state for the journal.        *)
RejectKeeps ==
  /\ pc = "ask"
  /\ rewrites' = rewrites + 1 /\ inner' = TRUE
  /\ IF rewrites = MaxRewrite
     THEN /\ fallback' = TRUE
          /\ IF deps.visible THEN pc' = "say" /\ UNCHANGED final ELSE pc' = "close" /\ final' = "error"
          /\ UNCHANGED step
     ELSE Again /\ UNCHANGED <<fallback, final>>
  /\ UNCHANGED <<deps, database, sends, round, at, fails, responded, completed, raised, cleanup,
                 window, told, cancels>>

(* The answer breaks the output protocol, is too long, or is no plain      *)
(* text: it is asked for again, and after MAX_OUTPUT_REWRITES another text *)
(* is sent in its place.                                                   *)
Reject ==
  /\ pc = "ask"
  /\ rewrites' = rewrites + 1
  /\ IF rewrites = MaxRewrite
     THEN /\ fallback' = TRUE
          /\ IF deps.visible THEN pc' = "say" /\ UNCHANGED final ELSE pc' = "close" /\ final' = "error"
          /\ UNCHANGED step
     ELSE Again /\ UNCHANGED <<fallback, final>>
  /\ UNCHANGED <<deps, database, sends, round, at, fails, responded, inner, completed, raised,
                 cleanup, window, told, cancels>>

(* What a turn without a text for the user ends as. *)
Unsaid(self, text) ==
  /\ pc' = "close"
  /\ final' = IF ~text /\ final = "received" THEN IF self THEN "no_reply" ELSE "empty" ELSE final

(* A final envelope: TO_SELF and TO_USER, each perhaps empty. *)
Envelope(self, text) ==
  /\ pc = "ask"
  /\ inner' = self
  /\ IF text /\ deps.visible THEN pc' = "say" /\ UNCHANGED final ELSE Unsaid(self, text)
  /\ UNCHANGED <<deps, database, loop, responded, fallback, completed, raised, cleanup, window,
                 told, cancels>>

(* _send_visible_content: NapCat acknowledges the text or does not. *)
Say(ok) ==
  /\ pc = "say"
  /\ IF ok THEN pc' = "said" /\ sent' = sent + 1 /\ UNCHANGED <<final, dropped>>
     ELSE pc' = "close" /\ final' = "error" /\ dropped' = TRUE /\ UNCHANGED sent
  /\ UNCHANGED <<deps, database, loop, responded, inner, fallback, completed, raised, cleanup,
                 window, hints, sorry, unmarked, unsettled, cancels>>

(* Mutant: a text that stands in for another is not recorded.              *)
SaidQuietly ==
  /\ pc = "said"
  /\ outbound' = IF fallback THEN outbound ELSE outbound + 1
  /\ responded' = TRUE /\ final' = "responded"
  /\ pc' = IF fallback THEN "close" ELSE "keep"
  /\ UNCHANGED <<deps, row, event, called, result, acted, hinted, journal, loop, inner, fallback,
                 completed, raised, cleanup, window, told, cancels>>

(* Its OUTBOUND event. *)
Said ==
  /\ pc = "said"
  /\ outbound' = outbound + 1
  /\ responded' = TRUE /\ final' = "responded"
  /\ pc' = IF fallback THEN "close" ELSE "keep"
  /\ UNCHANGED <<deps, row, event, called, result, acted, hinted, journal, loop, inner, fallback,
                 completed, raised, cleanup, window, told, cancels>>

(* The row takes the answer. *)
Keep ==
  /\ pc = "keep"
  /\ row' = IF deps.remember THEN "responded" ELSE row
  /\ pc' = "close"
  /\ UNCHANGED <<deps, event, ledger, journal, loop, outcome, completed, raised, cleanup, window,
                 told, cancels>>

-----------------------------------------------------------------------------
(* A round of tool calls. *)

(* The progress messages come first.  If there is none, and a call may     *)
(* take long, the user is told so.                                         *)
Calls(tools) ==
  /\ pc = "ask"
  /\ \A i, j \in DOMAIN tools : i < j /\ tools[j] = "status" => tools[i] = "status"
  /\ round' = tools /\ at' = 1
  /\ \/ pc' = "call"
     \/ /\ deps.remember /\ tools[1] # "status" /\ ToSet(tools) \cap {"send", "other"} # {}
        /\ pc' = "hint"
  /\ UNCHANGED <<deps, database, step, rewrites, sends, fails, outcome, completed, raised, cleanup,
                 window, told, cancels>>

(* _send_status_text. *)
Hint(ok) ==
  /\ pc = "hint"
  /\ IF ok THEN pc' = "hinted" /\ hints' = hints + 1 ELSE pc' = "call" /\ UNCHANGED hints
  /\ UNCHANGED <<deps, database, loop, outcome, completed, raised, cleanup, window, sent, sorry,
                 dropped, unmarked, unsettled, cancels>>

(* The STATUS_UPDATE event, of a message of this kind or of the model's. *)
Hinted ==
  /\ pc \in {"hinted", "noted"}
  /\ hinted' = hinted + 1
  /\ pc' = IF pc = "hinted" THEN "call" ELSE "logcall"
  /\ UNCHANGED <<deps, row, event, called, result, acted, outbound, journal, loop, outcome, completed,
                 raised, cleanup, window, told, cancels>>

Id == <<step, at>>
Stopped == fails.tool = round[at] /\ fails.count >= MaxFail
Repeated == round[at] = "status" /\ Contains(SubSeq(round, 1, at - 1), "status")

(* What is remembered of failures of one tool in a row. *)
Counted(failed) ==
  fails' = [tool |-> round[at],
            count |-> IF ~failed THEN 0 ELSE IF fails.tool = round[at] THEN fails.count + 1 ELSE 1]

(* The call is refused: its tool has failed too often, is not for this     *)
(* turn, it is a second progress message, or one special message too many. *)
Refused ==
  /\ pc = "call"
  /\ \/ Stopped \/ Repeated
     \/ round[at] = "send" /\ sends >= MaxSend
     \/ round[at] # "send" /\ ~deps.remember
  /\ sends' = IF round[at] = "send" /\ ~Stopped THEN sends + 1 ELSE sends
  /\ Counted(TRUE)
  /\ pc' = "logcall"
  /\ UNCHANGED <<deps, database, step, rewrites, round, at, outcome, completed, raised, cleanup,
                 window, told, cancels>>

(* A special message, which NapCat acknowledges or does not, or nothing    *)
(* where nothing may be seen.                                              *)
Send(ok) ==
  /\ pc = "call" /\ round[at] = "send" /\ ~Stopped /\ sends < MaxSend
  /\ sends' = sends + 1
  /\ IF ok /\ deps.visible THEN sent' = sent + 1 /\ pc' = "mark" /\ UNCHANGED fails
     ELSE pc' = "logcall" /\ UNCHANGED sent /\ Counted(deps.visible)
  /\ UNCHANGED <<deps, database, step, rewrites, round, at, outcome, completed, raised, cleanup,
                 window, hints, sorry, dropped, unmarked, unsettled, cancels>>

(* mark_media_used, which a message without media of its own passes: the   *)
(* message answers the turn, but when it raises the tool returns an error. *)
Mark(ok) ==
  /\ pc = "mark"
  /\ IF ok THEN responded' = TRUE /\ final' = "responded" /\ pc' = "posted" /\ UNCHANGED unmarked
     ELSE pc' = "logcall" /\ unmarked' = unmarked + 1 /\ UNCHANGED <<responded, final>>
  /\ Counted(~ok)
  /\ UNCHANGED <<deps, database, step, rewrites, sends, round, at, inner, fallback, completed,
                 raised, cleanup, window, sent, hints, sorry, dropped, unsettled, cancels>>

(* Its media, and its OUTBOUND event. *)
Posted ==
  /\ pc = "posted"
  /\ outbound' = outbound + 1
  /\ pc' = "logcall"
  /\ UNCHANGED <<deps, row, event, called, result, acted, hinted, journal, loop, outcome,
                 completed, raised, cleanup, window, told, cancels>>

(* The model's progress message. *)
Status(ok) ==
  /\ pc = "call" /\ round[at] = "status" /\ ~Stopped /\ ~Repeated /\ deps.remember
  /\ IF ok THEN pc' = "noted" /\ hints' = hints + 1 ELSE pc' = "logcall" /\ UNCHANGED hints
  /\ Counted(~ok)
  /\ UNCHANGED <<deps, database, step, rewrites, sends, round, at, outcome, completed, raised,
                 cleanup, window, sent, sorry, dropped, unmarked, unsettled, cancels>>

(* A memory is staged for the cleanup. *)
Stage ==
  /\ pc = "call" /\ round[at] = "write" /\ ~Stopped /\ deps.remember
  /\ pending' = Append(pending, Id)
  /\ Counted(FALSE)
  /\ pc' = "logcall"
  /\ UNCHANGED <<deps, database, step, rewrites, sends, round, at, outcome, completed, raised,
                 flush, landing, landed, cut, window, told, cancels>>

(* Any other tool returns or fails. *)
Execute(ok) ==
  /\ pc = "call" /\ round[at] \in {"other", "no_reply"} /\ ~Stopped
  /\ round[at] = "no_reply" => deps.remember
  /\ Counted(~ok)
  /\ pc' = "logcall"
  /\ UNCHANGED <<deps, database, step, rewrites, sends, round, at, outcome, completed, raised,
                 cleanup, window, told, cancels>>

(* Arguments that are no object: of a progress message, or where the       *)
(* result of the configuration tool is made safe to keep, they raise.      *)
CallRaises ==
  /\ \/ pc = "call" /\ round[at] = "status" /\ ~Stopped /\ ~Repeated /\ deps.remember
     \/ pc = "logresult" /\ round[at] = "other"
  /\ pc' = "fail"
  /\ UNCHANGED <<deps, database, loop, outcome, completed, raised, cleanup, window, told, cancels>>

(* The TOOL_CALL event. *)
LogCall ==
  /\ pc = "logcall"
  /\ called' = called \cup {Id}
  /\ pc' = "logresult"
  /\ UNCHANGED <<deps, row, event, result, acted, outbound, hinted, journal, loop, outcome,
                 completed, raised, cleanup, window, told, cancels>>

(* The next call; after the last the model is asked again unless it asked  *)
(* for no reply.                                                           *)
NextCall ==
  IF at < Len(round) THEN at' = at + 1 /\ pc' = "call" /\ UNCHANGED <<step, round, final>>
  ELSE /\ at' = 0 /\ round' = <<>>
       /\ IF Contains(round, "no_reply")
          THEN /\ final' = IF responded THEN "responded" ELSE "no_reply"
               /\ pc' = "close"
               /\ UNCHANGED step
          ELSE Again /\ UNCHANGED final

(* The TOOL_RESULT event. *)
Resulted == [result EXCEPT ![Id] = IF Contains(pending, Id) THEN "staged" ELSE "given"]

LogResult ==
  /\ pc = "logresult"
  /\ result' = Resulted
  /\ IF Contains(pending, Id) THEN NextCall ELSE pc' = "record" /\ UNCHANGED <<step, round, at, final>>
  /\ UNCHANGED <<deps, row, event, called, acted, outbound, hinted, journal, rewrites, sends, fails,
                 responded, inner, fallback, completed, raised, cleanup, window, told, cancels>>

(* _record_action: a call that is over is in the action ledger. *)
Record ==
  /\ pc = "record"
  /\ acted' = acted \cup {Id}
  /\ NextCall
  /\ UNCHANGED <<deps, row, event, called, result, outbound, hinted, journal, rewrites, sends, fails,
                 responded, inner, fallback, completed, raised, cleanup, window, told, cancels>>

-----------------------------------------------------------------------------
(* The end of the turn. *)

(* Mutant: a turn without an error is added, answered or not.              *)
CloseWithoutError ==
  /\ pc = "close"
  /\ window' = (final # "error")
  /\ pc' = "store"
  /\ UNCHANGED <<deps, database, loop, outcome, completed, raised, cleanup, told, cancels>>

(* A turn that was answered is added to the working window. *)
Close ==
  /\ pc = "close"
  /\ window' = responded
  /\ pc' = "store"
  /\ UNCHANGED <<deps, database, loop, outcome, completed, raised, cleanup, told, cancels>>

(* _update_saved_msg, or the row of a proactive message. *)
Store ==
  /\ pc = "store"
  /\ row' = IF deps.remember THEN final ELSE IF responded THEN "proactive" ELSE row
  /\ pc' = "settle"
  /\ UNCHANGED <<deps, event, ledger, journal, loop, outcome, completed, raised, cleanup, window,
                 told, cancels>>

(* The cleanup task begins. *)
BeginFlush == pc' = "flush" /\ flush' = pending

(* _update_event_statuses. *)
Settle ==
  /\ pc = "settle"
  /\ event' = IF deps.remember THEN IF final = "error" THEN "error" ELSE "finalized" ELSE event
  /\ completed' = TRUE
  /\ BeginFlush
  /\ UNCHANGED <<deps, row, ledger, journal, loop, outcome, raised, pending, landing, landed, cut,
                 window, told, cancels>>

(* It raises, when row and window are written already. *)
SettleFails ==
  /\ pc = "settle" /\ deps.remember
  /\ pc' = "fail" /\ unsettled' = TRUE
  /\ UNCHANGED <<deps, database, loop, outcome, completed, raised, cleanup, window, sent, hints,
                 sorry, dropped, unmarked, cancels>>

(* The handler of an exception: row, event, and an apology to somebody who *)
(* has seen no answer.                                                     *)
FailRow ==
  /\ pc = "fail"
  /\ final' = "error" /\ row' = IF deps.remember THEN "error" ELSE row
  /\ pc' = "failed"
  /\ UNCHANGED <<deps, event, ledger, journal, loop, responded, inner, fallback, completed, raised,
                 cleanup, window, told, cancels>>

(* Mutant: the apology is sent in any case.                                *)
FailEventSorry ==
  /\ pc = "failed"
  /\ event' = IF deps.remember THEN "error" ELSE event
  /\ pc' = "apologise"
  /\ UNCHANGED <<deps, row, ledger, journal, loop, outcome, completed, raised, cleanup, window,
                 told, cancels>>

FailEvent ==
  /\ pc = "failed"
  /\ event' = IF deps.remember THEN "error" ELSE event
  /\ IF responded THEN BeginFlush ELSE pc' = "apologise" /\ UNCHANGED flush
  /\ UNCHANGED <<deps, row, ledger, journal, loop, outcome, completed, raised, pending, landing,
                 landed, cut, window, told, cancels>>

(* The event again: what it raises leaves the turn. *)
FailEventRaises ==
  /\ pc = "failed" /\ deps.remember
  /\ raised' = TRUE
  /\ BeginFlush
  /\ UNCHANGED <<deps, database, loop, outcome, completed, pending, landing, landed, cut, window,
                 told, cancels>>

Apologise ==
  /\ pc = "apologise"
  /\ sorry' = TRUE
  /\ BeginFlush
  /\ UNCHANGED <<deps, database, loop, outcome, completed, raised, pending, landing, landed, cut,
                 window, sent, hints, dropped, unmarked, unsettled, cancels>>

(* The handler of a cancellation. *)
UndoRow ==
  /\ pc = "undo"
  /\ final' = "cancelled" /\ row' = IF deps.remember /\ row # "none" THEN "cancelled" ELSE row
  /\ pc' = "undone"
  /\ UNCHANGED <<deps, event, ledger, journal, loop, responded, inner, fallback, completed, raised,
                 cleanup, window, told, cancels>>

(* The event is known, unless it was being added; it may raise here, too. *)
UndoEvent ==
  /\ pc = "undone"
  /\ event' \in {event} \cup (IF event \in {"none", "orphan"} THEN {} ELSE {"cancelled"})
  /\ BeginFlush
  /\ UNCHANGED <<deps, row, ledger, journal, loop, outcome, completed, raised, pending, landing,
                 landed, cut, window, told, cancels>>

-----------------------------------------------------------------------------
(* The cleanup. *)

(* _flush_pending_writes executes a staged write, ... *)
Land ==
  /\ flush # <<>> /\ landing = "start"
  /\ landed' = [landed EXCEPT ![Head(flush)] = @ + 1]
  /\ landing' = "done"
  /\ UNCHANGED <<deps, pc, database, loop, outcome, completed, raised, pending, flush, cut, window,
                 told, cancels>>

(* ... appends its committed result ... *)
Commit ==
  /\ landing = "done"
  /\ result' = [result EXCEPT ![Head(flush)] = "committed"]
  /\ landing' = "noted"
  /\ UNCHANGED <<deps, pc, row, event, called, acted, outbound, hinted, journal, loop, outcome,
                 completed, raised, pending, flush, landed, cut, window, told, cancels>>

(* ... and enters it into the action ledger. *)
CommitRecorded ==
  /\ landing = "noted"
  /\ acted' = acted \cup {Head(flush)}
  /\ flush' = Tail(flush) /\ landing' = "start"
  /\ UNCHANGED <<deps, pc, row, event, called, result, outbound, hinted, journal, loop, outcome,
                 completed, raised, pending, landed, cut, window, told, cancels>>

(* The turn goes on when the cleanup is done, or ends with the exception   *)
(* it holds.                                                               *)
Flushed ==
  /\ pc \in {"flush", "hold"} /\ flush = <<>>
  /\ pc' = IF raised \/ pc = "hold" THEN "over" ELSE "journal"
  /\ UNCHANGED <<deps, database, loop, outcome, completed, raised, cleanup, window, told, cancels>>

(* append_inner_journal for a turn that ended well; then the archive.      *)
Journal ==
  /\ pc = "journal"
  /\ journal' = (inner /\ completed /\ final \in {"responded", "no_reply"})
  /\ pc' = "over"
  /\ UNCHANGED <<deps, row, event, ledger, loop, outcome, completed, raised, cleanup, window, told,
                 cancels>>

-----------------------------------------------------------------------------
(* Cancellation. *)

Cancelled == cancels < MaxCancel /\ cancels' = cancels + 1

(* While an image is stored, or its description, no handler is in force;   *)
(* while it is described there is one of its own, which no cleanup         *)
(* follows.                                                                *)
CancelImage ==
  /\ Cancelled /\ pc \in {"image", "enter", "describe", "note"}
  /\ pc' = "over" /\ raised' = TRUE
  /\ IF pc = "describe" THEN row' = "cancelled" /\ event' = "cancelled"
     ELSE /\ row' \in {row, "received"}
          /\ event' \in {event} \cup (IF pc = "enter" THEN {"received"} ELSE {})
  /\ UNCHANGED <<deps, ledger, journal, loop, outcome, completed, cleanup, window, told>>

(* What the await of the body may have written. *)
AwaitedRow ==
  {s \in Final \cup {"proactive"} :
     \/ pc = "save" /\ deps.remember /\ s = "received"
     \/ pc = "keep" /\ deps.remember /\ s = "responded"
     \/ pc = "store" /\ deps.remember /\ s = final
     \/ pc = "store" /\ ~deps.remember /\ responded /\ s = "proactive"}
AwaitedEvent ==
  {s \in {"orphan", "finalized", "error"} :
     \/ pc = "admit" /\ s = "orphan"
     \/ pc = "settle" /\ deps.remember /\ s = IF final = "error" THEN "error" ELSE "finalized"}

(* In the body: what was awaited may have happened.  A row whose id was    *)
(* not yet known is looked for (_recover_inbound_msg_id).                  *)
CancelBody ==
  /\ Cancelled
  /\ pc \in {"save", "admit", "context", "ask", "say", "said", "keep", "hint", "hinted",
             "call", "mark", "posted", "noted", "logcall", "logresult", "record", "store", "settle"}
  /\ pc' = "undo" /\ raised' = TRUE
  /\ row' \in {row} \cup AwaitedRow /\ event' \in {event} \cup AwaitedEvent
  /\ outbound' = outbound \/ (pc \in {"said", "posted"} /\ outbound' = outbound + 1)
  /\ hinted' = hinted \/ (pc \in {"hinted", "noted"} /\ hinted' = hinted + 1)
  /\ called' = called \/ (pc = "logcall" /\ called' = called \cup {Id})
  /\ result' = result \/ (pc = "logresult" /\ result' = Resulted)
  /\ acted' = acted \/ (pc = "record" /\ acted' = acted \cup {Id})
  /\ UNCHANGED <<deps, journal, loop, outcome, completed, cleanup, window, told>>

(* In a handler: the rest of it is skipped, the cleanup is not. *)
CancelHandler ==
  /\ Cancelled /\ pc \in {"undo", "undone", "fail", "failed", "apologise"}
  /\ raised' = TRUE
  /\ BeginFlush
  /\ UNCHANGED <<deps, database, loop, outcome, completed, pending, landing, landed, cut, window,
                 told>>

(* Mutant: the cleanup is not shielded.                                    *)
CancelUnshielded ==
  /\ Cancelled /\ pc = "flush"
  /\ pc' = "over" /\ raised' = TRUE
  /\ flush' = <<>> /\ landing' = "start"
  /\ UNCHANGED <<deps, database, loop, outcome, completed, pending, landed, cut, window, told>>

(* The cleanup is shielded once: the turn goes on waiting for it. *)
CancelFlush ==
  /\ Cancelled /\ pc = "flush"
  /\ pc' = "hold" /\ raised' = TRUE
  /\ UNCHANGED <<deps, database, loop, outcome, completed, cleanup, window, told>>

(* The second time it is awaited without a shield. *)
CancelHold ==
  /\ Cancelled /\ pc = "hold"
  /\ pc' = "over" /\ cut' = TRUE
  /\ flush' = <<>> /\ landing' = "start"
  /\ UNCHANGED <<deps, database, loop, outcome, completed, raised, pending, landed, window, told>>

(* The journal entry may have been written. *)
CancelJournal ==
  /\ Cancelled /\ pc = "journal"
  /\ pc' = "over" /\ raised' = TRUE
  /\ journal' \in {FALSE, inner /\ completed /\ final \in {"responded", "no_reply"}}
  /\ UNCHANGED <<deps, row, event, ledger, loop, outcome, completed, cleanup, window, told>>

-----------------------------------------------------------------------------
Input == ImageSaved \/ ImageEntered \/ Describe \/ Described \/ Saved \/ Admitted

Answer ==
  \/ AskFails \/ Empty \/ Reject \/ Said \/ Keep
  \/ \E self, text \in BOOLEAN : Envelope(self, text)
  \/ \E n \in 1..MaxCall : \E tools \in [1..n -> Tool] : Calls(tools)
  \/ \E ok \in BOOLEAN : ContextBuilt(ok) \/ Say(ok)

Tools ==
  \/ Hinted \/ Refused \/ Posted \/ Stage \/ CallRaises \/ LogCall \/ LogResult \/ Record
  \/ \E ok \in BOOLEAN : Hint(ok) \/ Send(ok) \/ Mark(ok) \/ Status(ok) \/ Execute(ok)

End ==
  \/ Close \/ Store \/ Settle \/ SettleFails \/ FailRow \/ FailEvent \/ FailEventRaises
  \/ Apologise \/ UndoRow \/ UndoEvent
  \/ Land \/ Commit \/ CommitRecorded \/ Flushed \/ Journal

Cancel ==
  CancelImage \/ CancelBody \/ CancelHandler \/ CancelFlush \/ CancelHold \/ CancelJournal

Next == Input \/ Answer \/ Tools \/ End \/ Cancel

Spec == Init /\ [][Next]_vars /\ WF_vars(Input \/ Answer \/ Tools \/ End)
-----------------------------------------------------------------------------
(* What must hold. *)

Over == pc = "over"

(* However the turn ends, each staged write has been executed once, its    *)
(* committed result is the last word about the call and it is in the       *)
(* action ledger, unless the cleanup itself was cancelled, which takes two *)
(* cancellations (_pending_writes).  The action ledger never shows as done *)
(* what is only staged.                                                    *)
WritesOnce ==
  /\ \A c \in Call : landed[c] <= (IF Contains(pending, c) THEN 1 ELSE 0)
  /\ \A c \in acted : result[c] = IF Contains(pending, c) THEN "committed" ELSE "given"
  /\ Over /\ ~cut => \A c \in ToSet(pending) : landed[c] = 1 /\ c \in acted

(* What the bot keeps of its inner state belongs to a turn that was stored *)
(* as complete: not to one that was cancelled, whose text NapCat refused,  *)
(* or whose answer was rejected (append_inner_journal).                    *)
JournalWhole ==
  journal => /\ ~fallback /\ ~dropped
             /\ deps.remember => row \in {"responded", "no_reply"} /\ event = "finalized"

(* Nobody who was answered is told that the model is not available, but   *)
(* for one whose only answers are messages with media that could not be    *)
(* marked as used: the code takes them for failed.                         *)
NoApologyAfterReply == sorry => sent = unmarked

(* What was sent, progress messages included, is in the ledger, and        *)
(* nothing else is; a row that says it was answered has an acknowledged    *)
(* message behind it.  A cancellation may hide one message at most, and a  *)
(* message whose media could not be marked as used is never recorded.      *)
RepliesRecorded ==
  /\ outbound + unmarked <= sent /\ hinted <= hints /\ (row = "responded" => sent > unmarked)
  /\ Over => (sent - unmarked - outbound) + (hints - hinted) <= (IF cancels > 0 THEN 1 ELSE 0)

(* The working window and the rows a restart restores it from hold the     *)
(* same turns (current-design.md: startup uses the same eligibility rules  *)
(* as live window insertion), except where the code parts them: a turn     *)
(* with an acknowledged special message whose final text NapCat refused,   *)
(* and an answered one whose event could not be settled, stay in the       *)
(* window while the row says error; and a turn that is cancelled when it   *)
(* is in the window already is marked as cancelled.                        *)
WindowAsStored ==
  Over /\ deps.remember /\ cancels = 0 =>
    (window <=> row = "responded" \/ (responded /\ (dropped \/ unsettled)))
=============================================================================
