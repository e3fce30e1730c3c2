------------------------------ MODULE TurnLoop ------------------------------
(***************************************************************************)
(* One session's turns: Runtime::run_inner (runtime.rs) over the ledger's  *)
(* projection of events into provider messages (Ledger::history, round and *)
(* save_history of ledger.rs).                                             *)
(*                                                                         *)
(* A turn loads the stored projection and the events it does not cover,    *)
(* asks the model, records the round, executes its messages and then its   *)
(* tool calls one at a time, and commits the projection with the round     *)
(* marked finished.  Facts arrive from ingress at any moment; a ledger     *)
(* failure ends the turn in a process that lives on; a crash loses all but *)
(* the ledger, and the next turn rebuilds the unfinished round from it.    *)
(*                                                                         *)
(* ExecutionGate models one action in detail; here it is a start, durable, *)
(* and an outcome, or a refusal that leaves no row.                        *)
(***************************************************************************)
EXTENDS Naturals, Sequences, SequencesExt, FiniteSets

CONSTANTS
  Shape,                   \* what a model round may be: [sends, calls, ok] - the
                           \* messages and tool calls it holds, and whether its
                           \* content parses as an envelope
  MaxRounds,               \* Config::max_rounds
  MaxCorrections,          \* Config::max_corrections
  MaxTurn,                 \* bound: turns started
  MaxInbound               \* bound: inbound events

ASSUME TurnAssumption ==
  /\ \A s \in Shape : s.sends \in Nat /\ s.calls \in Nat /\ s.ok \in BOOLEAN
  /\ MaxRounds \in Nat \ {0} /\ MaxCorrections \in Nat
  /\ MaxTurn \in Nat /\ MaxInbound \in Nat

VARIABLES
  \* the ledger
  log,                     \* events that matter to a projection, in seq order
  projected,               \* projected_events: the seqs the stored projection covers
  stored,                  \* projections.messages
  rounds,                  \* table rounds, by <<turn, index>>
  rows,                    \* table actions: statuses, by <<turn, index, kind, n>>
  \* the process
  up, cancelled,
  pc,                      \* where the turn is
  turn, index,             \* the current turn and loop index
  round,                   \* the model's answer of this iteration
  kind, pos,               \* the action being handled: "send" or "tool", and its number
  history,                 \* History: messages, event_ids
  live,                    \* the messages of the next provider request
  corrections, unknown, rejected,
  feedback,                \* send_feedback: statuses of this round's messages
  last                     \* status of the turn that ended last, "none" while one runs

ledger == <<log, projected, stored, rounds, rows>>
loop == <<turn, index, round, kind, pos, history, live, corrections,
          unknown, rejected, feedback, last>>
vars == <<log, projected, stored, rounds, rows, up, cancelled, pc, turn, index,
          round, kind, pos, history, live, corrections, unknown, rejected, feedback, last>>

Idle == [sends |-> 0, calls |-> 0, ok |-> TRUE]
Seqs == 1..Len(log)

NoHistory == [messages |-> <<>>, ids |-> {}]

Message(k, ref, say) == [kind |-> k, ref |-> ref, say |-> say]
Rid == <<turn, index>>
(* Action n of kind k of a round: a key of the table actions.               *)
ActionOf(r, k, n) == <<r[1], r[2], k, n>>
Act(k, n) == ActionOf(Rid, k, n)

(* A table with one more row. *)
Inserted(table, key, row) ==
  [k \in DOMAIN table \cup {key} |-> IF k = key THEN row ELSE table[k]]

Init ==
  /\ log = <<>> /\ projected = {} /\ stored = <<>>
  /\ rounds = <<>> /\ rows = <<>>
  /\ up = TRUE /\ cancelled = FALSE
  /\ pc = "idle" /\ turn = 0 /\ index = 0 /\ round = Idle /\ kind = "send" /\ pos = 1
  /\ history = NoHistory /\ live = <<>>
  /\ corrections = 0 /\ unknown = FALSE /\ rejected = FALSE /\ feedback = <<>>
  /\ last = "none"

----------------------------------------------------------------------------
(* Ledger::history.                                                        *)

(* Mutants: calls that never started are left out; a started row counts as *)
(* no row.                                                                 *)
ReconstructedStartedOnly(r) ==
  IF rounds[r].finished \/ rounds[r].calls = 0 THEN <<>>
  ELSE LET begun == SelectSeq([n \in 1..rounds[r].calls |-> ActionOf(r, "tool", n)],
                              LAMBDA a : a \in DOMAIN rows)
       IN <<Message("assistant", r, <<>>)>> \o
          [i \in DOMAIN begun |-> Message("tool", begun[i], <<rows[begun[i]]>>)]
ReconstructedSettledOnly(r) ==
  IF rounds[r].finished \/ rounds[r].calls = 0 THEN <<>>
  ELSE <<Message("assistant", r, <<>>)>> \o
       [n \in 1..rounds[r].calls |->
          LET a == ActionOf(r, "tool", n)
          IN Message("tool", a, <<IF a \in DOMAIN rows /\ rows[a] # "started"
                                  THEN rows[a] ELSE "cancelled">>)]

(* The call/result pairs of a round that was never marked finished: each   *)
(* call with the status of its row, or cancelled if it has none.           *)
Reconstructed(r) ==
  IF rounds[r].finished \/ rounds[r].calls = 0 THEN <<>>
  ELSE <<Message("assistant", r, <<>>)>> \o
       [n \in 1..rounds[r].calls |->
          LET a == ActionOf(r, "tool", n)
          IN Message("tool", a, <<IF a \in DOMAIN rows THEN rows[a] ELSE "cancelled">>)]

Projection(e) ==
  CASE log[e].kind = "inbound" -> <<Message("user", <<e>>, <<>>)>>
    [] log[e].kind = "result"  -> <<Message("recovered", log[e].ref, <<log[e].say>>)>>
    [] log[e].kind = "round"   -> Reconstructed(log[e].ref)

(* The stored projection, and the messages of every event not covered.     *)
Fresh == FlattenSeq([e \in Seqs |-> IF e \in projected THEN <<>> ELSE Projection(e)])
History ==
  [messages |-> stored \o Fresh, ids |-> Seqs \ projected]

----------------------------------------------------------------------------
(* The start of a turn and the provider boundary.                          *)

LoadHistory ==
  /\ up /\ pc = "idle" /\ turn < MaxTurn
  /\ turn' = turn + 1 /\ index' = 0
  /\ history' = History
  /\ pc' = "loaded" /\ last' = "none"
  /\ UNCHANGED <<ledger, up, cancelled, round, kind, pos, live, corrections, unknown,
                 rejected, feedback>>

SaveHistory ==
  /\ stored' = history.messages
  /\ projected' = projected \cup history.ids

SaveLoaded ==
  /\ pc = "loaded"
  /\ SaveHistory
  /\ live' = history.messages
  /\ pc' = "routing"
  /\ UNCHANGED <<log, rounds, rows, up, cancelled, turn, index, round, kind, pos,
                 history, corrections, unknown, rejected, feedback, last>>

(* The variables of one iteration, and those of the whole turn, go out of  *)
(* scope.                                                                  *)
LeaveRound ==
  /\ round' = Idle /\ kind' = "send" /\ pos' = 1 /\ feedback' = <<>>
  /\ unknown' = FALSE /\ rejected' = FALSE
LeaveTurn ==
  /\ LeaveRound
  /\ history' = NoHistory /\ live' = <<>> /\ corrections' = 0
End(status) ==
  /\ pc' = "idle" /\ last' = status
  /\ LeaveTurn
  /\ UNCHANGED <<up, cancelled, turn, index>>

(* The router may keep silent; cancellation is silence, reported as such.  *)
RouteSilent ==
  /\ pc = "routing"
  /\ End(IF cancelled THEN "cancelled" ELSE "silent")
  /\ UNCHANGED ledger

(* Any other route, or a failing router, generates.                        *)
RouteGenerate ==
  /\ pc = "routing"
  /\ pc' = "top"
  /\ UNCHANGED <<ledger, up, cancelled, loop>>

(* Mutant: the loop bound is off by one.                                   *)
EndLoopLate ==
  /\ pc = "top"
  /\ \/ index > MaxRounds /\ End("round_limit")
     \/ index < MaxRounds /\ cancelled /\ End("cancelled")
  /\ UNCHANGED ledger

EndLoop ==
  /\ pc = "top"
  /\ \/ index = MaxRounds /\ End("round_limit")
     \/ index < MaxRounds /\ cancelled /\ End("cancelled")
  /\ UNCHANGED ledger

(* New facts join the request only here, behind complete native pairs.     *)
Refresh ==
  /\ pc = "top" /\ index < MaxRounds /\ ~cancelled
  /\ IF Len(History.messages) > Len(history.messages)
     THEN /\ live' = live \o SubSeq(History.messages, Len(history.messages) + 1,
                                    Len(History.messages))
          /\ history' = History
     ELSE UNCHANGED <<live, history>>
  /\ pc' = "asking"
  /\ UNCHANGED <<ledger, up, cancelled, turn, index, round, kind, pos, corrections,
                 unknown, rejected, feedback, last>>

(* The context exceeds its budget, the provider fails, or the token is     *)
(* cancelled while the request is out.                                     *)
AskFails ==
  /\ pc = "asking"
  /\ \E s \in {"context_limit", "provider_error"} \cup (IF cancelled THEN {"cancelled"} ELSE {}) :
       End(s)
  /\ UNCHANGED ledger

(* Model::complete answers and Ledger::round records the proposal and its  *)
(* event in one transaction.                                               *)
RecordRound(shape) ==
  /\ pc = "asking"
  /\ rounds' = Inserted(rounds, Rid, [calls |-> shape.calls, ok |-> shape.ok, finished |-> FALSE])
  /\ log' = Append(log, [kind |-> "round", ref |-> Rid, say |-> "proposed"])
  /\ history' = [history EXCEPT !.ids = @ \cup {Len(log) + 1}]
  /\ live' = Append(live, Message("assistant", Rid, <<>>))
  /\ round' = shape
  /\ pc' = IF shape.ok THEN "acting" ELSE "malformed"
  /\ UNCHANGED <<projected, stored, rows, up, cancelled, turn, index, kind, pos,
                 corrections, unknown, rejected, feedback, last>>

----------------------------------------------------------------------------
(* The actions of a round.                                                 *)

Count == IF kind = "send" THEN round.sends ELSE round.calls
Current == Act(kind, pos)

(* Mutant: the doubt is about the last feedback only.                      *)
NoteLast(status) ==
  /\ IF kind = "send"
     THEN /\ feedback' = Append(feedback, status)
          /\ rejected' = (rejected \/ status = "rejected")
          /\ UNCHANGED live
     ELSE /\ live' = Append(live, Message("tool", Current, <<status>>))
          /\ UNCHANGED <<feedback, rejected>>
  /\ unknown' = (status = "unknown")
  /\ pos' = pos + 1

(* The loop takes note of one feedback: a message's is kept for the        *)
(* observation after the round, a call's becomes its native result.        *)
Note(status) ==
  /\ IF kind = "send"
     THEN /\ feedback' = Append(feedback, status)
          /\ rejected' = (rejected \/ status = "rejected")
          /\ UNCHANGED live
     ELSE /\ live' = Append(live, Message("tool", Current, <<status>>))
          /\ UNCHANGED <<feedback, rejected>>
  /\ unknown' = (unknown \/ status = "unknown")
  /\ pos' = pos + 1

NoteInHistory(status, ids) ==
  history' = [messages |-> IF kind = "send" THEN history.messages
                           ELSE Append(history.messages, Message("tool", Current, <<status>>)),
              ids |-> history.ids \cup ids]

(* After an unknown receipt the rest of the round is not even proposed to  *)
(* the executor.                                                           *)
SkipAction ==
  /\ pc = "acting" /\ pos <= Count /\ unknown
  /\ Note("cancelled") /\ NoteInHistory("cancelled", {})
  /\ UNCHANGED <<ledger, up, cancelled, pc, turn, index, round, kind, corrections, last>>

(* Executor::execute returns before the start: validation, the reviewer, a *)
(* stale review or unreadable arguments reject; cancellation cancels.      *)
RefuseAction ==
  /\ pc = "acting" /\ pos <= Count /\ ~unknown
  /\ \E s \in {"rejected"} \cup (IF cancelled THEN {"cancelled"} ELSE {}) :
       Note(s) /\ NoteInHistory(s, {})
  /\ UNCHANGED <<ledger, up, cancelled, pc, turn, index, round, kind, corrections, last>>

StartAction ==
  /\ pc = "acting" /\ pos <= Count /\ ~unknown
  /\ rows' = Inserted(rows, Current, "started")
  /\ pc' = "executing"
  /\ UNCHANGED <<log, projected, stored, rounds, up, cancelled, loop>>

FinishAction ==
  /\ pc = "executing"
  /\ \E s \in IF kind = "send" THEN {"succeeded", "rejected", "unknown"}
              ELSE {"succeeded", "failed", "unknown"} :
       /\ rows' = [rows EXCEPT ![Current] = s]
       /\ log' = Append(log, [kind |-> "result", ref |-> Current, say |-> s])
       /\ Note(s) /\ NoteInHistory(s, {Len(log) + 1})
  /\ pc' = "acting"
  /\ UNCHANGED <<projected, stored, rounds, up, cancelled, turn, index, round, kind,
                 corrections, last>>

(* Messages done: the proposal enters the projection without its drafts -  *)
(* as native calls, or as the messages really sent.                        *)
SendsDone ==
  /\ pc = "acting" /\ kind = "send" /\ pos > round.sends
  /\ history' = [history EXCEPT !.messages =
       IF round.calls > 0 THEN Append(@, Message("assistant", Rid, <<>>))
       ELSE IF \E i \in DOMAIN feedback : feedback[i] = "succeeded"
            THEN Append(@, Message("said", Rid, <<>>)) ELSE @]
  /\ kind' = "tool" /\ pos' = 1
  /\ UNCHANGED <<ledger, up, cancelled, pc, turn, index, round, live, corrections,
                 unknown, rejected, feedback, last>>

(* The observation of the sends joins both transcripts, and the projection *)
(* is committed with the round marked finished.                            *)
SentNote == IF feedback = <<>> THEN <<>> ELSE <<Message("sends", Rid, feedback)>>

(* Mutants: the projection is taken to cover whatever the ledger holds; the *)
(* round is not marked finished.                                           *)
SaveRoundAll(messages) ==
  /\ stored' = messages
  /\ projected' = Seqs
  /\ rounds' = [rounds EXCEPT ![Rid].finished = TRUE]
SaveRoundOpen(messages) ==
  /\ stored' = messages
  /\ projected' = projected \cup history.ids
  /\ UNCHANGED rounds

SaveRound(messages) ==
  /\ stored' = messages
  /\ projected' = projected \cup history.ids
  /\ rounds' = [rounds EXCEPT ![Rid].finished = TRUE]

Continue(tail, corrected) ==
  /\ pc' = "top" /\ index' = index + 1
  /\ LeaveRound
  /\ history' = [history EXCEPT !.messages = stored'] /\ live' = live \o tail
  /\ corrections' = corrected
  /\ UNCHANGED <<up, cancelled, turn, last>>

(* Mutant: rejected messages and unparsable content have a budget each.    *)
CorrectApart(tail, status) ==
  LET alike == {r \in DOMAIN rounds : /\ r[1] = turn /\ r # Rid /\ rounds[r].ok = round.ok
                                      /\ rounds[r].ok => rounds[r].calls = 0}
  IN IF Cardinality(alike) + 1 > MaxCorrections
     THEN End(status) ELSE Continue(tail, corrections + 1)

(* Another round, unless that is one correction too many.                  *)
Correct(tail, status) ==
  IF corrections + 1 > MaxCorrections THEN End(status) ELSE Continue(tail, corrections + 1)

RoundDone ==
  /\ pc = "acting" /\ kind = "tool" /\ pos > round.calls
  /\ SaveRound(history.messages \o SentNote)
  /\ \/ cancelled /\ End("cancelled")
     \/ ~cancelled /\ unknown /\ End("unknown_receipt")
     \/ ~cancelled /\ ~unknown /\ round.calls > 0 /\ Continue(SentNote, corrections)
     \/ /\ ~cancelled /\ ~unknown /\ round.calls = 0
        /\ IF rejected THEN Correct(SentNote, "review_rejected") ELSE End("completed")
  /\ UNCHANGED <<log, rows>>

(* Content that does not parse executes nothing: every call is answered    *)
(* with a rejection, the error is observed, and the round is finished.     *)
Malformed ==
  LET answers == [n \in 1..round.calls |-> Message("tool", Act("tool", n), <<"rejected">>)]
      native == IF round.calls = 0 THEN <<>> ELSE <<Message("assistant", Rid, <<>>)>>
      error == <<Message("error", Rid, <<>>)>>
  IN /\ pc = "malformed"
     /\ SaveRound(history.messages \o native \o answers \o error)
     /\ Correct(answers \o error, "protocol_error")
     /\ UNCHANGED <<log, rows>>

----------------------------------------------------------------------------
(* The surroundings.                                                       *)

Inbound ==
  /\ up
  /\ Cardinality({e \in Seqs : log[e].kind = "inbound"}) < MaxInbound
  /\ log' = Append(log, [kind |-> "inbound", ref |-> <<Len(log) + 1>>, say |-> "fact"])
  /\ UNCHANGED <<projected, stored, rounds, rows, up, cancelled, pc, loop>>

Cancel ==
  /\ up /\ ~cancelled
  /\ cancelled' = TRUE
  /\ UNCHANGED <<ledger, up, pc, loop>>

(* A ledger error leaves run_inner through `?` before its write takes      *)
(* place; the turn has no turn_end and the process goes on.                *)
LedgerFails ==
  /\ \/ pc \in {"loaded", "routing", "top", "asking", "executing", "malformed"}
     \/ pc = "acting" /\ (pos <= Count => ~unknown) /\ (pos > Count => kind = "tool")
  /\ End("error")
  /\ UNCHANGED ledger

Crash ==
  /\ up
  /\ up' = FALSE /\ cancelled' = FALSE
  /\ pc' = "idle" /\ last' = "none" /\ index' = 0
  /\ LeaveTurn
  /\ UNCHANGED <<ledger, turn>>

(* Ledger::recover, over actions in the order of their rows.               *)
Recover ==
  LET left == {a \in DOMAIN rows : rows[a] = "started"} IN
  /\ ~up
  /\ up' = TRUE
  /\ rows' = [a \in DOMAIN rows |-> IF a \in left THEN "unknown" ELSE rows[a]]
  /\ \E order \in SetToSeqs(left) :
       log' = log \o [i \in DOMAIN order |->
                        [kind |-> "result", ref |-> order[i], say |-> "unknown"]]
  /\ UNCHANGED <<projected, stored, rounds, cancelled, pc, loop>>

TurnStep ==
  \/ SaveLoaded \/ RouteSilent \/ RouteGenerate \/ EndLoop \/ Refresh \/ AskFails
  \/ \E shape \in Shape : RecordRound(shape)
  \/ SkipAction \/ RefuseAction \/ StartAction \/ FinishAction \/ SendsDone
  \/ RoundDone \/ Malformed

Next == LoadHistory \/ TurnStep \/ Inbound \/ Cancel \/ LedgerFails \/ Crash \/ Recover

Spec == Init /\ [][Next]_vars /\ WF_vars(TurnStep) /\ WF_vars(Recover)

----------------------------------------------------------------------------
(* Properties.                                                             *)

IsTurn == 1..MaxTurn
CallsOf(m) == IF m.kind = "assistant" THEN rounds[m.ref].calls ELSE 0

(* Native history is complete pairs: an assistant message with n calls is  *)
(* followed at once by its n results in order, and no result stands        *)
(* anywhere else - whatever facts, crashes and failures came in between    *)
(* (history and save_history; current-design.md, native pairs).            *)
Paired(messages) ==
  /\ \A i \in DOMAIN messages : \A n \in 1..CallsOf(messages[i]) :
       /\ i + n <= Len(messages)
       /\ messages[i + n].kind = "tool"
       /\ messages[i + n].ref = ActionOf(messages[i].ref, "tool", n)
  /\ \A j \in DOMAIN messages : messages[j].kind = "tool" =>
       \E i \in 1..(j - 1) : j - i <= CallsOf(messages[i])
PairedCalls == Paired(stored) /\ (pc = "asking" => Paired(live))

(* No result the model was ever given contradicts the ledger, then or      *)
(* later: cancelled means that the action never started, a rejection that  *)
(* it never started or did not get out, and an outcome is the recorded one.*)
Agrees(a, s) ==
  CASE s = "cancelled" -> a \notin DOMAIN rows
    [] s = "rejected"  -> a \in DOMAIN rows => rows[a] = "rejected"
    [] s = "started"   -> a \in DOMAIN rows /\ rows[a] \in {"started", "unknown"}
    [] OTHER           -> a \in DOMAIN rows /\ rows[a] = s
TruthfulIn(messages) ==
  \A i \in DOMAIN messages :
    LET m == messages[i] IN
    /\ m.kind \in {"tool", "recovered"} => Agrees(m.ref, m.say[1])
    /\ m.kind = "sends" =>
         \A n \in DOMAIN m.say : Agrees(ActionOf(m.ref, "send", n), m.say[n])
ToolTruth == TruthfulIn(stored) /\ (pc = "asking" => TruthfulIn(live))

(* Whatever the ledger counts as projected was told: each inbound fact     *)
(* exactly once, each action result by its pair, by the observation of     *)
(* sends or as a recovered result.  The same holds of the request about to *)
(* be made and the events its turn has loaded.                             *)
Tells(m, e) ==
  LET a == log[e].ref IN
  \/ m.kind \in {"tool", "recovered"} /\ m.ref = a /\ m.say = <<log[e].say>>
  \/ /\ m.kind = "sends" /\ a[3] = "send" /\ m.ref = <<a[1], a[2]>>
     /\ m.say[a[4]] = log[e].say
HiddenIn(messages, covered) ==
  {e \in Seqs :
     \/ /\ log[e].kind = "inbound"
        /\ Cardinality({i \in DOMAIN messages :
             messages[i].kind = "user" /\ messages[i].ref = <<e>>})
           # (IF e \in covered THEN 1 ELSE 0)
     \/ /\ log[e].kind = "result" /\ e \in covered
        /\ \A i \in DOMAIN messages : ~Tells(messages[i], e)}
NothingHidden ==
  /\ HiddenIn(stored, projected) = {}
  /\ pc = "asking" => HiddenIn(live, projected \cup history.ids) = {}

(* No action of a turn starts once the outcome of another action of that   *)
(* turn is in doubt (runtime.rs: earlier send has unknown receipt).        *)
StartWithoutDoubt ==
  \A a \in DOMAIN rows' \ DOMAIN rows :
    \A b \in DOMAIN rows : b[1] = a[1] => rows[b] \notin {"started", "unknown"}
NoStartInDoubt == [][StartWithoutDoubt]_vars

(* A turn that ends in order leaves every round of it finished and in the  *)
(* projection; it ends as completed only if nothing of it is in doubt and  *)
(* nothing its last round sent was rejected.                               *)
OrderlyEnd ==
  pc = "idle" /\ last \notin {"none", "error"} =>
    /\ \A r \in DOMAIN rounds : r[1] = turn => rounds[r].finished
    /\ \A e \in Seqs : log[e].kind # "inbound" /\ log[e].ref[1] = turn => e \in projected
    /\ last = "completed" =>
         \A a \in DOMAIN rows : a[1] = turn =>
           /\ rows[a] \notin {"started", "unknown"}
           /\ a[2] = index => rows[a] # "rejected"

(* A turn asks the model again at most max_corrections times in all after  *)
(* a round that held nothing to answer - unparsable content, or messages   *)
(* that were rejected: the two share the budget - and unparsable content   *)
(* executes nothing (runtime.rs: malformed content executes nothing).      *)
AskedAfter(r) ==
  \/ <<r[1], r[2] + 1>> \in DOMAIN rounds
  \/ pc = "asking" /\ r[1] = turn /\ r[2] < index
CorrectionBudget ==
  LET corrected == {r \in DOMAIN rounds :
                      (rounds[r].ok => rounds[r].calls = 0) /\ AskedAfter(r)}
  IN /\ \A t \in IsTurn : Cardinality({r \in corrected : r[1] = t}) <= MaxCorrections
     /\ \A a \in DOMAIN rows : rounds[<<a[1], a[2]>>].ok

(* Every turn ends, by a status, an error or a crash.                      *)
TurnEnds == pc # "idle" ~> pc = "idle"
=============================================================================
