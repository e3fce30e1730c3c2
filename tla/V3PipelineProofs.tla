-------------------------- MODULE V3PipelineProofs --------------------------
(* That ledger, row, window, journal and the user agree at the end of a    *)
(* turn, for any limits and any number of answers, calls and cancellations.*)
EXTENDS V3Pipeline, TLAPS

(* The turn is over but for its cleanup. *)
Ended == {"flush", "hold", "journal", "over"}
(* An exception has left the body. *)
Left == {"undo", "undone", "fail", "failed", "apologise"} \cup Ended
(* A round of tool calls is being executed. *)
Calling == {"hint", "hinted", "call", "mark", "posted", "noted", "logcall", "logresult", "record"}
(* No answer has been taken yet. *)
Before == {"image", "enter", "describe", "note", "save", "admit", "context", "ask"}

-----------------------------------------------------------------------------
(* Types. *)

(* A call that is executed is one of its round, a write that is being done *)
(* is the first of those left, and no answer is rejected once too often.   *)
TypeInv ==
  /\ TypeOK
  /\ pc \in Calling => at \in 1..Len(round)
  /\ pc \in Before \cup Calling => rewrites <= MaxRewrite
  /\ landing # "start" => flush # <<>>
  /\ pc \notin Ended => flush = <<>> /\ landing = "start"

(* The types hold when the turn begins. *)
LEMMA TypeInit == Init => TypeInv
<1> SUFFICES ASSUME Init PROVE TypeInv
  OBVIOUS
<1> USE PipelineAssumption
<1>1. /\ called \subseteq Call /\ result \in [Call -> {"none", "staged", "given", "committed"}]
      /\ acted \subseteq Call /\ landed \in [Call -> Nat]
  BY DEF Init
<1>2. /\ step \in 1..MaxStep /\ rewrites \in 0..MaxRewrite + 1 /\ sends \in Nat /\ at \in 0..MaxCall
      /\ cancels \in 0..MaxCancel /\ outbound \in Nat /\ hinted \in Nat /\ sent \in Nat
      /\ hints \in Nat /\ unmarked \in Nat
  BY DEF Init
<1>3. round \in Seq(Tool) /\ Len(round) <= MaxCall /\ pending \in Seq(Call) /\ flush \in Seq(Call)
  BY DEF Init
<1>4. /\ deps \in [remember: BOOLEAN, visible: BOOLEAN, image: BOOLEAN, precreated: BOOLEAN]
      /\ pc \in {"image", "save"} /\ row = "none" /\ event \in {"none", "received"}
      /\ final = "received" /\ landing = "start"
  BY DEF Init
<1>5. fails \in [tool: Tool \cup {"none"}, count: Nat]
  BY DEF Init, NoFail
<1>6. /\ journal \in BOOLEAN /\ responded \in BOOLEAN /\ inner \in BOOLEAN /\ fallback \in BOOLEAN
      /\ completed \in BOOLEAN /\ raised \in BOOLEAN /\ window \in BOOLEAN /\ sorry \in BOOLEAN
      /\ dropped \in BOOLEAN /\ cut \in BOOLEAN /\ unsettled \in BOOLEAN
  BY DEF Init
<1>7. rewrites = 0 /\ pc \notin Calling /\ flush = <<>>
  BY DEF Init, Calling
<1>. QED
  BY <1>1, <1>2, <1>3, <1>4, <1>5, <1>6, <1>7 DEF TypeInv, TypeOK, Final

(* Where the next call of a round leads. *)
LEMMA NextCallType ==
  ASSUME TypeInv, pc \in Calling, NextCall
  PROVE  /\ at' \in 0..MaxCall /\ step' \in 1..MaxStep /\ final' \in Final
         /\ round' \in Seq(Tool) /\ Len(round') <= MaxCall
         /\ pc' \in {"call", "ask", "close"} /\ (pc' = "call" => at' \in 1..Len(round'))
<1> USE PipelineAssumption DEF TypeInv, TypeOK
<1>1. CASE at < Len(round)
  BY <1>1 DEF NextCall, Calling
<1>2. CASE ~(at < Len(round))
  <2>1. at' = 0 /\ round' = <<>> /\ final' \in Final
    BY <1>2 DEF NextCall, Final
  <2>2. pc' \in {"ask", "close"} /\ step' \in 1..MaxStep
    BY <1>2 DEF NextCall, Again
  <2>. QED
    BY <2>1, <2>2
<1>. QED
  BY <1>1, <1>2

(* A step of the turn, of its cleanup or a cancellation keeps the types. *)
LEMMA TypeStep == TypeInv /\ [Next]_vars => TypeInv'
<1> SUFFICES ASSUME TypeInv, [Next]_vars PROVE TypeInv'
  OBVIOUS
<1> USE PipelineAssumption
    DEF TypeInv, TypeOK, Final, Ended, Before, Calling, database, ledger, loop, outcome, cleanup, told
<1>1. CASE Input
  <2>1. CASE ImageSaved
    BY <2>1 DEF ImageSaved
  <2>2. CASE ImageEntered
    BY <2>2 DEF ImageEntered
  <2>3. CASE Describe
    BY <2>3 DEF Describe
  <2>4. CASE Described
    BY <2>4 DEF Described
  <2>5. CASE Saved
    BY <2>5 DEF Saved
  <2>6. CASE Admitted
    BY <2>6 DEF Admitted
  <2>. QED
    BY <1>1, <2>1, <2>2, <2>3, <2>4, <2>5, <2>6 DEF Input
<1>2. CASE Answer
  <2>1. CASE AskFails
    BY <2>1 DEF AskFails
  <2>2. CASE Empty
    BY <2>2 DEF Empty
  <2>3. CASE Reject
    <3>1. rewrites \in 0..MaxRewrite /\ rewrites' = rewrites + 1
      BY <2>3 DEF Reject
    <3>2. CASE rewrites = MaxRewrite
      <4>1. pc' \in {"say", "close"} /\ final' \in Final /\ fallback' \in BOOLEAN /\ step' = step
        BY <2>3, <3>2 DEF Reject
      <4>. QED
        BY <2>3, <3>1, <4>1 DEF Reject
    <3>3. CASE rewrites # MaxRewrite
      <4>1. /\ pc' \in {"ask", "close"} /\ step' \in 1..MaxStep
            /\ fallback' = fallback /\ final' = final
        BY <2>3, <3>3 DEF Reject, Again
      <4>. QED
        BY <2>3, <3>1, <3>3, <4>1 DEF Reject
    <3>. QED
      BY <3>2, <3>3
  <2>4. CASE Said
    BY <2>4 DEF Said
  <2>5. CASE Keep
    BY <2>5 DEF Keep
  <2>6. ASSUME NEW self \in BOOLEAN, NEW text \in BOOLEAN, Envelope(self, text) PROVE TypeInv'
    BY <2>6 DEF Envelope, Unsaid
  <2>7. ASSUME NEW n \in 1..MaxCall, NEW tools \in [1..n -> Tool], Calls(tools) PROVE TypeInv'
    BY <2>7 DEF Calls
  <2>8. ASSUME NEW ok \in BOOLEAN, ContextBuilt(ok) PROVE TypeInv'
    BY <2>8 DEF ContextBuilt
  <2>9. ASSUME NEW ok \in BOOLEAN, Say(ok) PROVE TypeInv'
    <3>1. CASE ok
      BY <2>9, <3>1 DEF Say
    <3>2. CASE ~ok
      BY <2>9, <3>2 DEF Say
    <3>. QED
      BY <3>1, <3>2
  <2>. QED
    BY <1>2, <2>1, <2>2, <2>3, <2>4, <2>5, <2>6, <2>7, <2>8, <2>9 DEF Answer
<1>3. CASE Tools
  <2>1. CASE Hinted
    BY <2>1 DEF Hinted
  <2>2. CASE Refused
    BY <2>2 DEF Refused, Counted
  <2>3. CASE Posted
    BY <2>3 DEF Posted
  <2>4. CASE Stage
    BY <2>4 DEF Stage, Counted, Id, Call
  <2>5. CASE LogCall
    BY <2>5 DEF LogCall, Id, Call
  <2>6. CASE LogResult
    <3>1. pc \in Calling /\ Id \in Call
      BY <2>6 DEF LogResult, Id, Call
    <3>2. result' \in [Call -> {"none", "staged", "given", "committed"}]
      BY <2>6, <3>1 DEF LogResult, Resulted
    <3>3. CASE Contains(pending, Id)
      BY <2>6, <3>1, <3>2, <3>3, NextCallType DEF LogResult
    <3>4. CASE ~Contains(pending, Id)
      BY <2>6, <3>2, <3>4 DEF LogResult
    <3>. QED
      BY <3>3, <3>4
  <2>7. CASE Record
    <3>1. pc \in Calling /\ Id \in Call
      BY <2>7 DEF Record, Id, Call
    <3>. QED
      BY <2>7, <3>1, NextCallType DEF Record
  <2>8. ASSUME NEW ok \in BOOLEAN, Hint(ok) PROVE TypeInv'
    BY <2>8 DEF Hint
  <2>9. ASSUME NEW ok \in BOOLEAN, Send(ok) PROVE TypeInv'
    <3>1. fails' \in [tool: Tool \cup {"none"}, count: Nat] /\ sends' \in Nat
      BY <2>9 DEF Send, Counted
    <3>2. CASE ok /\ deps.visible
      BY <2>9, <3>1, <3>2 DEF Send
    <3>3. CASE ~(ok /\ deps.visible)
      BY <2>9, <3>1, <3>3 DEF Send
    <3>. QED
      BY <3>2, <3>3
  <2>10. ASSUME NEW ok \in BOOLEAN, Status(ok) PROVE TypeInv'
    BY <2>10 DEF Status, Counted
  <2>11. ASSUME NEW ok \in BOOLEAN, Execute(ok) PROVE TypeInv'
    BY <2>11 DEF Execute, Counted
  <2>12. CASE CallRaises
    BY <2>12 DEF CallRaises
  <2>13. ASSUME NEW ok \in BOOLEAN, Mark(ok) PROVE TypeInv'
    <3>1. fails' \in [tool: Tool \cup {"none"}, count: Nat]
      BY <2>13 DEF Mark, Counted
    <3>2. CASE ok
      BY <2>13, <3>1, <3>2 DEF Mark
    <3>3. CASE ~ok
      BY <2>13, <3>1, <3>3 DEF Mark
    <3>. QED
      BY <3>2, <3>3
  <2>. QED
    BY <1>3, <2>1, <2>2, <2>3, <2>4, <2>5, <2>6, <2>7, <2>8, <2>9, <2>10, <2>11, <2>12,
       <2>13 DEF Tools
<1>4. CASE End
  <2>1. CASE Close
    BY <2>1 DEF Close
  <2>2. CASE Store
    BY <2>2 DEF Store
  <2>3. CASE Settle
    <3>1. event' \in {"none", "received", "orphan", "finalized", "cancelled", "error"}
      BY <2>3 DEF Settle
    <3>2. pc' = "flush" /\ flush' = pending /\ completed' = TRUE /\ landing = "start"
      BY <2>3 DEF Settle, BeginFlush
    <3>. QED
      BY <2>3, <3>1, <3>2 DEF Settle
  <2>4. CASE FailRow
    BY <2>4 DEF FailRow
  <2>5. CASE FailEvent
    <3>1. event' \in {"none", "received", "orphan", "finalized", "cancelled", "error"}
      BY <2>5 DEF FailEvent
    <3>2. /\ flush' \in Seq(Call) /\ landing = "start" /\ pc' \in {"flush", "apologise"}
          /\ pc' = "apologise" => flush' = <<>>
      BY <2>5 DEF FailEvent, BeginFlush
    <3>. QED
      BY <2>5, <3>1, <3>2 DEF FailEvent
  <2>6. CASE Apologise
    <3>1. pc' = "flush" /\ flush' = pending /\ landing = "start" /\ sorry' = TRUE
      BY <2>6 DEF Apologise, BeginFlush
    <3>. QED
      BY <2>6, <3>1 DEF Apologise
  <2>7. CASE UndoRow
    BY <2>7 DEF UndoRow
  <2>8. CASE UndoEvent
    <3>1. event' \in {"none", "received", "orphan", "finalized", "cancelled", "error"}
      BY <2>8 DEF UndoEvent
    <3>2. pc' = "flush" /\ flush' = pending /\ landing = "start"
      BY <2>8 DEF UndoEvent, BeginFlush
    <3>. QED
      BY <2>8, <3>1, <3>2 DEF UndoEvent
  <2>9. CASE Land
    BY <2>9 DEF Land
  <2>10. CASE Commit
    BY <2>10 DEF Commit
  <2>11. CASE CommitRecorded
    BY <2>11 DEF CommitRecorded
  <2>12. CASE Flushed
    BY <2>12 DEF Flushed
  <2>13. CASE Journal
    BY <2>13 DEF Journal
  <2>14. CASE SettleFails
    BY <2>14 DEF SettleFails
  <2>15. CASE FailEventRaises
    <3>1. pc' = "flush" /\ flush' = pending /\ landing = "start" /\ raised' = TRUE
      BY <2>15 DEF FailEventRaises, BeginFlush
    <3>. QED
      BY <2>15, <3>1 DEF FailEventRaises
  <2>. QED
    BY <1>4, <2>1, <2>2, <2>3, <2>4, <2>5, <2>6, <2>7, <2>8, <2>9, <2>10, <2>11, <2>12,
       <2>13, <2>14, <2>15 DEF End
<1>5. CASE Cancel
  <2>1. CASE CancelImage
    BY <2>1 DEF CancelImage, Cancelled
  <2>2. CASE CancelBody
    <3>1. row' \in Final \cup {"none", "proactive"}
      BY <2>2 DEF CancelBody, AwaitedRow
    <3>2. event' \in {"none", "received", "orphan", "finalized", "cancelled", "error"}
      BY <2>2 DEF CancelBody, AwaitedEvent
    <3>3. outbound' \in Nat /\ hinted' \in Nat /\ cancels' \in 0..MaxCancel
      BY <2>2 DEF CancelBody, Cancelled
    <3>4. pc \in Calling => Id \in Call
      BY DEF Id, Call
    <3>5. called' \subseteq Call /\ acted' \subseteq Call
      BY <2>2, <3>4 DEF CancelBody
    <3>6. result' \in [Call -> {"none", "staged", "given", "committed"}]
      BY <2>2, <3>4 DEF CancelBody, Resulted
    <3>7. pc' = "undo" /\ raised' = TRUE /\ flush = <<>>
      BY <2>2 DEF CancelBody
    <3>8. /\ deps' = deps /\ journal' = journal /\ loop' = loop /\ outcome' = outcome
          /\ completed' = completed /\ cleanup' = cleanup /\ window' = window /\ told' = told
      BY <2>2 DEF CancelBody
    <3>. QED
      BY <3>1, <3>2, <3>3, <3>5, <3>6, <3>7, <3>8
  <2>3. CASE CancelHandler
    <3>1. cancels' \in 0..MaxCancel /\ raised' = TRUE /\ pc' = "flush" /\ flush' = pending
      BY <2>3 DEF CancelHandler, Cancelled, BeginFlush
    <3>2. landing = "start"
      BY <2>3 DEF CancelHandler
    <3>. QED
      BY <2>3, <3>1, <3>2 DEF CancelHandler
  <2>4. CASE CancelFlush
    BY <2>4 DEF CancelFlush, Cancelled
  <2>5. CASE CancelHold
    BY <2>5 DEF CancelHold, Cancelled
  <2>6. CASE CancelJournal
    <3>1. journal' \in BOOLEAN /\ raised' \in BOOLEAN
      BY <2>6 DEF CancelJournal
    <3>. QED
      BY <2>6, <3>1 DEF CancelJournal, Cancelled
  <2>. QED
    BY <1>5, <2>1, <2>2, <2>3, <2>4, <2>5, <2>6 DEF Cancel
<1>6. CASE UNCHANGED vars
  BY <1>6 DEF vars
<1>. QED
  BY <1>1, <1>2, <1>3, <1>4, <1>5, <1>6 DEF Next

-----------------------------------------------------------------------------
(* What the user was told. *)

(* A turn that goes on knows what it has sent; what was sent and is not in *)
(* the ledger yet is just being entered, unless a cancellation came first. *)
SentInv ==
  /\ sent \in Nat /\ outbound \in Nat /\ hints \in Nat /\ hinted \in Nat /\ cancels \in Nat
  /\ unmarked \in Nat /\ responded \in BOOLEAN
  /\ responded \/ final = "responded" \/ row = "responded" => sent > unmarked
  /\ pc \notin Left \cup {"said", "mark"} => (sent > unmarked => responded)
  /\ pc \in {"said", "keep", "mark", "posted"} => sent > unmarked
  /\ pc = "mark" =>
       /\ responded \/ final = "responded" \/ row = "responded" => sent > unmarked + 1
       /\ sent > unmarked + 1 => responded
  /\ pc \in {"fail", "failed"} => (sent > unmarked => responded)
  /\ pc = "apologise" => sent = unmarked
  /\ sorry => sent = unmarked /\ pc \in Ended
  /\ outbound + unmarked <= sent /\ hinted <= hints
  /\ pc \in {"said", "mark", "posted"} => sent = outbound + unmarked + 1 /\ hints = hinted
  /\ pc \in {"hinted", "noted"} => sent = outbound + unmarked /\ hints = hinted + 1
  /\ pc \notin {"said", "mark", "posted", "hinted", "noted", "undo", "undone"} \cup Ended =>
       sent = outbound + unmarked /\ hints = hinted
  /\ (sent - unmarked - outbound) + (hints - hinted) <= 1
  /\ pc \in {"undo", "undone"} \cup Ended /\ cancels = 0 =>
       sent = outbound + unmarked /\ hints = hinted
  /\ pc \in {"undo", "undone"} => cancels > 0

(* Nothing is sent yet. *)
LEMMA SentInit == Init => SentInv
<1> SUFFICES ASSUME Init PROVE SentInv
  OBVIOUS
<1>1. pc \in {"image", "save"} /\ row = "none" /\ final = "received"
  BY DEF Init
<1>2. sent = 0 /\ outbound = 0 /\ hints = 0 /\ hinted = 0 /\ unmarked = 0 /\ cancels = 0
  BY DEF Init
<1>3. responded \in BOOLEAN /\ ~responded /\ ~sorry
  BY DEF Init
<1>. QED
  BY <1>1, <1>2, <1>3 DEF SentInv, Left, Ended

(* No step sends a message and forgets it, but for a cancelled one. *)
LEMMA SentStep == SentInv /\ [Next]_vars => SentInv'
<1> SUFFICES ASSUME SentInv, [Next]_vars PROVE SentInv'
  OBVIOUS
<1> USE DEF SentInv, Left, Ended, database, ledger, loop, outcome, cleanup, told
<1>1. CASE Input
  <2>1. CASE ImageSaved
    BY <2>1 DEF ImageSaved
  <2>2. CASE ImageEntered
    BY <2>2 DEF ImageEntered
  <2>3. CASE Describe
    BY <2>3 DEF Describe
  <2>4. CASE Described
    BY <2>4 DEF Described
  <2>5. CASE Saved
    BY <2>5 DEF Saved
  <2>6. CASE Admitted
    BY <2>6 DEF Admitted
  <2>. QED
    BY <1>1, <2>1, <2>2, <2>3, <2>4, <2>5, <2>6 DEF Input
<1>2. CASE Answer
  <2>1. CASE AskFails
    BY <2>1 DEF AskFails
  <2>2. CASE Empty
    BY <2>2 DEF Empty
  <2>3. CASE Reject
    BY <2>3 DEF Reject, Again
  <2>4. CASE Said
    BY <2>4 DEF Said
  <2>5. CASE Keep
    BY <2>5 DEF Keep
  <2>6. ASSUME NEW self \in BOOLEAN, NEW text \in BOOLEAN, Envelope(self, text) PROVE SentInv'
    BY <2>6 DEF Envelope, Unsaid
  <2>7. ASSUME NEW tools, Calls(tools) PROVE SentInv'
    BY <2>7 DEF Calls
  <2>8. ASSUME NEW ok \in BOOLEAN, ContextBuilt(ok) PROVE SentInv'
    BY <2>8 DEF ContextBuilt
  <2>9. ASSUME NEW ok \in BOOLEAN, Say(ok) PROVE SentInv'
    <3>1. CASE ok
      BY <2>9, <3>1 DEF Say
    <3>2. CASE ~ok
      BY <2>9, <3>2 DEF Say
    <3>. QED
      BY <3>1, <3>2
  <2>. QED
    BY <1>2, <2>1, <2>2, <2>3, <2>4, <2>5, <2>6, <2>7, <2>8, <2>9 DEF Answer
<1>3. CASE Tools
  <2>1. CASE Hinted
    BY <2>1 DEF Hinted
  <2>2. CASE Refused
    BY <2>2 DEF Refused
  <2>3. CASE Posted
    BY <2>3 DEF Posted
  <2>4. CASE Stage
    BY <2>4 DEF Stage
  <2>5. CASE LogCall
    BY <2>5 DEF LogCall
  <2>6. CASE LogResult
    BY <2>6 DEF LogResult, NextCall, Again
  <2>7. CASE Record
    BY <2>7 DEF Record, NextCall, Again
  <2>8. ASSUME NEW ok \in BOOLEAN, Hint(ok) PROVE SentInv'
    BY <2>8 DEF Hint
  <2>9. ASSUME NEW ok \in BOOLEAN, Send(ok) PROVE SentInv'
    <3>1. CASE ok /\ deps.visible
      BY <2>9, <3>1 DEF Send
    <3>2. CASE ~(ok /\ deps.visible)
      BY <2>9, <3>2 DEF Send
    <3>. QED
      BY <3>1, <3>2
  <2>10. ASSUME NEW ok \in BOOLEAN, Status(ok) PROVE SentInv'
    BY <2>10 DEF Status
  <2>11. ASSUME NEW ok \in BOOLEAN, Execute(ok) PROVE SentInv'
    BY <2>11 DEF Execute
  <2>12. CASE CallRaises
    BY <2>12 DEF CallRaises
  <2>13. ASSUME NEW ok \in BOOLEAN, Mark(ok) PROVE SentInv'
    <3>1. CASE ok
      BY <2>13, <3>1 DEF Mark
    <3>2. CASE ~ok
      BY <2>13, <3>2 DEF Mark
    <3>. QED
      BY <3>1, <3>2
  <2>. QED
    BY <1>3, <2>1, <2>2, <2>3, <2>4, <2>5, <2>6, <2>7, <2>8, <2>9, <2>10, <2>11, <2>12,
       <2>13 DEF Tools
<1>4. CASE End
  <2>1. CASE Close
    BY <2>1 DEF Close
  <2>2. CASE Store
    BY <2>2 DEF Store
  <2>3. CASE Settle
    BY <2>3 DEF Settle, BeginFlush
  <2>4. CASE FailRow
    BY <2>4 DEF FailRow
  <2>5. CASE FailEvent
    BY <2>5 DEF FailEvent, BeginFlush
  <2>6. CASE Apologise
    BY <2>6 DEF Apologise, BeginFlush
  <2>7. CASE UndoRow
    BY <2>7 DEF UndoRow
  <2>8. CASE UndoEvent
    BY <2>8 DEF UndoEvent, BeginFlush
  <2>9. CASE Land
    BY <2>9 DEF Land
  <2>10. CASE Commit
    BY <2>10 DEF Commit
  <2>11. CASE CommitRecorded
    BY <2>11 DEF CommitRecorded
  <2>12. CASE Flushed
    BY <2>12 DEF Flushed
  <2>13. CASE Journal
    BY <2>13 DEF Journal
  <2>14. CASE SettleFails
    BY <2>14 DEF SettleFails
  <2>15. CASE FailEventRaises
    BY <2>15 DEF FailEventRaises, BeginFlush
  <2>. QED
    BY <1>4, <2>1, <2>2, <2>3, <2>4, <2>5, <2>6, <2>7, <2>8, <2>9, <2>10, <2>11, <2>12,
       <2>13, <2>14, <2>15 DEF End
<1>5. CASE Cancel
  <2>1. CASE CancelImage
    BY <2>1 DEF CancelImage, Cancelled
  <2>2. CASE CancelBody
    BY <2>2 DEF CancelBody, Cancelled, AwaitedRow
  <2>3. CASE CancelHandler
    BY <2>3 DEF CancelHandler, Cancelled, BeginFlush
  <2>4. CASE CancelFlush
    BY <2>4 DEF CancelFlush, Cancelled
  <2>5. CASE CancelHold
    BY <2>5 DEF CancelHold, Cancelled
  <2>6. CASE CancelJournal
    BY <2>6 DEF CancelJournal, Cancelled
  <2>. QED
    BY <1>5, <2>1, <2>2, <2>3, <2>4, <2>5, <2>6 DEF Cancel
<1>6. CASE UNCHANGED vars
  BY <1>6 DEF vars
<1>. QED
  BY <1>1, <1>2, <1>3, <1>4, <1>5, <1>6 DEF Next

-----------------------------------------------------------------------------
(* How the turn ends. *)

(* Where the answer and what becomes of it are known: text that was        *)
(* refused ends the turn as an error, a rejected answer leaves no inner    *)
(* state, a turn that was answered says so unless its text was refused;    *)
(* a turn that is complete has its status in the row and in the event, and *)
(* one that failed before an answer is not in the window.                  *)
EndInv ==
  /\ row \in Final \cup {"none", "proactive"} /\ final \in Final
  /\ responded \in BOOLEAN /\ inner \in BOOLEAN /\ fallback \in BOOLEAN /\ dropped \in BOOLEAN
  /\ unsettled \in BOOLEAN /\ (unsettled => pc \in Left)
  /\ window \in BOOLEAN /\ journal \in BOOLEAN /\ completed \in BOOLEAN /\ cancels \in Nat
  /\ deps.remember => deps.visible
  /\ pc \in Before \cup Calling => ~inner /\ ~fallback
  /\ inner => ~fallback
  /\ pc \in Before \cup Calling \cup {"say", "said", "keep"} => ~dropped
  /\ dropped => final \in {"error", "cancelled"}
  /\ responded \/ pc \in {"say", "said", "mark"} => deps.visible
  /\ pc \notin Left => /\ final = "responded" => responded
                       /\ responded /\ ~dropped => final = "responded"
  /\ pc \notin Left \cup {"store", "settle"} => ~window
  /\ pc \in {"fail", "failed", "apologise"} =>
       IF unsettled THEN window = responded ELSE ~window /\ ~dropped
  /\ pc \in {"failed", "apologise"} /\ deps.remember => row = "error"
  /\ pc \in {"store", "settle"} => window = responded
  /\ pc = "settle" /\ deps.remember => row = final
  /\ journal => pc = "over" /\ inner /\ completed /\ final \in {"responded", "no_reply"}
  /\ completed => /\ pc \in Ended /\ window = responded
                  /\ final = "responded" => responded
                  /\ responded /\ ~dropped => final = "responded"
                  /\ deps.remember => /\ row = final
                                      /\ event = IF final = "error" THEN "error" ELSE "finalized"
  /\ pc \in {"undo", "undone"} => cancels > 0
  /\ pc \in Ended /\ cancels = 0 =>
       \/ completed
       \/ /\ deps.remember => row = "error"
          /\ IF unsettled THEN window = responded ELSE ~window /\ ~dropped

(* Nothing has ended yet. *)
LEMMA EndInit == Init => EndInv
<1> SUFFICES ASSUME Init PROVE EndInv
  OBVIOUS
<1>1. pc \in {"image", "save"} /\ row = "none" /\ final = "received" /\ cancels = 0
  BY DEF Init
<1>2. /\ responded \in BOOLEAN /\ ~responded /\ inner \in BOOLEAN /\ ~inner
      /\ fallback \in BOOLEAN /\ ~fallback /\ dropped \in BOOLEAN /\ ~dropped
      /\ window \in BOOLEAN /\ ~window /\ journal \in BOOLEAN /\ ~journal
      /\ completed \in BOOLEAN /\ ~completed /\ unsettled \in BOOLEAN /\ ~unsettled
  BY DEF Init
<1>3. deps.remember => deps.visible
  BY DEF Init
<1>. QED
  BY <1>1, <1>2, <1>3 DEF EndInv, Before, Calling, Left, Ended, Final

(* Every step to an end writes what the end is. *)
LEMMA EndStep == EndInv /\ [Next]_vars => EndInv'
<1> SUFFICES ASSUME EndInv, [Next]_vars PROVE EndInv'
  OBVIOUS
<1> USE DEF EndInv, Final, Left, Ended, Before, Calling, database, ledger, loop, outcome, cleanup, told
<1>1. CASE Input
  <2>1. CASE ImageSaved
    BY <2>1 DEF ImageSaved
  <2>2. CASE ImageEntered
    BY <2>2 DEF ImageEntered
  <2>3. CASE Describe
    BY <2>3 DEF Describe
  <2>4. CASE Described
    BY <2>4 DEF Described
  <2>5. CASE Saved
    BY <2>5 DEF Saved
  <2>6. CASE Admitted
    BY <2>6 DEF Admitted
  <2>. QED
    BY <1>1, <2>1, <2>2, <2>3, <2>4, <2>5, <2>6 DEF Input
<1>2. CASE Answer
  <2>1. CASE AskFails
    BY <2>1 DEF AskFails
  <2>2. CASE Empty
    BY <2>2 DEF Empty
  <2>3. CASE Reject
    BY <2>3 DEF Reject, Again
  <2>4. CASE Said
    BY <2>4 DEF Said
  <2>5. CASE Keep
    BY <2>5 DEF Keep
  <2>6. ASSUME NEW self \in BOOLEAN, NEW text \in BOOLEAN, Envelope(self, text) PROVE EndInv'
    BY <2>6 DEF Envelope, Unsaid
  <2>7. ASSUME NEW n \in 1..MaxCall, NEW tools \in [1..n -> Tool], Calls(tools) PROVE EndInv'
    BY <2>7 DEF Calls
  <2>8. ASSUME NEW ok \in BOOLEAN, ContextBuilt(ok) PROVE EndInv'
    BY <2>8 DEF ContextBuilt
  <2>9. ASSUME NEW ok \in BOOLEAN, Say(ok) PROVE EndInv'
    BY <2>9 DEF Say
  <2>. QED
    BY <1>2, <2>1, <2>2, <2>3, <2>4, <2>5, <2>6, <2>7, <2>8, <2>9 DEF Answer
<1>3. CASE Tools
  <2>1. CASE Hinted
    BY <2>1 DEF Hinted
  <2>2. CASE Refused
    BY <2>2 DEF Refused
  <2>3. CASE Posted
    BY <2>3 DEF Posted
  <2>4. CASE Stage
    BY <2>4 DEF Stage
  <2>5. CASE LogCall
    BY <2>5 DEF LogCall
  <2>6. CASE LogResult
    BY <2>6 DEF LogResult, NextCall, Again
  <2>7. CASE Record
    BY <2>7 DEF Record, NextCall, Again
  <2>8. ASSUME NEW ok \in BOOLEAN, Hint(ok) PROVE EndInv'
    BY <2>8 DEF Hint
  <2>9. ASSUME NEW ok \in BOOLEAN, Send(ok) PROVE EndInv'
    <3>1. CASE ok /\ deps.visible
      BY <2>9, <3>1 DEF Send
    <3>2. CASE ~(ok /\ deps.visible)
      BY <2>9, <3>2 DEF Send
    <3>. QED
      BY <3>1, <3>2
  <2>10. ASSUME NEW ok \in BOOLEAN, Status(ok) PROVE EndInv'
    BY <2>10 DEF Status
  <2>11. ASSUME NEW ok \in BOOLEAN, Execute(ok) PROVE EndInv'
    BY <2>11 DEF Execute
  <2>12. CASE CallRaises
    BY <2>12 DEF CallRaises
  <2>13. ASSUME NEW ok \in BOOLEAN, Mark(ok) PROVE EndInv'
    <3>1. CASE ok
      BY <2>13, <3>1 DEF Mark
    <3>2. CASE ~ok
      BY <2>13, <3>2 DEF Mark
    <3>. QED
      BY <3>1, <3>2
  <2>. QED
    BY <1>3, <2>1, <2>2, <2>3, <2>4, <2>5, <2>6, <2>7, <2>8, <2>9, <2>10, <2>11, <2>12,
       <2>13 DEF Tools
<1>4. CASE End
  <2>1. CASE Close
    BY <2>1 DEF Close
  <2>2. CASE Store
    BY <2>2 DEF Store
  <2>3. CASE Settle
    BY <2>3 DEF Settle, BeginFlush
  <2>4. CASE FailRow
    BY <2>4 DEF FailRow
  <2>5. CASE FailEvent
    BY <2>5 DEF FailEvent, BeginFlush
  <2>6. CASE Apologise
    BY <2>6 DEF Apologise, BeginFlush
  <2>7. CASE UndoRow
    BY <2>7 DEF UndoRow
  <2>8. CASE UndoEvent
    BY <2>8 DEF UndoEvent, BeginFlush
  <2>9. CASE Land
    BY <2>9 DEF Land
  <2>10. CASE Commit
    BY <2>10 DEF Commit
  <2>11. CASE CommitRecorded
    BY <2>11 DEF CommitRecorded
  <2>12. CASE Flushed
    BY <2>12 DEF Flushed
  <2>13. CASE Journal
    BY <2>13 DEF Journal
  <2>14. CASE SettleFails
    BY <2>14 DEF SettleFails
  <2>15. CASE FailEventRaises
    BY <2>15 DEF FailEventRaises, BeginFlush
  <2>. QED
    BY <1>4, <2>1, <2>2, <2>3, <2>4, <2>5, <2>6, <2>7, <2>8, <2>9, <2>10, <2>11, <2>12,
       <2>13, <2>14, <2>15 DEF End
<1>5. CASE Cancel
  <2>1. CASE CancelImage
    BY <2>1 DEF CancelImage, Cancelled
  <2>2. CASE CancelBody
    BY <2>2 DEF CancelBody, Cancelled, AwaitedRow, AwaitedEvent
  <2>3. CASE CancelHandler
    BY <2>3 DEF CancelHandler, Cancelled, BeginFlush
  <2>4. CASE CancelFlush
    BY <2>4 DEF CancelFlush, Cancelled
  <2>5. CASE CancelHold
    BY <2>5 DEF CancelHold, Cancelled
  <2>6. CASE CancelJournal
    <3>1. journal' = FALSE \/ journal' = (inner /\ completed /\ final \in {"responded", "no_reply"})
      BY <2>6 DEF CancelJournal
    <3>2. journal' \in BOOLEAN
      BY <3>1
    <3>3. journal' => inner /\ completed /\ final \in {"responded", "no_reply"}
      BY <3>1
    <3>4. cancels' \in Nat /\ cancels' > 0
      BY <2>6 DEF CancelJournal, Cancelled
    <3>5. /\ pc = "journal" /\ pc' = "over"
          /\ UNCHANGED <<deps, row, event, loop, outcome, completed, window, told>>
      BY <2>6 DEF CancelJournal
    <3>. QED
      BY <3>2, <3>3, <3>4, <3>5
  <2>. QED
    BY <1>5, <2>1, <2>2, <2>3, <2>4, <2>5, <2>6 DEF Cancel
<1>6. CASE UNCHANGED vars
  BY <1>6 DEF vars
<1>. QED
  BY <1>1, <1>2, <1>3, <1>4, <1>5, <1>6 DEF Next

-----------------------------------------------------------------------------
(* The staged writes. *)

(* The calls that are over. *)
Past == {c \in Call : c[1] < step \/ (c[1] = step /\ c[2] < at)}

(* No call is staged twice. *)
Distinct == \A i, j \in 1..Len(pending) : pending[i] = pending[j] => i = j

(* While the turn goes on, the calls that are staged or in the action      *)
(* ledger are over, or staged right now; the two have no call in common,   *)
(* and nothing has been written.                                           *)
Staged ==
  /\ pc \in Before => at = 0
  /\ pc \in {"image", "enter", "describe", "note"} => pending = <<>>
  /\ pc \in Before \cup Calling =>
       /\ acted \subseteq Past
       /\ \A i \in 1..Len(pending) :
            pending[i] \in Past \/ (pc \in {"logcall", "logresult"} /\ pending[i] = Id)
  /\ pc = "record" => result[Id] = "given" /\ ~Contains(pending, Id)
  /\ \A c \in acted : result[c] = "given" /\ ~Contains(pending, c)
  /\ \A c \in Call : landed[c] = 0
  /\ ~cut

(* How many staged writes the cleanup is done with. *)
Done == Len(pending) - Len(flush)

(* In the cleanup the writes still to be done are the last of the staged   *)
(* ones, and untouched but for the first; the ones before are done.        *)
Cleaned ==
  /\ \A c \in Call : landed[c] <= (IF Contains(pending, c) THEN 1 ELSE 0)
  /\ \A c \in acted : result[c] = IF Contains(pending, c) THEN "committed" ELSE "given"
  /\ Len(flush) <= Len(pending)
  /\ \A i \in 1..Len(flush) :
       /\ flush[i] = pending[Done + i] /\ flush[i] \notin acted
       /\ i > 1 \/ landing = "start" => landed[flush[i]] = 0
  /\ landing # "start" => landed[flush[1]] = 1
  /\ landing = "noted" => result[flush[1]] = "committed"
  /\ ~cut => \A i \in 1..Done : landed[pending[i]] = 1 /\ pending[i] \in acted
  /\ pc \in {"journal", "over"} => flush = <<>>

WriteInv == Distinct /\ (pc \notin Ended => Staged) /\ (pc \in Ended => Cleaned)

(* A call is one of an answer's; the one being executed is not over. *)
LEMMA CallParts ==
  /\ \A c \in Call : c[1] \in 1..MaxStep /\ c[2] \in 1..MaxCall /\ c = <<c[1], c[2]>>
  /\ Id \notin Past
BY PipelineAssumption DEF Call, Past, Id

(* As the turn goes on, what is over stays over. *)
LEMMA PastGrows ==
  ASSUME TypeInv, (step' = step /\ at' = at + 1) \/ (step' = step + 1 /\ at' = 0)
  PROVE  Past \subseteq Past' /\ (Id \in Call => Id \in Past')
<1>0. step \in Nat /\ at \in Nat
  BY PipelineAssumption DEF TypeInv, TypeOK
<1>1. ASSUME NEW c \in Past PROVE c \in Past'
  <2>1. c \in Call
    BY DEF Past
  <2>2. c[1] \in Nat /\ c[2] \in Nat
    <3>1. c[1] \in 1..MaxStep /\ c[2] \in 1..MaxCall
      BY <2>1, CallParts
    <3>. QED
      BY <3>1, PipelineAssumption
  <2>. QED
    BY <1>0, <2>1, <2>2 DEF Past
<1>2. Id \in Call => Id \in Past'
  BY <1>0, PipelineAssumption DEF Past, Id, Call
<1>. QED
  BY <1>1, <1>2

(* After a call it is over as well. *)
LEMMA NextPast ==
  ASSUME TypeInv, pc \in Calling, NextCall
  PROVE  /\ pc' \in {"call", "ask", "close"} /\ (pc' = "ask" => at' = 0)
         /\ pc' # "close" => Past \subseteq Past' /\ Id \in Past'
<1>1. Id \in Call
  BY PipelineAssumption DEF Id, Call, TypeInv, TypeOK
<1>2. CASE at < Len(round)
  BY <1>1, <1>2, PastGrows DEF NextCall
<1>3. CASE ~(at < Len(round))
  BY <1>1, <1>3, PastGrows DEF NextCall, Again
<1>. QED
  BY <1>2, <1>3

(* Nothing is staged yet. *)
LEMMA WriteInit == Init => WriteInv
<1> SUFFICES ASSUME Init PROVE WriteInv
  OBVIOUS
<1>1. pc \in {"image", "save"} /\ pending = <<>> /\ at = 0 /\ acted = {}
  BY DEF Init
<1>2. landed = [c \in Call |-> 0]
  BY DEF Init
<1>3. cut \in BOOLEAN /\ ~cut
  BY DEF Init
<1>. QED
  BY <1>1, <1>2, <1>3 DEF WriteInv, Distinct, Staged, Before, Calling, Ended

(* A cleanup begins with all that was staged. *)
LEMMA FlushBegins ==
  ASSUME TypeInv, WriteInv, pc \notin Ended, BeginFlush,
         UNCHANGED <<pending, landing, landed, cut, acted, result>>
  PROVE  WriteInv'
<1> USE DEF TypeInv, TypeOK
<1>1. pc' = "flush" /\ flush' = pending /\ landing' = "start" /\ Done' = 0
  BY DEF BeginFlush, Done
<1>2. Staged /\ Distinct
  BY DEF WriteInv
<1>3. \A i \in 1..Len(pending) : Contains(pending, pending[i]) /\ pending[i] \in Call
  BY DEF Contains
<1>4. Cleaned'
  BY <1>1, <1>2, <1>3 DEF Staged, Cleaned
<1>. QED
  BY <1>1, <1>2, <1>4 DEF WriteInv, Distinct, Ended

(* The cleanup is as it was when only the turn has gone on. *)
LEMMA CleanupStays ==
  ASSUME WriteInv, pc \in Ended, pc' \in Ended, (pc' \in {"journal", "over"} => flush = <<>>),
         UNCHANGED <<pending, flush, landing, landed, cut, acted, result>>
  PROVE  WriteInv'
BY DEF WriteInv, Distinct, Cleaned, Done, Ended

(* The first write that is left is a staged one, and not among the others. *)
LEMMA FirstLeft ==
  ASSUME TypeInv, Distinct, Cleaned, flush # <<>>
  PROVE  /\ Head(flush) = flush[1] /\ flush[1] \in Call /\ Contains(pending, flush[1])
         /\ Len(flush) \in Nat \ {0} /\ Len(pending) \in Nat
         /\ \A i \in 1..Len(flush) : flush[i] \in Call /\ (flush[i] = flush[1] => i = 1)
         /\ \A i \in 1..Done : pending[i] \in Call /\ pending[i] # flush[1]
<1> USE DEF TypeInv, TypeOK
<1>1. Head(flush) = flush[1] /\ Len(flush) \in Nat \ {0} /\ Len(pending) \in Nat /\ Done \in Nat
  BY DEF Cleaned, Done
<1>2. /\ \A i \in 1..Len(flush) : flush[i] \in Call /\ flush[i] = pending[Done + i]
      /\ \A i \in 1..Len(pending) : pending[i] \in Call
  BY DEF Cleaned
<1>3. \A i \in 1..Len(flush) : Done + i \in 1..Len(pending)
  BY <1>1 DEF Done
<1>4. Contains(pending, flush[1])
  <2>1. 1 \in 1..Len(flush)
    BY <1>1
  <2>2. Done + 1 \in 1..Len(pending) /\ pending[Done + 1] = flush[1]
    BY <1>2, <1>3, <2>1
  <2>. QED
    BY <2>2 DEF Contains
<1>5. ASSUME NEW i \in 1..Len(flush), flush[i] = flush[1] PROVE i = 1
  <2>1. Done + i \in 1..Len(pending) /\ Done + 1 \in 1..Len(pending)
    BY <1>1, <1>3
  <2>2. pending[Done + i] = pending[Done + 1]
    BY <1>1, <1>2, <1>5
  <2>. QED
    BY <1>1, <2>1, <2>2 DEF Distinct
<1>6. \A i \in 1..Done : i \in 1..Len(pending) /\ i # Done + 1
  BY <1>1 DEF Done
<1>7. ASSUME NEW i \in 1..Done PROVE pending[i] # flush[1]
  <2>1. Done + 1 \in 1..Len(pending) /\ flush[1] = pending[Done + 1]
    BY <1>1, <1>2, <1>3
  <2>. QED
    BY <1>6, <2>1 DEF Distinct
<1>. QED
  BY <1>1, <1>2, <1>4, <1>5, <1>6, <1>7

(* After the last of its steps a write leaves those that are left. *)
LEMMA NextLeft ==
  ASSUME TypeInv, Distinct, Cleaned, flush # <<>>, flush' = Tail(flush), pending' = pending
  PROVE  /\ Len(flush') = Len(flush) - 1 /\ Done' = Done + 1
         /\ \A i \in 1..Len(flush') : i + 1 \in 1..Len(flush) /\ flush'[i] = flush[i + 1]
         /\ pending[Done + 1] = flush[1]
<1> USE DEF TypeInv, TypeOK
<1>1. Len(flush) \in Nat \ {0} /\ Len(pending) \in Nat /\ Done \in Nat
  BY FirstLeft DEF Cleaned, Done
<1>2. /\ Len(flush') = Len(flush) - 1
      /\ \A i \in 1..Len(flush') : i + 1 \in 1..Len(flush) /\ flush'[i] = flush[i + 1]
  BY <1>1
<1>3. Done' = Done + 1
  BY <1>1, <1>2 DEF Done
<1>4. pending[Done + 1] = flush[1]
  BY <1>1 DEF Cleaned
<1>. QED
  BY <1>2, <1>3, <1>4

(* One step of the turn or of its cleanup. *)
LEMMA WriteStep == TypeInv /\ WriteInv /\ [Next]_vars => WriteInv'
<1> SUFFICES ASSUME TypeInv, WriteInv, [Next]_vars PROVE WriteInv'
  OBVIOUS
<1> USE DEF Before, Calling, Ended, database, ledger, loop, outcome, cleanup, told
<1>1. CASE Input
  <2>1. CASE ImageSaved
    BY <2>1 DEF ImageSaved, WriteInv, Distinct, Staged, Past, Id
  <2>2. CASE ImageEntered
    BY <2>2 DEF ImageEntered, WriteInv, Distinct, Staged, Past, Id
  <2>3. CASE Describe
    BY <2>3 DEF Describe, WriteInv, Distinct, Staged, Past, Id
  <2>4. CASE Described
    BY <2>4 DEF Described, WriteInv, Distinct, Staged, Past, Id
  <2>5. CASE Saved
    BY <2>5 DEF Saved, WriteInv, Distinct, Staged, Past, Id
  <2>6. CASE Admitted
    BY <2>6 DEF Admitted, WriteInv, Distinct, Staged, Past, Id
  <2>. QED
    BY <1>1, <2>1, <2>2, <2>3, <2>4, <2>5, <2>6 DEF Input
<1>2. CASE Answer
  <2>1. CASE AskFails
    BY <2>1 DEF AskFails, WriteInv, Distinct, Staged, Past, Id
  <2>2. CASE Empty
    BY <2>2 DEF Empty, WriteInv, Distinct, Staged, Past, Id
  <2>3. CASE Reject
    <3>1. pc = "ask" /\ UNCHANGED <<pending, landing, landed, cut, acted, result, at>>
      BY <2>3 DEF Reject
    <3>2. at = 0
      BY <3>1 DEF WriteInv, Staged
    <3>3. /\ pc' \in {"say", "close", "ask"}
          /\ pc' = "ask" => step' = step + 1
      BY <2>3 DEF Reject, Again
    <3>4. pc' = "ask" => Past \subseteq Past'
      BY <3>1, <3>2, <3>3, PastGrows
    <3>. QED
      BY <3>1, <3>2, <3>3, <3>4 DEF WriteInv, Distinct, Staged
  <2>4. CASE Said
    BY <2>4 DEF Said, WriteInv, Distinct, Staged, Past, Id
  <2>5. CASE Keep
    BY <2>5 DEF Keep, WriteInv, Distinct, Staged, Past, Id
  <2>6. ASSUME NEW self \in BOOLEAN, NEW text \in BOOLEAN, Envelope(self, text) PROVE WriteInv'
    BY <2>6 DEF Envelope, Unsaid, WriteInv, Distinct, Staged, Past, Id
  <2>7. ASSUME NEW n \in 1..MaxCall, NEW tools \in [1..n -> Tool], Calls(tools) PROVE WriteInv'
    <3>1. /\ pc = "ask" /\ pc' \in {"call", "hint"} /\ at' = 1
          /\ UNCHANGED <<pending, landing, landed, cut, acted, result, step>>
      BY <2>7 DEF Calls
    <3>2. at = 0
      BY <3>1 DEF WriteInv, Staged
    <3>3. Past \subseteq Past'
      BY <3>1, <3>2, PastGrows
    <3>. QED
      BY <3>1, <3>2, <3>3 DEF WriteInv, Distinct, Staged
  <2>8. ASSUME NEW ok \in BOOLEAN, ContextBuilt(ok) PROVE WriteInv'
    BY <2>8 DEF ContextBuilt, WriteInv, Distinct, Staged, Past, Id
  <2>9. ASSUME NEW ok \in BOOLEAN, Say(ok) PROVE WriteInv'
    BY <2>9 DEF Say, WriteInv, Distinct, Staged, Past, Id
  <2>. QED
    BY <1>2, <2>1, <2>2, <2>3, <2>4, <2>5, <2>6, <2>7, <2>8, <2>9 DEF Answer
<1>3. CASE Tools
  <2>1. CASE Hinted
    BY <2>1 DEF Hinted, WriteInv, Distinct, Staged, Past, Id
  <2>2. CASE Refused
    BY <2>2 DEF Refused, WriteInv, Distinct, Staged, Past, Id
  <2>3. CASE Posted
    BY <2>3 DEF Posted, WriteInv, Distinct, Staged, Past, Id
  <2>4. CASE Stage
    <3>1. /\ pc = "call" /\ pc' = "logcall" /\ pending' = Append(pending, Id)
          /\ UNCHANGED <<landing, landed, cut, acted, result, step, at>>
      BY <2>4 DEF Stage
    <3>2. pending \in Seq(Call) /\ Id \in Call
      BY <3>1, PipelineAssumption DEF TypeInv, TypeOK, Id, Call
    <3>3. Staged /\ Distinct /\ Past' = Past /\ Id' = Id
      BY <3>1 DEF WriteInv, Past, Id
    <3>4. \A i \in 1..Len(pending) : pending[i] \in Past /\ pending[i] # Id
      BY <3>1, <3>3, CallParts DEF Staged
    <3>5. /\ Len(pending') = Len(pending) + 1 /\ Len(pending) \in Nat
          /\ \A i \in 1..Len(pending) : pending'[i] = pending[i]
          /\ pending'[Len(pending) + 1] = Id
      BY <3>1, <3>2
    <3>6. Distinct'
      BY <3>3, <3>4, <3>5 DEF Distinct
    <3>7. \A i \in 1..Len(pending') : pending'[i] \in Past' \/ pending'[i] = Id'
      BY <3>3, <3>4, <3>5
    <3>8. \A c \in acted : ~Contains(pending', c)
      BY <3>1, <3>3, <3>5, CallParts DEF Staged, Contains
    <3>. QED
      BY <3>1, <3>3, <3>6, <3>7, <3>8 DEF WriteInv, Staged
  <2>5. CASE LogCall
    BY <2>5 DEF LogCall, WriteInv, Distinct, Staged, Past, Id
  <2>6. CASE LogResult
    <3>1. /\ pc = "logresult" /\ result' = Resulted
          /\ UNCHANGED <<pending, landing, landed, cut, acted>>
      BY <2>6 DEF LogResult
    <3>2. Id \in Call /\ result \in [Call -> {"none", "staged", "given", "committed"}]
      BY <3>1, PipelineAssumption DEF TypeInv, TypeOK, Id, Call
    <3>3. Staged /\ Distinct
      BY <3>1 DEF WriteInv
    <3>4. \A c \in acted : result'[c] = result[c]
      BY <3>1, <3>2, <3>3, CallParts DEF Staged, Resulted, Past
    <3>5. CASE Contains(pending, Id)
      <4>1. /\ pc' \in {"call", "ask", "close"} /\ (pc' = "ask" => at' = 0)
            /\ pc' # "close" => Past \subseteq Past' /\ Id \in Past'
        BY <2>6, <3>5, NextPast DEF LogResult
      <4>. QED
        BY <3>1, <3>3, <3>4, <4>1 DEF WriteInv, Distinct, Staged
    <3>6. CASE ~Contains(pending, Id)
      <4>1. pc' = "record" /\ Past' = Past /\ Id' = Id
        BY <2>6, <3>6 DEF LogResult, Past, Id
      <4>2. result'[Id] = "given"
        BY <3>1, <3>2, <3>6 DEF Resulted
      <4>3. \A i \in 1..Len(pending) : pending[i] \in Past
        BY <3>1, <3>3, <3>6 DEF Staged, Contains
      <4>. QED
        BY <3>1, <3>3, <3>4, <3>6, <4>1, <4>2, <4>3 DEF WriteInv, Distinct, Staged
    <3>. QED
      BY <3>5, <3>6
  <2>7. CASE Record
    <3>1. /\ pc = "record" /\ acted' = acted \cup {Id}
          /\ UNCHANGED <<pending, landing, landed, cut, result>>
      BY <2>7 DEF Record
    <3>2. /\ pc' \in {"call", "ask", "close"} /\ (pc' = "ask" => at' = 0)
          /\ pc' # "close" => Past \subseteq Past' /\ Id \in Past'
      BY <2>7, NextPast DEF Record
    <3>3. Staged /\ Distinct
      BY <3>1 DEF WriteInv
    <3>. QED
      BY <3>1, <3>2, <3>3 DEF WriteInv, Distinct, Staged
  <2>8. ASSUME NEW ok \in BOOLEAN, Hint(ok) PROVE WriteInv'
    BY <2>8 DEF Hint, WriteInv, Distinct, Staged, Past, Id
  <2>9. ASSUME NEW ok \in BOOLEAN, Send(ok) PROVE WriteInv'
    BY <2>9 DEF Send, WriteInv, Distinct, Staged, Past, Id
  <2>10. ASSUME NEW ok \in BOOLEAN, Status(ok) PROVE WriteInv'
    BY <2>10 DEF Status, WriteInv, Distinct, Staged, Past, Id
  <2>11. ASSUME NEW ok \in BOOLEAN, Execute(ok) PROVE WriteInv'
    BY <2>11 DEF Execute, WriteInv, Distinct, Staged, Past, Id
  <2>12. CASE CallRaises
    BY <2>12 DEF CallRaises, WriteInv, Distinct, Staged, Past, Id
  <2>13. ASSUME NEW ok \in BOOLEAN, Mark(ok) PROVE WriteInv'
    BY <2>13 DEF Mark, WriteInv, Distinct, Staged, Past, Id
  <2>. QED
    BY <1>3, <2>1, <2>2, <2>3, <2>4, <2>5, <2>6, <2>7, <2>8, <2>9, <2>10, <2>11, <2>12,
       <2>13 DEF Tools
<1>4. CASE End
  <2>1. CASE Close
    BY <2>1 DEF Close, WriteInv, Distinct, Staged, Past, Id
  <2>2. CASE Store
    BY <2>2 DEF Store, WriteInv, Distinct, Staged, Past, Id
  <2>3. CASE Settle
    <3>1. pc \notin Ended /\ BeginFlush /\ UNCHANGED <<pending, landing, landed, cut, acted, result>>
      BY <2>3 DEF Settle
    <3>. QED
      BY <3>1, FlushBegins
  <2>4. CASE FailRow
    BY <2>4 DEF FailRow, WriteInv, Distinct, Staged, Past, Id
  <2>5. CASE FailEvent
    <3>1. CASE responded
      <4>1. pc = "failed" /\ BeginFlush /\ UNCHANGED <<pending, landing, landed, cut, acted, result>>
        BY <2>5, <3>1 DEF FailEvent
      <4>. QED
        BY <4>1, FlushBegins DEF Ended
    <3>2. CASE ~responded
      BY <2>5, <3>2 DEF FailEvent, WriteInv, Staged, Distinct
    <3>. QED
      BY <3>1, <3>2
  <2>6. CASE Apologise
    <3>1. pc \notin Ended /\ BeginFlush /\ UNCHANGED <<pending, landing, landed, cut, acted, result>>
      BY <2>6 DEF Apologise
    <3>. QED
      BY <3>1, FlushBegins
  <2>7. CASE UndoRow
    BY <2>7 DEF UndoRow, WriteInv, Distinct, Staged, Past, Id
  <2>8. CASE UndoEvent
    <3>1. pc \notin Ended /\ BeginFlush /\ UNCHANGED <<pending, landing, landed, cut, acted, result>>
      BY <2>8 DEF UndoEvent
    <3>. QED
      BY <3>1, FlushBegins
  <2>9. CASE Land
    <3>1. flush # <<>> /\ landing = "start" /\ landing' = "done" /\ pc \in Ended /\ pc' = pc
      BY <2>9 DEF Land, TypeInv
    <3>2. /\ landed' = [landed EXCEPT ![Head(flush)] = landed[Head(flush)] + 1]
          /\ UNCHANGED <<pending, flush, cut, acted, result>>
      BY <2>9 DEF Land
    <3>3. Distinct /\ Cleaned
      BY <3>1 DEF WriteInv
    <3>4. /\ landed'[flush[1]] = 1 /\ landed[flush[1]] = 0
          /\ \A c \in Call : c # flush[1] => landed'[c] = landed[c]
      <4>1. Head(flush) = flush[1] /\ flush[1] \in Call /\ 1 \in 1..Len(flush)
        BY <3>1, <3>3, FirstLeft
      <4>2. landed \in [Call -> Nat]
        BY DEF TypeInv, TypeOK
      <4>3. landed[flush[1]] = 0
        BY <3>1, <3>3, <4>1 DEF Cleaned
      <4>. QED
        BY <3>2, <4>1, <4>2, <4>3
    <3>5. Cleaned'
      <4>1. (\A c \in Call : landed[c] <= (IF Contains(pending, c) THEN 1 ELSE 0))'
        BY <3>1, <3>2, <3>3, <3>4, FirstLeft DEF Cleaned
      <4>2. (\A i \in 1..Len(flush) :
               /\ flush[i] = pending[Done + i] /\ flush[i] \notin acted
               /\ i > 1 \/ landing = "start" => landed[flush[i]] = 0)'
        BY <3>1, <3>2, <3>3, <3>4, FirstLeft DEF Cleaned, Done
      <4>3. (~cut => \A i \in 1..Done : landed[pending[i]] = 1 /\ pending[i] \in acted)'
        BY <3>1, <3>2, <3>3, <3>4, FirstLeft DEF Cleaned, Done
      <4>. QED
        BY <3>1, <3>2, <3>3, <3>4, <4>1, <4>2, <4>3 DEF Cleaned
    <3>. QED
      BY <3>1, <3>2, <3>3, <3>5 DEF WriteInv, Distinct
  <2>10. CASE Commit
    <3>1. /\ landing = "done" /\ landing' = "noted" /\ flush # <<>> /\ pc \in Ended /\ pc' = pc
      BY <2>10 DEF Commit, TypeInv
    <3>2. /\ result' = [result EXCEPT ![Head(flush)] = "committed"]
          /\ UNCHANGED <<pending, flush, landed, cut, acted>>
      BY <2>10 DEF Commit
    <3>3. Distinct /\ Cleaned
      BY <3>1 DEF WriteInv
    <3>4. /\ result'[flush[1]] = "committed"
          /\ \A c \in Call : c # flush[1] => result'[c] = result[c]
      BY <3>1, <3>2, <3>3, FirstLeft DEF TypeInv, TypeOK
    <3>5. flush[1] \notin acted /\ acted \subseteq Call
      BY <3>1, <3>3, FirstLeft DEF Cleaned, TypeInv, TypeOK
    <3>6. Cleaned'
      BY <3>1, <3>2, <3>3, <3>4, <3>5 DEF Cleaned, Done
    <3>. QED
      BY <3>1, <3>2, <3>3, <3>6 DEF WriteInv, Distinct
  <2>11. CASE CommitRecorded
    <3>1. landing = "noted" /\ landing' = "start" /\ flush # <<>> /\ pc \in Ended /\ pc' = pc
      BY <2>11 DEF CommitRecorded, TypeInv
    <3>2. /\ acted' = acted \cup {Head(flush)} /\ flush' = Tail(flush)
          /\ UNCHANGED <<pending, landed, cut, result>>
      BY <2>11 DEF CommitRecorded
    <3>3. Distinct /\ Cleaned
      BY <3>1 DEF WriteInv
    <3>4. /\ acted' = acted \cup {flush[1]} /\ Contains(pending, flush[1])
          /\ result[flush[1]] = "committed" /\ landed[flush[1]] = 1
      BY <3>1, <3>2, <3>3, FirstLeft DEF Cleaned
    <3>5. Done \in Nat /\ Len(flush) \in Nat \ {0} /\ Len(pending) \in Nat
      BY <3>1, <3>3, FirstLeft DEF Cleaned, Done
    <3>6. Cleaned'
      <4>1. (\A c \in acted : result[c] = IF Contains(pending, c) THEN "committed" ELSE "given")'
        BY <3>2, <3>3, <3>4 DEF Cleaned
      <4>2. \A i \in 1..Len(flush') :
               /\ flush'[i] = pending[Done' + i] /\ flush'[i] \notin acted'
               /\ landed[flush'[i]] = 0
        <5> SUFFICES ASSUME NEW i \in 1..Len(flush')
                     PROVE  /\ flush'[i] = pending[Done' + i] /\ flush'[i] \notin acted'
                            /\ landed[flush'[i]] = 0
          OBVIOUS
        <5>1. i + 1 \in 1..Len(flush) /\ flush'[i] = flush[i + 1] /\ Done' = Done + 1 /\ i + 1 > 1
          BY <3>1, <3>2, <3>3, <3>5, NextLeft
        <5>2. flush[i + 1] # flush[1]
          BY <3>1, <3>3, <5>1, FirstLeft
        <5>3. flush[i + 1] = pending[Done + (i + 1)] /\ flush[i + 1] \notin acted /\ landed[flush[i + 1]] = 0
          BY <3>3, <5>1 DEF Cleaned
        <5>. QED
          BY <3>4, <3>5, <5>1, <5>2, <5>3
      <4>3. (~cut => \A i \in 1..Done : landed[pending[i]] = 1 /\ pending[i] \in acted)'
        BY <3>1, <3>2, <3>3, <3>4, <3>5, NextLeft DEF Cleaned
      <4>4. Len(flush') <= Len(pending')
        BY <3>1, <3>2, <3>3, <3>5, NextLeft DEF Cleaned
      <4>5. pc' \notin {"journal", "over"}
        BY <3>1, <3>3 DEF Cleaned
      <4>. QED
        BY <3>1, <3>2, <3>3, <4>1, <4>2, <4>3, <4>4, <4>5 DEF Cleaned
    <3>. QED
      BY <3>1, <3>2, <3>3, <3>6 DEF WriteInv, Distinct
  <2>12. CASE Flushed
    <3>1. /\ pc \in Ended /\ pc' \in Ended /\ (pc' \in {"journal", "over"} => flush = <<>>)
          /\ UNCHANGED <<pending, flush, landing, landed, cut, acted, result>>
      BY <2>12 DEF Flushed, WriteInv, Cleaned
    <3>. QED
      BY <3>1, CleanupStays
  <2>13. CASE Journal
    <3>1. /\ pc \in Ended /\ pc' \in Ended /\ (pc' \in {"journal", "over"} => flush = <<>>)
          /\ UNCHANGED <<pending, flush, landing, landed, cut, acted, result>>
      BY <2>13 DEF Journal, WriteInv, Cleaned
    <3>. QED
      BY <3>1, CleanupStays
  <2>14. CASE SettleFails
    BY <2>14 DEF SettleFails, WriteInv, Distinct, Staged, Past, Id
  <2>15. CASE FailEventRaises
    <3>1. pc \notin Ended /\ BeginFlush /\ UNCHANGED <<pending, landing, landed, cut, acted, result>>
      BY <2>15 DEF FailEventRaises
    <3>. QED
      BY <3>1, FlushBegins
  <2>. QED
    BY <1>4, <2>1, <2>2, <2>3, <2>4, <2>5, <2>6, <2>7, <2>8, <2>9, <2>10, <2>11, <2>12,
       <2>13, <2>14, <2>15 DEF End
<1>5. CASE Cancel
  <2>1. CASE CancelImage
    <3>1. /\ pc' = "over" /\ pending = <<>> /\ flush = <<>> /\ landing = "start"
          /\ UNCHANGED <<pending, flush, landing, landed, cut, acted, result>>
      BY <2>1 DEF CancelImage, WriteInv, Staged, TypeInv
    <3>2. Staged /\ Distinct
      BY <2>1 DEF CancelImage, WriteInv
    <3>3. Len(pending) = 0 /\ \A c : ~Contains(pending, c)
      BY <3>1 DEF Contains
    <3>4. Cleaned'
      BY <3>1, <3>2, <3>3 DEF Staged, Cleaned, Done
    <3>. QED
      BY <3>1, <3>2, <3>4 DEF WriteInv, Distinct
  <2>2. CASE CancelBody
    <3>1. pc \notin Ended /\ pc' = "undo" /\ UNCHANGED <<pending, landing, landed, cut>>
      BY <2>2 DEF CancelBody
    <3>2. Staged /\ Distinct
      BY <3>1 DEF WriteInv
    <3>3. /\ acted' = acted \/ (pc = "record" /\ acted' = acted \cup {Id})
          /\ result' = result \/ (pc = "logresult" /\ result' = Resulted)
      BY <2>2 DEF CancelBody
    <3>4. \A c \in acted' : ~Contains(pending, c)
      BY <3>2, <3>3 DEF Staged
    <3>5. \A c \in acted' : result'[c] = "given"
      <4>1. CASE pc = "logresult"
        <5>1. acted' = acted /\ Id \notin acted /\ acted \subseteq Call
          BY <3>2, <3>3, <4>1, CallParts DEF Staged, Past
        <5>2. \A c \in acted : result'[c] = result[c]
          BY <3>3, <5>1 DEF Resulted, TypeInv, TypeOK
        <5>. QED
          BY <3>2, <5>1, <5>2 DEF Staged
      <4>2. CASE pc # "logresult"
        BY <3>2, <3>3, <4>2 DEF Staged
      <4>. QED
        BY <4>1, <4>2
    <3>. QED
      BY <3>1, <3>2, <3>4, <3>5 DEF WriteInv, Distinct, Staged
  <2>3. CASE CancelHandler
    <3>1. pc \notin Ended /\ BeginFlush /\ UNCHANGED <<pending, landing, landed, cut, acted, result>>
      BY <2>3 DEF CancelHandler
    <3>. QED
      BY <3>1, FlushBegins
  <2>4. CASE CancelFlush
    <3>1. /\ pc \in Ended /\ pc' \in Ended /\ (pc' \in {"journal", "over"} => flush = <<>>)
          /\ UNCHANGED <<pending, flush, landing, landed, cut, acted, result>>
      BY <2>4 DEF CancelFlush, WriteInv, Cleaned
    <3>. QED
      BY <3>1, CleanupStays
  <2>5. CASE CancelHold
    <3>1. /\ pc = "hold" /\ pc' = "over" /\ flush' = <<>> /\ landing' = "start"
          /\ UNCHANGED <<pending, landed, acted, result>>
      BY <2>5 DEF CancelHold
    <3>2. cut'
      BY <2>5 DEF CancelHold
    <3>3. Len(flush') = 0 /\ Len(pending) \in Nat
      BY <3>1 DEF TypeInv, TypeOK
    <3>4. Cleaned'
      BY <3>1, <3>2, <3>3 DEF WriteInv, Cleaned
    <3>. QED
      BY <3>1, <3>4 DEF WriteInv, Distinct
  <2>6. CASE CancelJournal
    <3>1. /\ pc \in Ended /\ pc' \in Ended /\ (pc' \in {"journal", "over"} => flush = <<>>)
          /\ UNCHANGED <<pending, flush, landing, landed, cut, acted, result>>
      BY <2>6 DEF CancelJournal, WriteInv, Cleaned
    <3>. QED
      BY <3>1, CleanupStays
  <2>. QED
    BY <1>5, <2>1, <2>2, <2>3, <2>4, <2>5, <2>6 DEF Cancel
<1>6. CASE UNCHANGED vars
  BY <1>6 DEF vars, WriteInv, Distinct, Staged, Cleaned, Past, Done, Id
<1>. QED
  BY <1>1, <1>2, <1>3, <1>4, <1>5, <1>6 DEF Next

-----------------------------------------------------------------------------
(* The theorems. *)

(* Each variable of a turn keeps its type (pipeline.py, pipeline()). *)
THEOREM TypeCorrect == Spec => []TypeOK
<1>1. TypeInv => TypeOK
  BY DEF TypeInv
<1>. QED
  BY <1>1, TypeInit, TypeStep, PTL DEF Spec

(* The invariant of what the user was told. *)
LEMMA SentHolds == Spec => []SentInv
BY SentInit, SentStep, PTL DEF Spec

(* Whoever was answered, by a message the code knows to be sent, is never  *)
(* told that the model is not available: the handler of an exception looks *)
(* at that before it apologises.                                           *)
THEOREM NobodyAnsweredIsApologisedTo == Spec => []NoApologyAfterReply
<1>1. SentInv => NoApologyAfterReply
  BY DEF SentInv, NoApologyAfterReply
<1>. QED
  BY <1>1, SentHolds, PTL

(* What was sent is in the ledger and nothing else is.  At the end those   *)
(* messages are missing whose media could not be marked as used, and one   *)
(* more at most if the turn was cancelled.                                 *)
THEOREM RepliesAreRecorded == Spec => []RepliesRecorded
<1>1. SentInv => RepliesRecorded
  BY DEF SentInv, RepliesRecorded, Over, Ended, Left
<1>. QED
  BY <1>1, SentHolds, PTL

(* The invariant of how a turn ends. *)
LEMMA EndHolds == Spec => []EndInv
BY EndInit, EndStep, PTL DEF Spec

(* The journal belongs to a turn that was stored as complete, with a text  *)
(* of its own that was not refused.                                        *)
THEOREM JournalIsWhole == Spec => []JournalWhole
<1>1. EndInv => JournalWhole
  BY DEF EndInv, JournalWhole
<1>. QED
  BY <1>1, EndHolds, PTL

(* A turn nobody cancelled is in the window exactly if its row says it was *)
(* answered, but for an answered turn whose final text was refused or      *)
(* whose event could not be settled: that is in the window, and its row    *)
(* says error.                                                             *)
THEOREM WindowIsAsStored == Spec => []WindowAsStored
<1>1. EndInv => WindowAsStored
  <2> SUFFICES ASSUME EndInv, Over, deps.remember, cancels = 0
               PROVE  window <=> row = "responded" \/ (responded /\ (dropped \/ unsettled))
    BY DEF WindowAsStored
  <2>1. pc \in Ended /\ pc \in Left
    BY DEF Over, Ended, Left
  <2>2. CASE completed
    BY <2>2 DEF EndInv
  <2>3. CASE ~completed
    BY <2>1, <2>3 DEF EndInv
  <2>. QED
    BY <2>2, <2>3
<1>. QED
  BY <1>1, EndHolds, PTL

(* However a turn ends, what it staged is written once and the action      *)
(* ledger shows as done what is done, unless the cleanup was cut off.      *)
THEOREM StagedIsWrittenOnce == Spec => []WritesOnce
<1>1. TypeInv /\ WriteInv => WritesOnce
  <2> SUFFICES ASSUME TypeInv, WriteInv PROVE WritesOnce
    OBVIOUS
  <2>1. CASE pc \in Ended
    <3>1. Cleaned
      BY <2>1 DEF WriteInv
    <3>2. ASSUME Over, ~cut, NEW c \in ToSet(pending) PROVE landed[c] = 1 /\ c \in acted
      <4>1. Done = Len(pending)
        BY <3>1, <3>2 DEF Cleaned, Over, Done, TypeInv, TypeOK
      <4>2. PICK i \in 1..Len(pending) : c = pending[i]
        BY <3>2 DEF ToSet, TypeInv, TypeOK
      <4>. QED
        BY <3>1, <3>2, <4>1, <4>2 DEF Cleaned
    <3>. QED
      BY <3>1, <3>2 DEF Cleaned, WritesOnce
  <2>2. CASE pc \notin Ended
    BY <2>2 DEF WriteInv, Staged, WritesOnce, Over, Ended
  <2>. QED
    BY <2>1, <2>2
<1>2. TypeInv /\ WriteInv /\ [Next]_vars => (TypeInv /\ WriteInv)'
  BY TypeStep, WriteStep
<1>. QED
  BY <1>1, <1>2, TypeInit, WriteInit, PTL DEF Spec
=============================================================================
