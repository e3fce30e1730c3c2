---------------------------- MODULE TurnLoopProofs ----------------------------
(***************************************************************************)
(* What TurnLoop keeps for any shapes of rounds and any limits, any number *)
(* of turns, facts, failures and crashes, from TurnAssumption alone: what  *)
(* a turn starts, how it ends, how often it corrects the model, and that   *)
(* what it stores and what it sends to the model keep the native pairs,    *)
(* contradict no row of the ledger and leave nothing out.                  *)
(*                                                                         *)
(* Transcripts are put together from pieces that are sound by themselves - *)
(* of one event, of one round - and what is told stays told: a transcript  *)
(* is Sound for the events it covers when nothing that is still to come    *)
(* can contradict it.                                                      *)
(***************************************************************************)
EXTENDS TurnLoop, FiniteSetTheorems, SequenceTheorems, WellFoundedInduction, TLAPS

USE DEF ledger, loop

-----------------------------------------------------------------------------
(* The invariants. *)

Kinds == {"send", "tool"}
Status == {"started", "succeeded", "rejected", "failed", "unknown"}
RoundRow == [calls : Nat, ok : BOOLEAN, finished : BOOLEAN]
Ref == {<<e>> : e \in Nat} \cup (Nat \X Nat) \cup (Nat \X Nat \X Kinds \X Nat)
Event == [kind : {"inbound", "round", "result"}, ref : Ref, say : {"fact", "proposed"} \cup Status]

Typed ==
  /\ pc \in {"idle", "loaded", "routing", "top", "asking", "malformed", "acting", "executing"}
  /\ up \in BOOLEAN /\ cancelled \in BOOLEAN /\ unknown \in BOOLEAN /\ rejected \in BOOLEAN
  /\ turn \in Nat /\ index \in Nat /\ pos \in Nat /\ corrections \in Nat /\ kind \in Kinds
  /\ round.sends \in Nat /\ round.calls \in Nat /\ round.ok \in BOOLEAN
  /\ rounds \in [DOMAIN rounds -> RoundRow] /\ IsFiniteSet(DOMAIN rounds)
  /\ DOMAIN rounds \subseteq Nat \X Nat
  /\ rows \in [DOMAIN rows -> Status] /\ IsFiniteSet(DOMAIN rows)
  /\ DOMAIN rows \subseteq Nat \X Nat \X Kinds \X Nat

(* The actions of a round are executed. *)
Acting == pc \in {"acting", "executing"}

(* A round is recorded and not yet saved. *)
Open == Acting \/ pc = "malformed"

(* Where the turn is, in its rounds and in the rows of its actions: actions *)
(* belong to rounds whose content parsed, and no round comes again.        *)
Placed ==
  /\ ~up => pc = "idle" /\ last = "none"
  /\ \A r \in DOMAIN rounds : r[1] <= turn
  /\ \A a \in DOMAIN rows : <<a[1], a[2]>> \in DOMAIN rounds /\ rounds[<<a[1], a[2]>>].ok
  /\ pc # "idle" => \A r \in DOMAIN rounds : r[1] = turn => r[2] < index \/ (Open /\ r[2] = index)
  /\ Open => Rid \in DOMAIN rounds /\ (rounds[Rid].ok <=> Acting)

(* While a turn goes on, what it started is settled before anything else   *)
(* is, and it knows when an outcome is in doubt or a message was rejected. *)
Doubtless ==
  pc # "idle" => \A a \in DOMAIN rows : a[1] = turn =>
    /\ rows[a] = "started" => pc = "executing" /\ a = Current
    /\ rows[a] = "unknown" => Acting /\ unknown
    /\ rows[a] = "rejected" /\ a[2] = index => Acting /\ rejected

(* The events of rounds and results, in the ledger and in the projection.  *)
Logged ==
  /\ log \in Seq(Event)
  /\ history = [messages |-> history.messages, ids |-> history.ids]
  /\ \A e \in Seqs : log[e].kind # "inbound" => log[e].ref[1] \in Nat /\ log[e].ref[1] <= turn

(* While a turn goes on, its rounds but the open one are finished, and its *)
(* events are projected or will be with the open round.                    *)
Saved ==
  pc # "idle" =>
    /\ \A r \in DOMAIN rounds : r[1] = turn => rounds[r].finished \/ (Open /\ r = Rid)
    /\ \A e \in Seqs : log[e].kind # "inbound" /\ log[e].ref[1] = turn =>
         e \in projected \/ (Open /\ e \in history.ids)

(* A turn has corrected the model as often as it has left a round with     *)
(* nothing to answer behind it, whatever was wrong with the round.         *)
Correctable(r) == rounds[r].ok => rounds[r].calls = 0
Past == {r \in DOMAIN rounds : r[1] = turn /\ r[2] < index /\ Correctable(r)}
Corrected(t) ==
  {r \in DOMAIN rounds : r[1] = t /\ Correctable(r) /\ <<t, r[2] + 1>> \in DOMAIN rounds}

Counted ==
  /\ corrections <= MaxCorrections
  /\ \A t \in Nat : Cardinality(Corrected(t)) <= MaxCorrections
  /\ pc # "idle" => Cardinality(Past) <= corrections

-----------------------------------------------------------------------------
(* The pieces of steps. *)

LEMMA HistoryIds == \E m : History = [messages |-> m, ids |-> Seqs \ projected]
BY DEF History

(* The end of a turn. *)
LEMMA EndFacts ==
  ASSUME NEW s, End(s)
  PROVE  /\ pc' = "idle" /\ last' = s /\ round' = Idle /\ kind' = "send" /\ pos' = 1
         /\ unknown' = FALSE /\ rejected' = FALSE /\ history' = NoHistory /\ corrections' = 0
         /\ feedback' = <<>> /\ UNCHANGED <<up, cancelled, turn, index>>
BY DEF End, LeaveTurn, LeaveRound

(* A turn that ends where it writes nothing: with no round open, unless it *)
(* failed.                                                                 *)
LEMMA Endings ==
  ASSUME Typed, RouteSilent \/ EndLoop \/ AskFails \/ LedgerFails
  PROVE  \E s : End(s) /\ s # "completed" /\ (s = "error" \/ ~Open) /\ pc # "idle" /\ UNCHANGED ledger
<1>1. CASE RouteSilent
  BY <1>1 DEF RouteSilent, Open, Acting
<1>2. CASE EndLoop
  BY <1>2 DEF EndLoop, Open, Acting
<1>3. CASE AskFails
  BY <1>3 DEF AskFails, Open, Acting
<1>4. CASE LedgerFails
  BY <1>4 DEF LedgerFails
<1>. QED
  BY <1>1, <1>2, <1>3, <1>4

LEMMA RecordFacts ==
  ASSUME Typed, Placed, NEW shape \in Shape, RecordRound(shape)
  PROVE  /\ pc = "asking" /\ pc' \in {"acting", "malformed"} /\ (shape.ok <=> pc' = "acting")
         /\ DOMAIN rounds' = DOMAIN rounds \cup {Rid} /\ Rid \notin DOMAIN rounds
         /\ rounds'[Rid] = [calls |-> shape.calls, ok |-> shape.ok, finished |-> FALSE]
         /\ \A r \in DOMAIN rounds : rounds'[r] = rounds[r]
         /\ UNCHANGED <<rows, turn, index, corrections, last, up, projected>>
         /\ shape.sends \in Nat /\ shape.calls \in Nat /\ shape.ok \in BOOLEAN
<1>1. pc = "asking" /\ UNCHANGED <<rows, turn, index, corrections, last, up, projected>>
      /\ pc' = IF shape.ok THEN "acting" ELSE "malformed"
  BY DEF RecordRound
<1>2. shape.sends \in Nat /\ shape.calls \in Nat /\ shape.ok \in BOOLEAN
  BY TurnAssumption
<1>3. Rid \notin DOMAIN rounds
  BY <1>1 DEF Placed, Open, Acting, Rid, Typed
<1>4. rounds' = Inserted(rounds, Rid, [calls |-> shape.calls, ok |-> shape.ok, finished |-> FALSE])
  BY DEF RecordRound
<1>5. /\ DOMAIN rounds' = DOMAIN rounds \cup {Rid}
      /\ rounds'[Rid] = [calls |-> shape.calls, ok |-> shape.ok, finished |-> FALSE]
      /\ \A r \in DOMAIN rounds : r # Rid => rounds'[r] = rounds[r]
  BY <1>4 DEF Inserted
<1>. QED
  BY <1>1, <1>2, <1>3, <1>5

(* The open round is saved. *)
LEMMA SaveFacts ==
  ASSUME Typed, NEW messages, SaveRound(messages), Rid \in DOMAIN rounds
  PROVE  /\ DOMAIN rounds' = DOMAIN rounds /\ rounds' \in [DOMAIN rounds -> RoundRow]
         /\ \A r \in DOMAIN rounds : rounds'[r].ok = rounds[r].ok
         /\ \A r \in DOMAIN rounds : r # Rid => rounds'[r] = rounds[r]
         /\ rounds'[Rid].finished
         /\ projected' = projected \cup history.ids
<1>1. rounds' = [rounds EXCEPT ![Rid].finished = TRUE] /\ projected' = projected \cup history.ids
  BY DEF SaveRound
<1>2. rounds[Rid] \in RoundRow /\ rounds \in [DOMAIN rounds -> RoundRow]
  BY DEF Typed
<1>3. rounds'[Rid] = [rounds[Rid] EXCEPT !.finished = TRUE] /\ DOMAIN rounds' = DOMAIN rounds
      /\ \A r \in DOMAIN rounds : r # Rid => rounds'[r] = rounds[r]
  BY <1>1
<1>4. rounds'[Rid] \in RoundRow /\ rounds'[Rid].finished /\ rounds'[Rid].ok = rounds[Rid].ok
  BY <1>2, <1>3 DEF RoundRow
<1>5. rounds' \in [DOMAIN rounds -> RoundRow]
  BY <1>1, <1>2, <1>4
<1>. QED
  BY <1>1, <1>3, <1>4, <1>5

(* What follows a saved round: the end, or another round of the turn.      *)
Onward ==
  \/ /\ pc' = "top" /\ index' = index + 1 /\ round' = Idle /\ kind' = "send" /\ pos' = 1
     /\ unknown' = FALSE /\ rejected' = FALSE /\ history' = [history EXCEPT !.messages = stored']
     /\ feedback' = <<>> /\ UNCHANGED <<up, cancelled, turn, last>>
  \/ \E s : s # "error" /\ s # "none" /\ End(s)

LEMMA ContinueFacts ==
  ASSUME NEW tail, NEW corrected, Continue(tail, corrected)
  PROVE  Onward /\ pc' = "top" /\ corrections' = corrected
BY DEF Continue, Onward, LeaveRound

LEMMA CorrectFacts ==
  ASSUME Typed, NEW tail, NEW status \in {"review_rejected", "protocol_error"}, Correct(tail, status)
  PROVE  /\ Onward
         /\ last' # "completed" \/ pc' = "top"
         /\ pc' = "top" => corrections' = corrections + 1 /\ corrections' <= MaxCorrections
<1>. MaxCorrections \in Nat /\ corrections \in Nat
  BY TurnAssumption DEF Typed
<1>1. CASE corrections + 1 > MaxCorrections
  <2>1. End(status)
    BY <1>1 DEF Correct
  <2>. QED
    BY <2>1, EndFacts DEF Onward
<1>2. CASE ~(corrections + 1 > MaxCorrections)
  <2>1. Continue(tail, corrections + 1)
    BY <1>2 DEF Correct
  <2>. QED
    BY <1>2, <2>1, ContinueFacts
<1>. QED
  BY <1>1, <1>2

LEMMA DoneFacts ==
  ASSUME Typed, RoundDone
  PROVE  /\ pc = "acting" /\ UNCHANGED <<log, rows>> /\ Onward
         /\ SaveRound(history.messages \o SentNote)
         /\ pc' = "top" => ~unknown /\ corrections' \in {corrections, corrections + 1}
         /\ pc' = "top" => \/ corrections' = corrections /\ round.calls > 0
                           \/ corrections' = corrections + 1 /\ corrections' <= MaxCorrections
         /\ pc' = "idle" /\ last' = "completed" => ~unknown /\ ~rejected
<1>1. pc = "acting" /\ UNCHANGED <<log, rows>> /\ SaveRound(history.messages \o SentNote)
  BY DEF RoundDone
<1>2. ASSUME NEW s \in {"cancelled", "unknown_receipt"}, End(s)
      PROVE  Onward /\ pc' = "idle" /\ last' # "completed"
  BY <1>2, EndFacts DEF Onward
<1>4. CASE ~unknown /\ round.calls > 0 /\ Continue(SentNote, corrections)
  BY <1>1, <1>4, ContinueFacts
<1>5. CASE ~unknown /\ rejected /\ Correct(SentNote, "review_rejected")
  BY <1>1, <1>5, CorrectFacts
<1>6. CASE ~unknown /\ ~rejected /\ End("completed")
  BY <1>1, <1>6, EndFacts DEF Onward
<1>3. CASE End("cancelled") \/ End("unknown_receipt")
  BY <1>1, <1>2, <1>3
<1>. QED
  BY <1>3, <1>4, <1>5, <1>6 DEF RoundDone

LEMMA MalformedFacts ==
  ASSUME Typed, Malformed
  PROVE  /\ pc = "malformed" /\ UNCHANGED <<log, rows>> /\ Onward
         /\ \E messages : SaveRound(messages)
         /\ pc' = "top" => corrections' = corrections + 1 /\ corrections' <= MaxCorrections
         /\ pc' = "idle" => last' # "completed"
<1>1. pc = "malformed" /\ UNCHANGED <<log, rows>> /\ \E messages : SaveRound(messages)
  BY DEF Malformed
<1>2. \E tail : Correct(tail, "protocol_error")
  BY DEF Malformed
<1>. QED
  BY <1>1, <1>2, CorrectFacts

(* The note of an outcome. *)
LEMMA NoteFacts ==
  ASSUME Typed, NEW s, Note(s)
  PROVE  /\ pos' = pos + 1 /\ unknown' \in BOOLEAN /\ rejected' \in BOOLEAN
         /\ unknown => unknown'
         /\ s = "unknown" => unknown'
         /\ rejected => rejected'
         /\ kind = "send" /\ s = "rejected" => rejected'
BY DEF Typed, Note

LEMMA FinishFacts ==
  ASSUME Typed, FinishAction, Current \in DOMAIN rows
  PROVE  \E s \in Status \ {"started"} :
           /\ Note(s) /\ NoteInHistory(s, {Len(log) + 1}) /\ (kind = "tool" => s # "rejected")
           /\ DOMAIN rows' = DOMAIN rows /\ rows'[Current] = s
           /\ \A a \in DOMAIN rows : a # Current => rows'[a] = rows[a]
           /\ rows' \in [DOMAIN rows -> Status]
           /\ log' = Append(log, [kind |-> "result", ref |-> Current, say |-> s])
<1>1. PICK s \in IF kind = "send" THEN {"succeeded", "rejected", "unknown"}
                 ELSE {"succeeded", "failed", "unknown"} :
        /\ rows' = [rows EXCEPT ![Current] = s]
        /\ log' = Append(log, [kind |-> "result", ref |-> Current, say |-> s])
        /\ Note(s) /\ NoteInHistory(s, {Len(log) + 1})
  BY DEF FinishAction
<1>2. s \in Status \ {"started"} /\ (kind = "tool" => s # "rejected")
  BY DEF Status
<1>3. rows' \in [DOMAIN rows -> Status]
  BY <1>1, <1>2 DEF Typed
<1>. QED
  BY <1>1, <1>2, <1>3

LEMMA AppendFacts ==
  ASSUME Logged, NEW e \in Event, log' = Append(log, e)
  PROVE  /\ log' \in Seq(Event) /\ Len(log) \in Nat /\ Len(log') = Len(log) + 1
         /\ \A n \in Seqs : log'[n] = log[n]
         /\ log'[Len(log) + 1] = e
BY DEF Logged, Seqs

(* The events a process that starts adds. *)
LEMMA RecoverFacts ==
  ASSUME Typed, Logged, Placed, Recover
  PROVE  /\ log' \in Seq(Event) /\ Len(log) \in Nat /\ Len(log') \in Nat
         /\ \A n \in Seqs : n \in Seqs' /\ log'[n] = log[n]
         /\ \A n \in Seqs' : n \notin Seqs =>
              /\ log'[n].ref[1] \in Nat /\ log'[n].ref[1] <= turn
              /\ log'[n].kind = "result" /\ log'[n].say = "unknown"
              /\ log'[n].ref \in DOMAIN rows /\ rows[log'[n].ref] = "started"
         /\ DOMAIN rows' = DOMAIN rows /\ rows' \in [DOMAIN rows -> Status]
<1>. DEFINE left == {a \in DOMAIN rows : rows[a] = "started"}
<1>1. rows' = [a \in DOMAIN rows |-> IF a \in left THEN "unknown" ELSE rows[a]]
  BY DEF Recover
<1>2. rows' \in [DOMAIN rows -> Status] /\ DOMAIN rows' = DOMAIN rows
  BY <1>1 DEF Typed, Status
<1>3. PICK order \in SetToSeqs(left) :
        log' = log \o [i \in DOMAIN order |-> [kind |-> "result", ref |-> order[i], say |-> "unknown"]]
  BY DEF Recover
<1>4. Cardinality(left) \in Nat /\ order \in [1..Cardinality(left) -> left]
  <2>1. left \subseteq DOMAIN rows
    OBVIOUS
  <2>2. Cardinality(left) \in Nat
    BY <2>1, FS_Subset, FS_CardinalityType DEF Typed
  <2>. HIDE DEF left
  <2>. QED
    BY <2>2, <1>3 DEF SetToSeqs
<1>. DEFINE more == [i \in DOMAIN order |-> [kind |-> "result", ref |-> order[i], say |-> "unknown"]]
<1>5. \A a \in left : a \in Ref /\ a[1] \in Nat /\ a[1] <= turn /\ a \in DOMAIN rows /\ rows[a] = "started"
  BY DEF Typed, Placed, Ref
<1>. HIDE DEF left
<1>6. \A i \in DOMAIN order : /\ more[i] \in Event /\ more[i].ref[1] \in Nat /\ more[i].ref[1] <= turn
                             /\ more[i].kind = "result" /\ more[i].say = "unknown"
                             /\ more[i].ref \in DOMAIN rows /\ rows[more[i].ref] = "started"
  BY <1>4, <1>5 DEF Event, Status
<1>7. more \in Seq(Event) /\ DOMAIN more = 1..Len(more) /\ Len(more) \in Nat /\ DOMAIN
     more = DOMAIN order
  <2>1. more \in [1..Cardinality(left) -> Event]
    BY <1>4, <1>6
  <2>. QED
    BY <2>1, <1>4, SeqDef
<1>. HIDE DEF more
<1>8. log \in Seq(Event) /\ log' = log \o more
  BY <1>3 DEF Logged, more
<1>9. log' \in Seq(Event) /\ Len(log) \in Nat /\ Len(log') = Len(log) + Len(more)
      /\ \A n \in 1..Len(log) : log'[n] = log[n]
  BY <1>7, <1>8
<1>10. \A m \in 1..Len(more) : log'[Len(log) + m] = more[m]
  BY <1>7, <1>8
<1>11. \A n \in 1..Len(log') : n \notin Seqs => n - Len(log) \in 1..Len(more)
  BY <1>7, <1>9 DEF Seqs
<1>12. ASSUME NEW n \in 1..Len(log'), n \notin Seqs
       PROVE  /\ log'[n].ref[1] \in Nat /\ log'[n].ref[1] <= turn
              /\ log'[n].kind = "result" /\ log'[n].say = "unknown"
              /\ log'[n].ref \in DOMAIN rows /\ rows[log'[n].ref] = "started"
  <2>. DEFINE k == n - Len(log)
  <2>1. k \in 1..Len(more) /\ n = Len(log) + k
    BY <1>7, <1>9, <1>11, <1>12
  <2>. HIDE DEF k
  <2>2. log'[Len(log) + k] = more[k]
    BY <1>10, <2>1, Zenon
  <2>3. log'[n] = more[k]
    BY <2>1, <2>2
  <2>. QED
    BY <1>6, <1>7, <2>1, <2>3
<1>. QED
  BY <1>2, <1>7, <1>9, <1>12 DEF Seqs

-----------------------------------------------------------------------------
(* The steps. *)

LEMMA Begun == Init => Typed /\ Placed /\ Doubtless /\ Logged /\ Saved /\ Counted
<1>. SUFFICES ASSUME Init PROVE Typed /\ Placed /\ Doubtless /\ Logged /\ Saved /\ Counted
  OBVIOUS
<1>. USE TurnAssumption DEF Init
<1>1. DOMAIN <<>> = {} /\ <<>> \in Seq(Event) /\ Len(<<>>) = 0
  OBVIOUS
<1>2. IsFiniteSet({})
  BY FS_EmptySet
<1>3. rounds \in [DOMAIN rounds -> RoundRow] /\ rows \in [DOMAIN rows -> Status]
  BY <1>1
<1>4. Typed
  BY <1>1, <1>2, <1>3 DEF Typed, Idle, Kinds
<1>5. Placed
  BY <1>1 DEF Placed, Open, Acting
<1>6. Logged
  BY <1>1 DEF Logged, Seqs, NoHistory
<1>7. \A t : Corrected(t) = {}
  BY <1>1 DEF Corrected
<1>8. Counted
  BY <1>7, FS_EmptySet DEF Counted
<1>. QED
  BY <1>4, <1>5, <1>6, <1>8 DEF Doubtless, Saved

(* The types. *)
LEMMA TypedStep == Placed /\ Typed /\ [Next]_vars => Typed'
<1>. SUFFICES ASSUME Placed, Typed, [Next]_vars PROVE Typed'
  OBVIOUS
<1>. USE TurnAssumption
<1>1. CASE UNCHANGED <<pc, up, cancelled, unknown, rejected, turn, index, pos,
     corrections, kind, round, rounds, rows>>
  BY <1>1 DEF Typed
<1>2. CASE RouteSilent \/ EndLoop \/ AskFails \/ LedgerFails
  <2>1. PICK s : End(s) /\ s # "completed" /\ (s = "error" \/ ~Open) /\ pc # "idle" /\ UNCHANGED ledger
    BY <1>2, Endings
  <2>2. pc' = "idle" /\ last' = s /\ round' = Idle /\ kind' = "send" /\ pos' = 1
        /\ unknown' = FALSE /\ rejected' = FALSE /\ history' = NoHistory /\ corrections' = 0
        /\ UNCHANGED <<up, cancelled, turn, index>>
    BY <2>1, EndFacts
  <2>. QED
    BY <2>1, <2>2 DEF Typed, Idle, Kinds
<1>3. CASE LoadHistory
  BY <1>3 DEF LoadHistory, Typed
<1>4. CASE SaveLoaded
  BY <1>4 DEF SaveLoaded, Typed
<1>5. CASE RouteGenerate
  BY <1>5 DEF RouteGenerate, Typed
<1>6. CASE Refresh
  BY <1>6 DEF Refresh, Typed
<1>7. ASSUME NEW shape \in Shape, RecordRound(shape) PROVE Typed'
  <2>1. /\ pc' \in {"acting", "malformed"} /\ DOMAIN rounds' = DOMAIN rounds \cup {Rid}
        /\ rounds'[Rid] = [calls |-> shape.calls, ok |-> shape.ok, finished |-> FALSE]
        /\ \A r \in DOMAIN rounds : rounds'[r] = rounds[r]
        /\ shape.sends \in Nat /\ shape.calls \in Nat /\ shape.ok \in BOOLEAN
    BY <1>7, RecordFacts
  <2>2. rounds'[Rid] \in RoundRow /\ Rid \in Nat \X Nat
    BY <2>1 DEF RoundRow, Rid, Typed
  <2>3. IsFiniteSet(DOMAIN rounds')
    BY <2>1, FS_AddElement DEF Typed
  <2>4. rounds' = [r \in DOMAIN rounds' |-> rounds'[r]]
    BY <1>7, <2>1 DEF RecordRound, Inserted
  <2>5. rounds' \in [DOMAIN rounds' -> RoundRow]
    BY <2>1, <2>2, <2>4 DEF Typed
  <2>6. round' = shape /\ UNCHANGED <<rows, up, cancelled, turn, index, kind, pos,
       corrections, unknown, rejected>>
    BY <1>7 DEF RecordRound
  <2>. QED
    BY <2>1, <2>2, <2>3, <2>5, <2>6 DEF Typed
<1>8. CASE SkipAction
  <2>1. \E s : Note(s)
    BY <1>8 DEF SkipAction
  <2>2. UNCHANGED <<pc, up, cancelled, turn, index, corrections, kind, round, rounds, rows>>
    BY <1>8 DEF SkipAction
  <2>. QED
    BY <2>1, <2>2, NoteFacts DEF Typed
<1>9. CASE RefuseAction
  <2>1. \E s : Note(s)
    BY <1>9 DEF RefuseAction
  <2>2. UNCHANGED <<pc, up, cancelled, turn, index, corrections, kind, round, rounds, rows>>
    BY <1>9 DEF RefuseAction
  <2>. QED
    BY <2>1, <2>2, NoteFacts DEF Typed
<1>10. CASE StartAction
  <2>1. rows' = Inserted(rows, Current, "started") /\ pc' = "executing"
        /\ UNCHANGED <<rounds, up, cancelled, loop>>
    BY <1>10 DEF StartAction
  <2>2. Current \in Nat \X Nat \X Kinds \X Nat
    BY DEF Current, Act, ActionOf, Rid, Typed
  <2>3. DOMAIN rows' = DOMAIN rows \cup {Current} /\ rows'[Current] = "started"
        /\ \A k \in DOMAIN rows : k # Current => rows'[k] = rows[k]
    BY <2>1 DEF Inserted
  <2>4. IsFiniteSet(DOMAIN rows')
    BY <2>3, FS_AddElement DEF Typed
  <2>5. rows' = [a \in DOMAIN rows' |-> rows'[a]]
    BY <2>1, <2>3 DEF Inserted
  <2>6. rows' \in [DOMAIN rows' -> Status]
    BY <2>3, <2>5 DEF Typed, Status
  <2>. QED
    BY <2>1, <2>2, <2>3, <2>4, <2>6 DEF Typed
<1>11. CASE FinishAction
  <2>1. pc' = "acting" /\ UNCHANGED <<up, cancelled, turn, index, corrections, kind, round, rounds>>
    BY <1>11 DEF FinishAction
  <2>2. PICK s : Note(s) /\ rows' = [rows EXCEPT ![Current] = s] /\ s \in Status
    BY <1>11 DEF FinishAction, Status
  <2>3. rows' \in [DOMAIN rows -> Status] /\ DOMAIN rows' = DOMAIN rows
    BY <2>2 DEF Typed
  <2>. QED
    BY <2>1, <2>2, <2>3, NoteFacts DEF Typed
<1>12. CASE SendsDone
  BY <1>12 DEF SendsDone, Typed, Kinds
<1>13. CASE RoundDone
  <2>1. PICK messages : SaveRound(messages)
    BY <1>13, DoneFacts
  <2>2. Onward /\ UNCHANGED rows /\ Rid \in DOMAIN rounds
    BY <1>13, DoneFacts DEF Placed, Open, Acting
  <2>3. DOMAIN rounds' = DOMAIN rounds /\ rounds' \in [DOMAIN rounds -> RoundRow]
    BY <2>1, <2>2, SaveFacts
  <2>4. corrections' \in Nat
    <3>1. pc' = "top" \/ corrections' = 0
      BY <2>2, EndFacts DEF Onward
    <3>. QED
      BY <1>13, <3>1, DoneFacts DEF Typed
  <2>5. /\ pc' \in {"top", "idle"} /\ index' \in {index, index + 1} /\ round' = Idle /\ kind' = "send"
        /\ pos' = 1 /\ unknown' = FALSE /\ rejected' = FALSE /\ UNCHANGED <<up, cancelled, turn>>
    BY <2>2, EndFacts DEF Onward
  <2>6. index' \in Nat /\ turn' \in Nat
    BY <2>5 DEF Typed
  <2>7. round'.sends \in Nat /\ round'.calls \in Nat /\ round'.ok \in BOOLEAN
    BY <2>5 DEF Idle
  <2>. QED
    BY <2>2, <2>3, <2>4, <2>5, <2>6, <2>7 DEF Typed, Kinds
<1>14. CASE Malformed
  <2>1. PICK messages : SaveRound(messages)
    BY <1>14, MalformedFacts
  <2>2. Onward /\ UNCHANGED rows /\ Rid \in DOMAIN rounds
    BY <1>14, MalformedFacts DEF Placed, Open, Acting
  <2>3. DOMAIN rounds' = DOMAIN rounds /\ rounds' \in [DOMAIN rounds -> RoundRow]
    BY <2>1, <2>2, SaveFacts
  <2>4. corrections' \in Nat
    <3>1. pc' = "top" \/ corrections' = 0
      BY <2>2, EndFacts DEF Onward
    <3>. QED
      BY <1>14, <3>1, MalformedFacts DEF Typed
  <2>5. /\ pc' \in {"top", "idle"} /\ index' \in {index, index + 1} /\ round' = Idle /\ kind' = "send"
        /\ pos' = 1 /\ unknown' = FALSE /\ rejected' = FALSE /\ UNCHANGED <<up, cancelled, turn>>
    BY <2>2, EndFacts DEF Onward
  <2>6. index' \in Nat /\ turn' \in Nat
    BY <2>5 DEF Typed
  <2>7. round'.sends \in Nat /\ round'.calls \in Nat /\ round'.ok \in BOOLEAN
    BY <2>5 DEF Idle
  <2>. QED
    BY <2>2, <2>3, <2>4, <2>5, <2>6, <2>7 DEF Typed, Kinds
<1>15. CASE Cancel
  BY <1>15 DEF Cancel, Typed
<1>16. CASE Crash
  BY <1>16 DEF Crash, LeaveTurn, LeaveRound, Typed, Idle, Kinds
<1>17. CASE Recover
  <2>1. rows' \in [DOMAIN rows -> Status] /\ DOMAIN rows' = DOMAIN rows
    BY <1>17 DEF Recover, Typed, Status
  <2>. QED
    BY <1>17, <2>1 DEF Recover, Typed
<1>18. CASE Inbound
  BY <1>1, <1>18 DEF Inbound
<1>19. CASE UNCHANGED vars
  BY <1>1, <1>19 DEF vars
<1>. QED
  BY <1>2, <1>3, <1>4, <1>5, <1>6, <1>7, <1>8, <1>9, <1>10, <1>11, <1>12, <1>13, <1>14,
       <1>15, <1>16, <1>17, <1>18, <1>19 DEF Next, TurnStep

(* The place of the turn. *)
LEMMA PlacedStep == Typed /\ Placed /\ [Next]_vars => Placed'
<1>. SUFFICES ASSUME Typed, Placed, [Next]_vars PROVE Placed'
  OBVIOUS
<1>. USE TurnAssumption
<1>1. CASE UNCHANGED <<pc, up, last, turn, index, rounds, rows>>
  BY <1>1 DEF Placed, Open, Acting, Rid
<1>2. CASE RouteSilent \/ EndLoop \/ AskFails \/ LedgerFails
  <2>1. PICK s : End(s) /\ s # "completed" /\ (s = "error" \/ ~Open) /\ pc # "idle" /\ UNCHANGED ledger
    BY <1>2, Endings
  <2>2. pc' = "idle" /\ last' = s /\ round' = Idle /\ kind' = "send" /\ pos' = 1
        /\ unknown' = FALSE /\ rejected' = FALSE /\ history' = NoHistory /\ corrections' = 0
        /\ UNCHANGED <<up, cancelled, turn, index>>
    BY <2>1, EndFacts
  <2>. QED
    BY <2>1, <2>2 DEF Placed, Open, Acting
<1>3. CASE LoadHistory
  <2>1. pc = "idle" /\ pc' = "loaded" /\ turn' = turn + 1 /\ index' = 0 /\ up /\ UNCHANGED
       <<up, rounds, rows>>
    BY <1>3 DEF LoadHistory
  <2>2. \A r \in DOMAIN rounds : r[1] <= turn /\ r[1] \in Nat
    BY DEF Placed, Typed
  <2>. QED
    BY <2>1, <2>2 DEF Placed, Open, Acting, Typed
<1>4. CASE SaveLoaded
  BY <1>4 DEF SaveLoaded, Placed, Open, Acting, Rid
<1>5. CASE RouteGenerate
  BY <1>5 DEF RouteGenerate, Placed, Open, Acting, Rid
<1>6. CASE Refresh
  BY <1>6 DEF Refresh, Placed, Open, Acting, Rid
<1>7. ASSUME NEW shape \in Shape, RecordRound(shape) PROVE Placed'
  <2>1. /\ pc = "asking" /\ pc' \in {"acting", "malformed"} /\ (shape.ok <=> pc' = "acting")
        /\ DOMAIN rounds' = DOMAIN rounds \cup {Rid} /\ Rid \notin DOMAIN rounds
        /\ rounds'[Rid] = [calls |-> shape.calls, ok |-> shape.ok, finished |-> FALSE]
        /\ \A r \in DOMAIN rounds : rounds'[r] = rounds[r]
        /\ UNCHANGED <<rows, turn, index, last, up>>
    BY <1>7, RecordFacts
  <2>2. Rid' = Rid /\ Rid[1] = turn /\ Rid[2] = index /\ turn <= turn
    BY <2>1 DEF Rid, Typed
  <2>3. Open' /\ (Acting' <=> pc' = "acting") /\ ~Open /\ up
    BY <2>1 DEF Open, Acting, Placed
  <2>4. \A a \in DOMAIN rows : <<a[1], a[2]>> \in DOMAIN rounds' /\ rounds'[<<a[1], a[2]>>].ok
    BY <2>1 DEF Placed
  <2>5. \A r \in DOMAIN rounds' : r[1] <= turn /\ (r[1] = turn => r[2] < index \/ r[2] = index)
    BY <2>1, <2>2, <2>3 DEF Placed
  <2>6. rounds'[Rid].ok <=> Acting'
    BY <2>1, <2>3
  <2>. QED
    BY <2>1, <2>2, <2>3, <2>4, <2>5, <2>6 DEF Placed
<1>8. CASE StartAction
  <2>1. rows' = Inserted(rows, Current, "started") /\ pc = "acting" /\ pc' = "executing"
        /\ UNCHANGED <<rounds, up, turn, index, last>>
    BY <1>8 DEF StartAction
  <2>2. DOMAIN rows' = DOMAIN rows \cup {Current}
    BY <2>1 DEF Inserted
  <2>3. <<Current[1], Current[2]>> = Rid /\ Rid' = Rid
    BY <2>1 DEF Current, Act, ActionOf, Rid
  <2>4. Rid \in DOMAIN rounds /\ rounds[Rid].ok /\ Open /\ Open' /\ Acting /\ Acting'
    BY <2>1 DEF Placed, Open, Acting
  <2>. QED
    BY <2>1, <2>2, <2>3, <2>4 DEF Placed
<1>9. CASE FinishAction
  <2>1. pc = "executing" /\ pc' = "acting" /\ UNCHANGED <<rounds, up, turn, index, last>>
       /\ DOMAIN rows' = DOMAIN rows
    BY <1>9 DEF FinishAction
  <2>. QED
    BY <2>1 DEF Placed, Open, Acting, Rid
<1>10. CASE RoundDone
  <2>1. PICK messages : SaveRound(messages)
    BY <1>10, DoneFacts
  <2>2. Onward /\ UNCHANGED rows /\ Rid \in DOMAIN rounds /\ Open /\ pc # "idle"
    BY <1>10, DoneFacts DEF Placed, Open, Acting
  <2>3. DOMAIN rounds' = DOMAIN rounds /\ \A r \in DOMAIN rounds : rounds'[r].ok = rounds[r].ok
    BY <2>1, <2>2, SaveFacts
  <2>4. \/ pc' = "top" /\ index' = index + 1 /\ UNCHANGED <<up, turn, last>>
        \/ pc' = "idle" /\ UNCHANGED <<up, turn, index>>
    BY <2>2, EndFacts DEF Onward
  <2>5. up /\ ~Open' /\ index \in Nat /\ DOMAIN rounds \subseteq Nat \X Nat
    BY <2>2, <2>4 DEF Placed, Open, Acting, Typed
  <2>6. pc' = "top" => \A r \in DOMAIN rounds' : r[1] = turn => r[2] < index'
    BY <2>2, <2>3, <2>4, <2>5 DEF Placed
  <2>7. \A a \in DOMAIN rows' : <<a[1], a[2]>> \in DOMAIN rounds' /\ rounds'[<<a[1], a[2]>>].ok
    BY <2>2, <2>3 DEF Placed
  <2>. QED
    BY <2>2, <2>3, <2>4, <2>5, <2>6, <2>7 DEF Placed
<1>11. CASE Malformed
  <2>1. PICK messages : SaveRound(messages)
    BY <1>11, MalformedFacts
  <2>2. Onward /\ UNCHANGED rows /\ Rid \in DOMAIN rounds /\ Open /\ pc # "idle"
    BY <1>11, MalformedFacts DEF Placed, Open, Acting
  <2>3. DOMAIN rounds' = DOMAIN rounds /\ \A r \in DOMAIN rounds : rounds'[r].ok = rounds[r].ok
    BY <2>1, <2>2, SaveFacts
  <2>4. \/ pc' = "top" /\ index' = index + 1 /\ UNCHANGED <<up, turn, last>>
        \/ pc' = "idle" /\ UNCHANGED <<up, turn, index>>
    BY <2>2, EndFacts DEF Onward
  <2>5. up /\ ~Open' /\ index \in Nat /\ DOMAIN rounds \subseteq Nat \X Nat
    BY <2>2, <2>4 DEF Placed, Open, Acting, Typed
  <2>6. pc' = "top" => \A r \in DOMAIN rounds' : r[1] = turn => r[2] < index'
    BY <2>2, <2>3, <2>4, <2>5 DEF Placed
  <2>7. \A a \in DOMAIN rows' : <<a[1], a[2]>> \in DOMAIN rounds' /\ rounds'[<<a[1], a[2]>>].ok
    BY <2>2, <2>3 DEF Placed
  <2>. QED
    BY <2>2, <2>3, <2>4, <2>5, <2>6, <2>7 DEF Placed
<1>12. CASE Crash
  BY <1>12 DEF Crash, Placed, Open, Acting
<1>13. CASE Recover
  <2>1. DOMAIN rows' = DOMAIN rows /\ UNCHANGED <<rounds, pc, turn, index, last>> /\ pc =
       "idle" /\ up' = TRUE
    BY <1>13 DEF Recover, Placed
  <2>. QED
    BY <2>1 DEF Placed, Open, Acting
<1>14. CASE SkipAction \/ RefuseAction \/ SendsDone \/ Inbound \/ Cancel
  BY <1>1, <1>14 DEF SkipAction, RefuseAction, SendsDone, Inbound, Cancel
<1>15. CASE UNCHANGED vars
  BY <1>1, <1>15 DEF vars
<1>. QED
  BY <1>2, <1>3, <1>4, <1>5, <1>6, <1>7, <1>8, <1>9, <1>10, <1>11, <1>12, <1>13, <1>14,
       <1>15 DEF Next, TurnStep

(* The doubts of a turn. *)
LEMMA DoubtlessStep == Typed /\ Placed /\ Doubtless /\ [Next]_vars => Doubtless'
<1>. SUFFICES ASSUME Typed, Placed, Doubtless, [Next]_vars PROVE Doubtless'
  OBVIOUS
<1>. USE TurnAssumption
<1>1. CASE UNCHANGED <<pc, turn, index, kind, pos, rows, unknown, rejected>>
  BY <1>1 DEF Doubtless, Acting, Current, Act, ActionOf, Rid
<1>2. CASE RouteSilent \/ EndLoop \/ AskFails \/ LedgerFails
  <2>1. PICK s : End(s) /\ s # "completed" /\ (s = "error" \/ ~Open) /\ pc # "idle" /\ UNCHANGED ledger
    BY <1>2, Endings
  <2>2. pc' = "idle" /\ last' = s /\ round' = Idle /\ kind' = "send" /\ pos' = 1
        /\ unknown' = FALSE /\ rejected' = FALSE /\ history' = NoHistory /\ corrections' = 0
        /\ UNCHANGED <<up, cancelled, turn, index>>
    BY <2>1, EndFacts
  <2>. QED
    BY <2>1, <2>2 DEF Doubtless
<1>3. CASE LoadHistory
  <2>1. turn' = turn + 1 /\ UNCHANGED rows
    BY <1>3 DEF LoadHistory
  <2>2. \A a \in DOMAIN rows : a[1] <= turn /\ a[1] \in Nat
    BY DEF Placed, Typed
  <2>. QED
    BY <2>1, <2>2 DEF Doubtless, Typed
<1>4. CASE SaveLoaded
  BY <1>4 DEF SaveLoaded, Doubtless, Acting, Current, Act, ActionOf, Rid
<1>5. CASE RouteGenerate
  BY <1>5 DEF RouteGenerate, Doubtless, Acting, Current, Act, ActionOf, Rid
<1>6. CASE Refresh
  BY <1>6 DEF Refresh, Doubtless, Acting, Current, Act, ActionOf, Rid
<1>7. ASSUME NEW shape \in Shape, RecordRound(shape) PROVE Doubtless'
  <2>1. pc = "asking" /\ pc' \in {"acting", "malformed"} /\ Rid \notin DOMAIN rounds
        /\ UNCHANGED <<rows, turn, index>>
    BY <1>7, RecordFacts
  <2>2. \A a \in DOMAIN rows : a[1] = turn => a[2] # index
    BY <2>1 DEF Placed, Rid
  <2>. QED
    BY <2>1, <2>2 DEF Doubtless, Acting
<1>8. CASE SkipAction
  <2>1. \E s : Note(s)
    BY <1>8 DEF SkipAction
  <2>2. pc = "acting" /\ UNCHANGED <<pc, turn, index, rows>>
    BY <1>8 DEF SkipAction
  <2>. QED
    BY <2>1, <2>2, NoteFacts DEF Doubtless, Acting
<1>9. CASE RefuseAction
  <2>1. \E s : Note(s)
    BY <1>9 DEF RefuseAction
  <2>2. pc = "acting" /\ UNCHANGED <<pc, turn, index, rows>>
    BY <1>9 DEF RefuseAction
  <2>. QED
    BY <2>1, <2>2, NoteFacts DEF Doubtless, Acting
<1>10. CASE StartAction
  <2>1. rows' = Inserted(rows, Current, "started") /\ pc = "acting" /\ pc' = "executing"
       /\ UNCHANGED loop
    BY <1>10 DEF StartAction
  <2>2. DOMAIN rows' = DOMAIN rows \cup {Current} /\ rows'[Current] = "started"
        /\ \A k \in DOMAIN rows : k # Current => rows'[k] = rows[k]
    BY <2>1 DEF Inserted
  <2>3. Current' = Current
    BY <2>1 DEF Current, Act, ActionOf, Rid
  <2>. QED
    BY <2>1, <2>2, <2>3 DEF Doubtless, Acting
<1>11. CASE FinishAction
  <2>1. pc = "executing" /\ pc' = "acting" /\ UNCHANGED <<turn, index>>
    BY <1>11 DEF FinishAction
  <2>2. CASE Current \in DOMAIN rows
    <3>1. PICK s \in Status \ {"started"} :
            /\ Note(s) /\ (kind = "tool" => s # "rejected")
            /\ DOMAIN rows' = DOMAIN rows /\ rows'[Current] = s
            /\ \A a \in DOMAIN rows : a # Current => rows'[a] = rows[a]
      BY <1>11, <2>2, FinishFacts
    <3>2. (unknown => unknown') /\ (s = "unknown" => unknown')
          /\ (rejected => rejected') /\ (s = "rejected" => rejected')
      BY <3>1, NoteFacts DEF Typed, Kinds
    <3>. QED
      BY <2>1, <3>1, <3>2 DEF Doubtless, Acting
  <2>3. CASE Current \notin DOMAIN rows
    <3>1. rows' = rows /\ \E s : Note(s)
      BY <1>11, <2>3 DEF FinishAction, Typed
    <3>. QED
      BY <2>1, <2>3, <3>1, NoteFacts DEF Doubtless, Acting
  <2>. QED
    BY <2>2, <2>3
<1>12. CASE SendsDone
  <2>1. pc = "acting" /\ UNCHANGED <<pc, turn, index, rows, unknown, rejected>>
    BY <1>12 DEF SendsDone
  <2>. QED
    BY <2>1 DEF Doubtless, Acting
<1>13. CASE RoundDone
  <2>1. Onward /\ UNCHANGED rows /\ (pc' = "top" => ~unknown) /\ pc \in {"acting", "malformed"}
    BY <1>13, DoneFacts
  <2>2. CASE pc' = "idle"
    BY <2>2 DEF Doubtless
  <2>3. CASE pc' # "idle"
    <3>1. pc' = "top" /\ index' = index + 1 /\ turn' = turn
      BY <2>1, <2>3, EndFacts DEF Onward
    <3>2. index \in Nat /\ \A a \in DOMAIN rows : a[2] \in Nat
      BY DEF Typed
    <3>3. \A a \in DOMAIN rows : <<a[1], a[2]>> \in DOMAIN rounds
      BY DEF Placed
    <3>4. \A a \in DOMAIN rows : a[1] = turn => a[2] < index \/ a[2] = index
      BY <2>1, <3>3 DEF Placed
    <3>5. \A a \in DOMAIN rows : a[1] = turn => a[2] # index'
      BY <3>1, <3>2, <3>4
    <3>. QED
      BY <2>1, <3>1, <3>5 DEF Doubtless, Acting
  <2>. QED
    BY <2>2, <2>3
<1>14. CASE Malformed
  <2>1. Onward /\ UNCHANGED rows /\ (pc' = "top" => pc = "malformed") /\ pc \in {"acting", "malformed"}
    BY <1>14, MalformedFacts
  <2>2. CASE pc' = "idle"
    BY <2>2 DEF Doubtless
  <2>3. CASE pc' # "idle"
    <3>1. pc' = "top" /\ index' = index + 1 /\ turn' = turn
      BY <2>1, <2>3, EndFacts DEF Onward
    <3>2. index \in Nat /\ \A a \in DOMAIN rows : a[2] \in Nat
      BY DEF Typed
    <3>3. \A a \in DOMAIN rows : <<a[1], a[2]>> \in DOMAIN rounds
      BY DEF Placed
    <3>4. \A a \in DOMAIN rows : a[1] = turn => a[2] < index \/ a[2] = index
      BY <2>1, <3>3 DEF Placed
    <3>5. \A a \in DOMAIN rows : a[1] = turn => a[2] # index'
      BY <3>1, <3>2, <3>4
    <3>. QED
      BY <2>1, <3>1, <3>5 DEF Doubtless, Acting
  <2>. QED
    BY <2>2, <2>3
<1>15. CASE Crash
  BY <1>15 DEF Crash, Doubtless
<1>16. CASE Recover
  BY <1>16 DEF Recover, Placed, Doubtless
<1>17. CASE Inbound \/ Cancel
  BY <1>1, <1>17 DEF Inbound, Cancel
<1>18. CASE UNCHANGED vars
  BY <1>1, <1>18 DEF vars
<1>. QED
  BY <1>2, <1>3, <1>4, <1>5, <1>6, <1>7, <1>8, <1>9, <1>10, <1>11, <1>12, <1>13, <1>14,
       <1>15, <1>16, <1>17, <1>18 DEF Next, TurnStep

(* The log. *)
LEMMA LoggedStep == Typed /\ Placed /\ Logged /\ [Next]_vars => Logged'
<1>. SUFFICES ASSUME Typed, Placed, Logged, [Next]_vars PROVE Logged'
  OBVIOUS
<1>. USE TurnAssumption
<1>1. CASE UNCHANGED <<log, history, turn>>
  BY <1>1 DEF Logged, Seqs
<1>2. CASE RouteSilent \/ EndLoop \/ AskFails \/ LedgerFails
  <2>1. PICK s : End(s) /\ s # "completed" /\ (s = "error" \/ ~Open) /\ pc # "idle" /\ UNCHANGED ledger
    BY <1>2, Endings
  <2>2. pc' = "idle" /\ last' = s /\ round' = Idle /\ kind' = "send" /\ pos' = 1
        /\ unknown' = FALSE /\ rejected' = FALSE /\ history' = NoHistory /\ corrections' = 0
        /\ UNCHANGED <<up, cancelled, turn, index>>
    BY <2>1, EndFacts
  <2>. QED
    BY <2>1, <2>2 DEF Logged, NoHistory, Seqs
<1>3. CASE LoadHistory
  <2>1. history' = History /\ turn' = turn + 1 /\ UNCHANGED log
    BY <1>3 DEF LoadHistory, ledger
  <2>2. PICK m : history' = [messages |-> m, ids |-> Seqs \ projected]
    BY <2>1, HistoryIds
  <2>. QED
    BY <2>1, <2>2 DEF Logged, Seqs, Typed
<1>4. CASE Refresh
  <2>1. (history' = History \/ UNCHANGED history) /\ UNCHANGED <<log, turn>>
    BY <1>4 DEF Refresh
  <2>2. CASE history' = History
    <3>1. PICK m : history' = [messages |-> m, ids |-> Seqs \ projected]
      BY <2>2, HistoryIds
    <3>. QED
      BY <2>1, <3>1 DEF Logged, Seqs
  <2>3. CASE UNCHANGED history
    BY <2>1, <2>3 DEF Logged, Seqs
  <2>. QED
    BY <2>1, <2>2, <2>3
<1>5. ASSUME NEW shape \in Shape, RecordRound(shape) PROVE Logged'
  <2>. DEFINE e == [kind |-> "round", ref |-> Rid, say |-> "proposed"]
  <2>1. log' = Append(log, e) /\ history' = [history EXCEPT !.ids = @ \cup {Len(log) + 1}]
       /\ UNCHANGED turn
    BY <1>5 DEF RecordRound
  <2>2. e \in Event /\ e.ref[1] \in Nat /\ e.ref[1] <= turn
    BY DEF Event, Ref, Rid, Typed
  <2>. HIDE DEF e
  <2>3. /\ log' \in Seq(Event) /\ Len(log) \in Nat /\ Len(log') = Len(log) + 1
        /\ \A n \in Seqs : log'[n] = log[n]
        /\ log'[Len(log) + 1] = e
    BY <2>1, <2>2, AppendFacts
  <2>4. history' = [messages |-> history'.messages, ids |-> history'.ids]
    BY <2>1 DEF Logged
  <2>5. \A n \in Seqs' : n \in Seqs \/ n = Len(log) + 1
    BY <2>3 DEF Seqs
  <2>. QED
    BY <2>1, <2>2, <2>3, <2>4, <2>5 DEF Logged
<1>6. CASE SkipAction
  <2>1. UNCHANGED <<log, turn>> /\ \E s : NoteInHistory(s, {})
    BY <1>6 DEF SkipAction
  <2>. QED
    BY <2>1 DEF NoteInHistory, Logged, Seqs
<1>7. CASE RefuseAction
  <2>1. UNCHANGED <<log, turn>> /\ \E s : NoteInHistory(s, {})
    BY <1>7 DEF RefuseAction
  <2>. QED
    BY <2>1 DEF NoteInHistory, Logged, Seqs
<1>8. CASE FinishAction
  <2>1. PICK s \in Status : NoteInHistory(s, {Len(log) + 1})
            /\ log' = Append(log, [kind |-> "result", ref |-> Current, say |-> s]) /\ UNCHANGED turn
    BY <1>8 DEF FinishAction, Status
  <2>. DEFINE e == [kind |-> "result", ref |-> Current, say |-> s]
  <2>2. e \in Event /\ e.ref[1] \in Nat /\ e.ref[1] <= turn
    BY DEF Event, Ref, Current, Act, ActionOf, Rid, Typed
  <2>3. log' = Append(log, e)
    BY <2>1
  <2>. HIDE DEF e
  <2>4. /\ log' \in Seq(Event) /\ Len(log) \in Nat /\ Len(log') = Len(log) + 1
        /\ \A n \in Seqs : log'[n] = log[n]
        /\ log'[Len(log) + 1] = e
    BY <2>2, <2>3, AppendFacts
  <2>5. \A n \in Seqs' : n \in Seqs \/ n = Len(log) + 1
    BY <2>4 DEF Seqs
  <2>6. history' = [messages |-> history'.messages, ids |-> history'.ids]
    BY <2>1 DEF NoteInHistory
  <2>. QED
    BY <2>1, <2>2, <2>4, <2>5, <2>6 DEF Logged
<1>9. CASE SendsDone
  <2>1. \E m : history' = [history EXCEPT !.messages = m]
    BY <1>9 DEF SendsDone
  <2>2. UNCHANGED <<log, turn>>
    BY <1>9 DEF SendsDone
  <2>. QED
    BY <2>1, <2>2 DEF Logged, Seqs
<1>10. CASE RoundDone
  <2>1. Onward /\ UNCHANGED log
    BY <1>10, DoneFacts
  <2>2. turn' = turn /\ (history' = NoHistory \/ history' = [history EXCEPT !.messages = stored'])
    BY <2>1, EndFacts DEF Onward
  <2>. QED
    BY <2>1, <2>2 DEF Logged, Seqs, NoHistory
<1>11. CASE Malformed
  <2>1. Onward /\ UNCHANGED log
    BY <1>11, MalformedFacts
  <2>2. turn' = turn /\ (history' = NoHistory \/ history' = [history EXCEPT !.messages = stored'])
    BY <2>1, EndFacts DEF Onward
  <2>. QED
    BY <2>1, <2>2 DEF Logged, Seqs, NoHistory
<1>12. CASE Inbound
  <2>. DEFINE e == [kind |-> "inbound", ref |-> <<Len(log) + 1>>, say |-> "fact"]
  <2>1. log' = Append(log, e) /\ UNCHANGED <<history, turn>>
    BY <1>12 DEF Inbound
  <2>2. e \in Event /\ e.kind = "inbound"
    BY DEF Event, Ref, Logged
  <2>. HIDE DEF e
  <2>3. /\ log' \in Seq(Event) /\ Len(log) \in Nat /\ Len(log') = Len(log) + 1
        /\ \A n \in Seqs : log'[n] = log[n]
        /\ log'[Len(log) + 1] = e
    BY <2>1, <2>2, AppendFacts
  <2>. QED
    BY <2>1, <2>2, <2>3 DEF Logged, Seqs
<1>13. CASE Crash
  BY <1>13 DEF Crash, LeaveTurn, NoHistory, Logged, Seqs
<1>14. CASE Recover
  <2>1. UNCHANGED <<history, turn>>
    BY <1>14 DEF Recover
  <2>. QED
    BY <1>14, <2>1, RecoverFacts DEF Logged, Seqs
<1>15. CASE SaveLoaded \/ RouteGenerate \/ StartAction \/ Cancel
  BY <1>1, <1>15 DEF SaveLoaded, RouteGenerate, StartAction, Cancel
<1>16. CASE UNCHANGED vars
  BY <1>1, <1>16 DEF vars
<1>. QED
  BY <1>2, <1>3, <1>4, <1>5, <1>6, <1>7, <1>8, <1>9, <1>10, <1>11, <1>12, <1>13, <1>14,
       <1>15, <1>16 DEF Next, TurnStep

(* What a turn has saved. *)
LEMMA SavedStep == Typed /\ Placed /\ Logged /\ Saved /\ [Next]_vars => Saved'
<1>. SUFFICES ASSUME Typed, Placed, Logged, Saved, [Next]_vars PROVE Saved'
  OBVIOUS
<1>. USE TurnAssumption
<1>1. CASE UNCHANGED <<pc, turn, index, rounds, log, projected, history>>
  BY <1>1 DEF Saved, Open, Acting, Rid, Seqs
<1>2. CASE RouteSilent \/ EndLoop \/ AskFails \/ LedgerFails
  <2>1. PICK s : End(s) /\ s # "completed" /\ (s = "error" \/ ~Open) /\ pc # "idle" /\ UNCHANGED ledger
    BY <1>2, Endings
  <2>2. pc' = "idle" /\ last' = s /\ round' = Idle /\ kind' = "send" /\ pos' = 1
        /\ unknown' = FALSE /\ rejected' = FALSE /\ history' = NoHistory /\ corrections' = 0
        /\ UNCHANGED <<up, cancelled, turn, index>>
    BY <2>1, EndFacts
  <2>. QED
    BY <2>1, <2>2 DEF Saved
<1>3. CASE LoadHistory
  <2>1. turn' = turn + 1 /\ UNCHANGED <<log, rounds>>
    BY <1>3 DEF LoadHistory
  <2>2. turn \in Nat /\ \A r \in DOMAIN rounds : r[1] <= turn /\ r[1] \in Nat
    BY DEF Placed, Typed
  <2>3. \A e \in Seqs : log[e].kind # "inbound" => log[e].ref[1] # turn + 1
    BY <2>2 DEF Logged
  <2>. QED
    BY <2>1, <2>2, <2>3 DEF Saved, Seqs
<1>4. CASE SaveLoaded
  BY <1>4 DEF SaveLoaded, SaveHistory, Saved, Open, Acting, Seqs
<1>5. CASE RouteGenerate
  BY <1>5 DEF RouteGenerate, Saved, Open, Acting, Rid, Seqs
<1>6. CASE Refresh
  BY <1>6 DEF Refresh, Saved, Open, Acting, Seqs
<1>7. ASSUME NEW shape \in Shape, RecordRound(shape) PROVE Saved'
  <2>. DEFINE e == [kind |-> "round", ref |-> Rid, say |-> "proposed"]
  <2>1. log' = Append(log, e) /\ history' = [history EXCEPT !.ids = @ \cup {Len(log) + 1}]
    BY <1>7 DEF RecordRound
  <2>2. e \in Event
    BY DEF Event, Ref, Rid, Typed
  <2>. HIDE DEF e
  <2>3. /\ Len(log) \in Nat /\ Len(log') = Len(log) + 1
        /\ \A n \in Seqs : log'[n] = log[n]
    BY <2>1, <2>2, AppendFacts
  <2>4. /\ pc = "asking" /\ pc' \in {"acting", "malformed"}
        /\ DOMAIN rounds' = DOMAIN rounds \cup {Rid}
        /\ \A r \in DOMAIN rounds : rounds'[r] = rounds[r]
        /\ UNCHANGED <<turn, index, projected>>
    BY <1>7, RecordFacts
  <2>5. Rid' = Rid /\ ~Open /\ Open' /\ Len(log) + 1 \in history'.ids
    BY <2>1, <2>4 DEF Rid, Open, Acting, Logged
  <2>6. \A n \in Seqs' : n \in Seqs \/ n = Len(log) + 1
    BY <2>3 DEF Seqs
  <2>. QED
    BY <2>3, <2>4, <2>5, <2>6 DEF Saved
<1>8. CASE SkipAction
  <2>1. UNCHANGED <<log, rounds, projected, pc, turn, index>> /\ \E s : NoteInHistory(s, {})
    BY <1>8 DEF SkipAction
  <2>2. history'.ids = history.ids
    BY <2>1 DEF NoteInHistory
  <2>. QED
    BY <2>1, <2>2 DEF Saved, Open, Acting, Rid, Seqs
<1>9. CASE RefuseAction
  <2>1. UNCHANGED <<log, rounds, projected, pc, turn, index>> /\ \E s : NoteInHistory(s, {})
    BY <1>9 DEF RefuseAction
  <2>2. history'.ids = history.ids
    BY <2>1 DEF NoteInHistory
  <2>. QED
    BY <2>1, <2>2 DEF Saved, Open, Acting, Rid, Seqs
<1>10. CASE StartAction
  BY <1>10 DEF StartAction, Saved, Open, Acting, Rid, Seqs
<1>11. CASE FinishAction
  <2>1. PICK s \in Status : NoteInHistory(s, {Len(log) + 1})
            /\ log' = Append(log, [kind |-> "result", ref |-> Current, say |-> s])
            /\ pc = "executing" /\ pc' = "acting" /\ UNCHANGED <<turn, index, rounds, projected>>
    BY <1>11 DEF FinishAction, Status
  <2>. DEFINE e == [kind |-> "result", ref |-> Current, say |-> s]
  <2>2. e \in Event
    BY DEF Event, Ref, Current, Act, ActionOf, Rid, Typed
  <2>3. log' = Append(log, e)
    BY <2>1
  <2>. HIDE DEF e
  <2>4. /\ Len(log) \in Nat /\ Len(log') = Len(log) + 1
        /\ \A n \in Seqs : log'[n] = log[n]
    BY <2>2, <2>3, AppendFacts
  <2>5. history'.ids = history.ids \cup {Len(log) + 1} /\ Open /\ Open' /\ Rid' = Rid
    BY <2>1 DEF NoteInHistory, Open, Acting, Rid
  <2>6. \A n \in Seqs' : n \in Seqs \/ n = Len(log) + 1
    BY <2>4 DEF Seqs
  <2>. QED
    BY <2>1, <2>4, <2>5, <2>6 DEF Saved
<1>12. CASE SendsDone
  <2>1. \E m : history' = [history EXCEPT !.messages = m]
    BY <1>12 DEF SendsDone
  <2>2. history'.ids = history.ids
    BY <2>1 DEF Logged
  <2>3. UNCHANGED <<log, rounds, projected, pc, turn, index>>
    BY <1>12 DEF SendsDone
  <2>. QED
    BY <2>2, <2>3 DEF Saved, Open, Acting, Rid, Seqs
<1>13. CASE RoundDone
  <2>1. PICK messages : SaveRound(messages)
    BY <1>13, DoneFacts
  <2>2. Onward /\ UNCHANGED log /\ Rid \in DOMAIN rounds /\ pc # "idle"
    BY <1>13, DoneFacts DEF Placed, Open, Acting
  <2>3. /\ DOMAIN rounds' = DOMAIN rounds /\ projected' = projected \cup history.ids
        /\ rounds'[Rid].finished /\ \A r \in DOMAIN rounds : r # Rid => rounds'[r] = rounds[r]
    BY <2>1, <2>2, SaveFacts
  <2>4. turn' = turn
    BY <2>2, EndFacts DEF Onward
  <2>. QED
    BY <2>2, <2>3, <2>4 DEF Saved, Seqs
<1>14. CASE Malformed
  <2>1. PICK messages : SaveRound(messages)
    BY <1>14, MalformedFacts
  <2>2. Onward /\ UNCHANGED log /\ Rid \in DOMAIN rounds /\ pc # "idle"
    BY <1>14, MalformedFacts DEF Placed, Open, Acting
  <2>3. /\ DOMAIN rounds' = DOMAIN rounds /\ projected' = projected \cup history.ids
        /\ rounds'[Rid].finished /\ \A r \in DOMAIN rounds : r # Rid => rounds'[r] = rounds[r]
    BY <2>1, <2>2, SaveFacts
  <2>4. turn' = turn
    BY <2>2, EndFacts DEF Onward
  <2>. QED
    BY <2>2, <2>3, <2>4 DEF Saved, Seqs
<1>15. CASE Inbound
  <2>. DEFINE e == [kind |-> "inbound", ref |-> <<Len(log) + 1>>, say |-> "fact"]
  <2>1. log' = Append(log, e) /\ UNCHANGED <<rounds, projected, pc, loop>>
    BY <1>15 DEF Inbound
  <2>2. e \in Event /\ e.kind = "inbound"
    BY DEF Event, Ref, Logged
  <2>. HIDE DEF e
  <2>3. /\ Len(log) \in Nat /\ Len(log') = Len(log) + 1
        /\ \A n \in Seqs : log'[n] = log[n]
        /\ log'[Len(log) + 1] = e
    BY <2>1, <2>2, AppendFacts
  <2>4. \A n \in Seqs' : n \in Seqs \/ n = Len(log) + 1
    BY <2>3 DEF Seqs
  <2>. QED
    BY <2>1, <2>2, <2>3, <2>4 DEF Saved, Open, Acting, Rid
<1>16. CASE Crash
  BY <1>16 DEF Crash, Saved
<1>17. CASE Recover
  BY <1>17 DEF Recover, Placed, Saved
<1>18. CASE Cancel
  BY <1>1, <1>18 DEF Cancel
<1>19. CASE UNCHANGED vars
  BY <1>1, <1>19 DEF vars
<1>. QED
  BY <1>2, <1>3, <1>4, <1>5, <1>6, <1>7, <1>8, <1>9, <1>10, <1>11, <1>12, <1>13, <1>14,
       <1>15, <1>16, <1>17, <1>18, <1>19 DEF Next, TurnStep

-----------------------------------------------------------------------------
(* What transcripts say.                                                   *)

Action == Nat \X Nat \X Kinds \X Nat
Said == Status \cup {"cancelled"}
Msg == [kind : {"user", "assistant", "tool", "recovered", "sends", "said", "error"},
        ref : Ref, say : Seq(Said)]

(* An action the open round has still to come to, and one that will never  *)
(* start if it has not by now.                                             *)
Ahead(a) ==
  /\ Acting /\ a[1] = turn /\ a[2] = index
  /\ \/ kind = "send" /\ a[3] = "tool"
     \/ a[3] = kind /\ a[4] >= pos
Bygone(a) == a \in Action /\ <<a[1], a[2]>> \in DOMAIN rounds /\ ~Ahead(a)

(* A message that nothing to come contradicts. *)
Told(a, s) == Bygone(a) /\ Agrees(a, s)
Fit(m) ==
  /\ m.kind = "assistant" => m.ref \in DOMAIN rounds
  /\ m.kind \in {"tool", "recovered"} => Told(m.ref, m.say[1])
  /\ m.kind = "sends" => /\ m.ref \in Nat \X Nat
                         /\ \A n \in DOMAIN m.say : Told(ActionOf(m.ref, "send", n), m.say[n])
Truthful(messages) == \A i \in DOMAIN messages : Fit(messages[i])

(* Each inbound fact that is covered has one message, and no other has one; *)
(* each result that is covered is told.                                    *)
UserOf(m, e) == m.kind = "user" /\ m.ref = <<e>>
Facts(messages, covered) ==
  /\ \A i \in DOMAIN messages : messages[i].kind = "user" =>
       \E e \in covered : messages[i].ref = <<e>>
  /\ \A i, j \in DOMAIN messages :
       messages[i].kind = "user" /\ messages[j].kind = "user" /\ messages[i].ref = messages[j].ref
         => i = j
  /\ \A e \in covered : log[e].kind = "inbound" =>
       \E i \in DOMAIN messages : UserOf(messages[i], e)
Results(messages, covered) ==
  \A e \in covered : log[e].kind = "result" => \E i \in DOMAIN messages : Tells(messages[i], e)

(* A transcript that tells of the events it covers and keeps the pairs.    *)
Sound(messages, covered) ==
  /\ messages \in Seq(Msg) /\ covered \subseteq Seqs
  /\ Paired(messages) /\ Truthful(messages)
  /\ Facts(messages, covered) /\ Results(messages, covered)

(* The results of the open round, and what its transcripts tell apart from *)
(* them.                                                                   *)
Own == {e \in Seqs : log[e].kind = "result" /\ log[e].ref[1] = turn /\ log[e].ref[2] = index}
Covered == projected \cup history.ids
Before == Covered \ Own

(* The outcome of an action that is over. *)
Exact(a, s) ==
  IF a \in DOMAIN rows THEN s = rows[a] /\ s # "started" ELSE s \in {"cancelled", "rejected"}

(* The first calls of the open round are answered. *)
Answered(told) ==
  /\ told \in Seq(Msg)
  /\ \A n \in DOMAIN told : \E s \in Said :
       told[n] = Message("tool", Act("tool", n), <<s>>) /\ Exact(Act("tool", n), s)
Begins == Message("assistant", Rid, <<>>)
Native(told) == <<Begins>> \o told
InRound(messages, k) ==
  \E base, told : /\ Sound(base, Before) /\ Answered(told) /\ Len(told) = k
                  /\ messages = base \o Native(told)

(* Results are recorded with the status of their row, which is final.      *)
Recorded ==
  /\ \A e \in Seqs : log[e].kind = "result" =>
       log[e].ref \in DOMAIN rows /\ rows[log[e].ref] = log[e].say /\ log[e].say # "started"
  /\ \A e \in Seqs : log[e].kind = "round" => log[e].ref \in DOMAIN rounds
  /\ \A a \in DOMAIN rows : a[4] >= 1

(* How far the open round is: its messages and calls that are over, what   *)
(* became of its messages, and the action that is under way.               *)
Shaped ==
  /\ ~Open => kind = "send" /\ pos = 1 /\ feedback = <<>>
  /\ feedback \in Seq(Said) /\ pos >= 1
  /\ Open =>
       /\ round.calls = rounds[Rid].calls
       /\ pos <= Count + 1
       /\ kind = "send" => Len(feedback) = pos - 1
       /\ \A n \in DOMAIN feedback : Exact(Act("send", n), feedback[n])
       /\ pc = "malformed" => kind = "send" /\ pos = 1
       /\ \A a \in DOMAIN rows : a[1] = turn /\ a[2] = index =>
            \/ pc = "executing" /\ a = Current
            \/ a[3] = "send" /\ a[4] \in DOMAIN feedback
            \/ a[3] = "tool" /\ kind = "tool" /\ a[4] < pos
       /\ pc = "executing" => Current \in DOMAIN rows /\ rows[Current] = "started" /\ pos <= Count

Transcripts ==
  /\ Sound(stored, projected)
  /\ history.ids \subseteq Seqs
  /\ pc = "loaded" => Sound(history.messages, Covered)
  /\ pc \in {"routing", "top"} =>
       Sound(live, projected) /\ history.messages = stored /\ history.ids \subseteq projected
  /\ pc = "asking" => Sound(live, Covered) /\ Sound(history.messages, Covered)
  /\ Open => InRound(live, IF kind = "tool" THEN pos - 1 ELSE 0)
  /\ Open /\ kind = "tool" /\ round.calls > 0 => InRound(history.messages, pos - 1)
  /\ Open /\ ~(kind = "tool" /\ round.calls > 0) => Sound(history.messages, Before)

-----------------------------------------------------------------------------
(* Transcripts put together.                                               *)

LEMMA JoinFacts ==
  ASSUME NEW a \in Seq(Msg), NEW b \in Seq(Msg)
  PROVE  /\ a \o b \in Seq(Msg) /\ Len(a) \in Nat /\ Len(b) \in Nat
         /\ Len(a \o b) = Len(a) + Len(b)
         /\ DOMAIN a = 1..Len(a) /\ DOMAIN b = 1..Len(b) /\ DOMAIN (a \o b) = 1..Len(a \o b)
         /\ \A i \in DOMAIN a : i \in DOMAIN (a \o b) /\ (a \o b)[i] = a[i]
         /\ \A j \in DOMAIN b : Len(a) + j \in DOMAIN (a \o b) /\ (a \o b)[Len(a) + j] = b[j]
         /\ \A i \in DOMAIN (a \o b) :
              i \in DOMAIN a \/ (i - Len(a) \in DOMAIN b /\ i = Len(a) + (i - Len(a)))
OBVIOUS

LEMMA PairsJoin ==
  ASSUME NEW a \in Seq(Msg), NEW b \in Seq(Msg), Paired(a), Paired(b), Typed,
         Truthful(a), Truthful(b)
  PROVE  Paired(a \o b)
<1>. DEFINE c == a \o b
<1>1. \A m : Fit(m) => CallsOf(m) \in Nat
  BY DEF Fit, CallsOf, Typed, RoundRow
<1>2. /\ Len(a) \in Nat /\ Len(b) \in Nat /\ Len(c) = Len(a) + Len(b)
      /\ DOMAIN a = 1..Len(a) /\ DOMAIN b = 1..Len(b) /\ DOMAIN c = 1..Len(c)
      /\ \A i \in DOMAIN a : c[i] = a[i]
      /\ \A j \in DOMAIN b : c[Len(a) + j] = b[j]
      /\ \A i \in DOMAIN c : i \in DOMAIN a \/ (i - Len(a) \in DOMAIN b /\ i = Len(a) + (i - Len(a)))
  BY JoinFacts
<1>. HIDE DEF c
<1>3. ASSUME NEW i \in DOMAIN c, NEW n \in 1..CallsOf(c[i])
      PROVE  /\ i + n <= Len(c) /\ c[i + n].kind = "tool"
             /\ c[i + n].ref = ActionOf(c[i].ref, "tool", n)
  <2>1. CASE i \in DOMAIN a
    <3>1. c[i] = a[i] /\ CallsOf(a[i]) \in Nat
      BY <1>1, <1>2, <2>1 DEF Truthful
    <3>2. i + n <= Len(a) /\ a[i + n].kind = "tool" /\ a[i + n].ref = ActionOf(a[i].ref, "tool", n)
      BY <1>3, <2>1, <3>1 DEF Paired
    <3>3. i + n \in DOMAIN a
      BY <1>2, <1>3, <2>1, <3>1, <3>2
    <3>4. c[i + n] = a[i + n]
      BY <1>2, <3>3
    <3>. QED
      BY <1>2, <3>1, <3>2, <3>3, <3>4
  <2>2. CASE i \notin DOMAIN a
    <3>. DEFINE j == i - Len(a)
    <3>1. j \in DOMAIN b /\ i = Len(a) + j
      BY <1>2, <2>2
    <3>. HIDE DEF j
    <3>2. c[i] = b[j] /\ CallsOf(b[j]) \in Nat
      BY <1>1, <1>2, <3>1 DEF Truthful
    <3>3. j + n <= Len(b) /\ b[j + n].kind = "tool" /\ b[j + n].ref = ActionOf(b[j].ref, "tool", n)
      BY <1>3, <3>1, <3>2 DEF Paired
    <3>4. j + n \in DOMAIN b /\ i + n = Len(a) + (j + n)
      BY <1>2, <1>3, <3>1, <3>2, <3>3
    <3>5. c[i + n] = b[j + n]
      BY <1>2, <3>4
    <3>. QED
      BY <1>2, <3>2, <3>3, <3>4, <3>5
  <2>. QED
    BY <2>1, <2>2
<1>4. ASSUME NEW j \in DOMAIN c, c[j].kind = "tool"
      PROVE  \E i \in 1..(j - 1) : j - i <= CallsOf(c[i])
  <2>1. CASE j \in DOMAIN a
    <3>1. c[j] = a[j]
      BY <1>2, <2>1
    <3>2. PICK i \in 1..(j - 1) : j - i <= CallsOf(a[i])
      BY <1>4, <2>1, <3>1 DEF Paired
    <3>3. i \in DOMAIN a
      BY <1>2, <2>1
    <3>4. c[i] = a[i]
      BY <1>2, <3>3
    <3>. QED
      BY <3>2, <3>4
  <2>2. CASE j \notin DOMAIN a
    <3>. DEFINE k == j - Len(a)
    <3>1. k \in DOMAIN b /\ j = Len(a) + k
      BY <1>2, <2>2
    <3>. HIDE DEF k
    <3>2. c[j] = b[k]
      BY <1>2, <3>1
    <3>3. PICK i \in 1..(k - 1) : k - i <= CallsOf(b[i])
      BY <1>4, <3>1, <3>2 DEF Paired
    <3>4. i \in DOMAIN b /\ Len(a) + i \in 1..(j - 1) /\ j - (Len(a) + i) = k - i
      BY <1>2, <3>1
    <3>5. c[Len(a) + i] = b[i]
      BY <1>2, <3>4
    <3>6. j - (Len(a) + i) <= CallsOf(c[Len(a) + i])
      BY <3>3, <3>4, <3>5
    <3>. QED
      BY <3>4, <3>6
  <2>. QED
    BY <2>1, <2>2
<1>. QED
  BY <1>3, <1>4 DEF Paired, c

LEMMA Joined ==
  ASSUME NEW a, NEW b, NEW C, NEW D, Typed, Sound(a, C), Sound(b, D), C \cap D = {}
  PROVE  Sound(a \o b, C \cup D)
<1>. DEFINE c == a \o b
<1>. a \in Seq(Msg) /\ b \in Seq(Msg)
  BY DEF Sound
<1>1. /\ c \in Seq(Msg)
      /\ DOMAIN a = 1..Len(a) /\ Len(a) \in Nat
      /\ \A i \in DOMAIN a : i \in DOMAIN c /\ c[i] = a[i]
      /\ \A j \in DOMAIN b : Len(a) + j \in DOMAIN c /\ c[Len(a) + j] = b[j]
      /\ \A i \in DOMAIN c : i \in DOMAIN a \/ (i - Len(a) \in DOMAIN b /\ i = Len(a) + (i - Len(a)))
  BY JoinFacts
<1>2. Paired(c)
  BY PairsJoin DEF Sound
<1>. HIDE DEF c
<1>3. \A i \in DOMAIN c : \/ i \in DOMAIN a /\ c[i] = a[i]
                          \/ i - Len(a) \in DOMAIN b /\ i \in Int /\ c[i] = b[i - Len(a)]
  <2>. TAKE i \in DOMAIN c
  <2>1. CASE i \in DOMAIN a
    BY <1>1, <2>1
  <2>2. CASE i \notin DOMAIN a
    <3>0. DOMAIN c = 1..Len(c) /\ Len(c) \in Nat
      BY <1>1
    <3>1. i - Len(a) \in DOMAIN b /\ i = Len(a) + (i - Len(a)) /\ i \in Int
      BY <1>1, <2>2, <3>0
    <3>2. c[Len(a) + (i - Len(a))] = b[i - Len(a)]
      BY <1>1, <3>1
    <3>. QED
      BY <3>1, <3>2
  <2>. QED
    BY <2>1, <2>2
<1>4. Truthful(c)
  BY <1>3 DEF Sound, Truthful
<1>5. \A i \in DOMAIN c : c[i].kind = "user" => \E e \in C \cup D : c[i].ref = <<e>>
  BY <1>3 DEF Sound, Facts
<1>6. ASSUME NEW i \in DOMAIN c, NEW j \in DOMAIN c, c[i].kind = "user", c[j].kind = "user",
             c[i].ref = c[j].ref
      PROVE  i = j
  <2>. \A e, f : <<e>> = <<f>> => e = f
    OBVIOUS
  <2>1. CASE i \in DOMAIN a /\ c[i] = a[i]
    <3>1. PICK e \in C : c[i].ref = <<e>>
      BY <1>6, <2>1 DEF Sound, Facts
    <3>2. ~(j - Len(a) \in DOMAIN b /\ c[j] = b[j - Len(a)])
      <4>. SUFFICES ASSUME j - Len(a) \in DOMAIN b, c[j] = b[j - Len(a)] PROVE FALSE
        OBVIOUS
      <4>1. PICK f \in D : c[j].ref = <<f>>
        BY <1>6 DEF Sound, Facts
      <4>. QED
        BY <1>6, <3>1, <4>1
    <3>3. j \in DOMAIN a /\ c[j] = a[j]
      BY <1>3, <3>2
    <3>. QED
      BY <1>6, <2>1, <3>3 DEF Sound, Facts
  <2>2. CASE i - Len(a) \in DOMAIN b /\ i \in Int /\ c[i] = b[i - Len(a)]
    <3>1. PICK e \in D : c[i].ref = <<e>>
      BY <1>6, <2>2 DEF Sound, Facts
    <3>2. ~(j \in DOMAIN a /\ c[j] = a[j])
      <4>. SUFFICES ASSUME j \in DOMAIN a, c[j] = a[j] PROVE FALSE
        OBVIOUS
      <4>1. PICK f \in C : c[j].ref = <<f>>
        BY <1>6 DEF Sound, Facts
      <4>. QED
        BY <1>6, <3>1, <4>1
    <3>3. j - Len(a) \in DOMAIN b /\ j \in Int /\ c[j] = b[j - Len(a)]
      BY <1>3, <3>2
    <3>4. i - Len(a) = j - Len(a)
      BY <1>6, <2>2, <3>3 DEF Sound, Facts
    <3>. QED
      BY <1>1, <2>2, <3>3, <3>4
  <2>. QED
    BY <1>3, <2>1, <2>2
<1>7. ASSUME NEW e \in C \cup D, log[e].kind = "inbound"
      PROVE  \E i \in DOMAIN c : UserOf(c[i], e)
  <2>1. CASE e \in C
    <3>1. PICK i \in DOMAIN a : UserOf(a[i], e)
      BY <1>7, <2>1 DEF Sound, Facts
    <3>. QED
      BY <1>1, <3>1
  <2>2. CASE e \in D
    <3>1. PICK i \in DOMAIN b : UserOf(b[i], e)
      BY <1>7, <2>2 DEF Sound, Facts
    <3>. QED
      BY <1>1, <3>1
  <2>. QED
    BY <2>1, <2>2
<1>8. ASSUME NEW e \in C \cup D, log[e].kind = "result"
      PROVE  \E i \in DOMAIN c : Tells(c[i], e)
  <2>1. CASE e \in C
    <3>1. PICK i \in DOMAIN a : Tells(a[i], e)
      BY <1>8, <2>1 DEF Sound, Results
    <3>. QED
      BY <1>1, <3>1
  <2>2. CASE e \in D
    <3>1. PICK i \in DOMAIN b : Tells(b[i], e)
      BY <1>8, <2>2 DEF Sound, Results
    <3>. QED
      BY <1>1, <3>1
  <2>. QED
    BY <2>1, <2>2
<1>9. Facts(c, C \cup D)
  BY <1>5, <1>6, <1>7 DEF Facts
<1>10. Results(c, C \cup D)
  BY <1>8 DEF Results
<1>11. C \cup D \subseteq Seqs
  BY DEF Sound
<1>. QED
  BY <1>1, <1>2, <1>4, <1>9, <1>10, <1>11 DEF Sound, c

(* A transcript without messages. *)
LEMMA Wordless ==
  ASSUME NEW C, C \subseteq Seqs, \A e \in C : log[e].kind \notin {"inbound", "result"}
  PROVE  Sound(<<>>, C)
<1>1. <<>> \in Seq(Msg) /\ DOMAIN <<>> = {}
  OBVIOUS
<1>. QED
  BY <1>1 DEF Sound, Paired, Truthful, Facts, Results

(* The call of one round with all its results. *)
LEMMA NativePairs ==
  ASSUME Typed, NEW r \in DOMAIN rounds, NEW told \in Seq(Msg), Len(told) = rounds[r].calls,
         \A n \in DOMAIN told : /\ told[n].kind = "tool" /\ told[n].ref = ActionOf(r, "tool", n)
                                /\ Told(told[n].ref, told[n].say[1])
  PROVE  LET m == <<Message("assistant", r, <<>>)>> \o told
         IN /\ m \in Seq(Msg) /\ Paired(m) /\ Truthful(m)
            /\ \A i \in DOMAIN m : m[i].kind # "user"
            /\ \A n \in DOMAIN told : n + 1 \in DOMAIN m /\ m[n + 1] = told[n]
<1>. DEFINE first == Message("assistant", r, <<>>)
            m == <<first>> \o told
<1>1. r \in Ref /\ first \in Msg /\ first.kind = "assistant" /\ first.ref = r
  <2>1. r \in Nat \X Nat /\ <<>> \in Seq(Said)
    BY DEF Typed
  <2>. QED
    BY <2>1 DEF Ref, Msg, Message
<1>2. rounds[r].calls \in Nat /\ CallsOf(first) = rounds[r].calls
  BY <1>1 DEF CallsOf, Typed, RoundRow
<1>. HIDE DEF first
<1>3. /\ m \in Seq(Msg) /\ Len(m) = Len(told) + 1 /\ Len(told) \in Nat /\ m[1] = first
      /\ DOMAIN m = 1..Len(m) /\ DOMAIN told = 1..Len(told)
      /\ \A n \in DOMAIN told : n + 1 \in DOMAIN m /\ m[n + 1] = told[n]
  BY <1>1
<1>. HIDE DEF m
<1>4. \A i \in DOMAIN m : i = 1 \/ (i - 1 \in DOMAIN told /\ m[i] = told[i - 1])
  <2>. TAKE i \in DOMAIN m
  <2>1. CASE i = 1
    BY <2>1
  <2>2. CASE i # 1
    <3>1. i - 1 \in DOMAIN told /\ (i - 1) + 1 = i
      BY <1>3, <2>2
    <3>. QED
      BY <1>3, <3>1
  <2>. QED
    BY <2>1, <2>2
<1>5. ASSUME NEW i \in DOMAIN m, NEW n \in 1..CallsOf(m[i])
      PROVE  /\ i + n <= Len(m) /\ m[i + n].kind = "tool"
             /\ m[i + n].ref = ActionOf(m[i].ref, "tool", n)
  <2>1. i = 1
    <3>1. CASE i # 1
      <4>1. m[i].kind = "tool"
        BY <1>4, <3>1
      <4>. QED
        BY <1>5, <4>1 DEF CallsOf
    <3>. QED
      BY <3>1
  <2>2. m[i] = first /\ n \in DOMAIN told
    BY <1>2, <1>3, <1>5, <2>1
  <2>3. m[n + 1] = told[n] /\ i + n = n + 1
    BY <1>3, <2>1, <2>2
  <2>. QED
    BY <1>1, <1>3, <2>2, <2>3
<1>6. ASSUME NEW j \in DOMAIN m, m[j].kind = "tool"
      PROVE  \E i \in 1..(j - 1) : j - i <= CallsOf(m[i])
  <2>1. j # 1
    BY <1>1, <1>3, <1>6
  <2>2. 1 \in 1..(j - 1) /\ j - 1 <= CallsOf(m[1])
    BY <1>2, <1>3, <2>1
  <2>. QED
    BY <2>2
<1>7. Paired(m)
  BY <1>5, <1>6 DEF Paired
<1>8. Fit(first)
  BY <1>1 DEF Fit
<1>9. \A n \in DOMAIN told : Fit(told[n])
  BY DEF Fit
<1>10. Truthful(m)
  BY <1>3, <1>4, <1>8, <1>9 DEF Truthful
<1>11. \A i \in DOMAIN m : m[i].kind # "user"
  BY <1>1, <1>3, <1>4
<1>. QED
  BY <1>3, <1>7, <1>10, <1>11 DEF m, first

(* A message by itself that is neither a fact nor of a pair. *)
LEMMA Single ==
  ASSUME Typed, NEW m \in Msg, m.kind \notin {"user", "assistant", "tool"}, Fit(m),
         NEW C, C \subseteq Seqs, \A e \in C : log[e].kind # "inbound",
         \A e \in C : log[e].kind = "result" => Tells(m, e)
  PROVE  Sound(<<m>>, C)
<1>1. <<m>> \in Seq(Msg) /\ DOMAIN <<m>> = {1} /\ <<m>>[1] = m
  OBVIOUS
<1>2. Paired(<<m>>)
  BY <1>1 DEF Paired, CallsOf
<1>. QED
  BY <1>1, <1>2 DEF Sound, Truthful, Facts, Results

(* What a row says agrees with it. *)
LEMMA RowAgrees ==
  ASSUME Typed, NEW a \in DOMAIN rows
  PROVE  Agrees(a, rows[a])
BY DEF Typed, Status, Agrees

(* What the projection makes of one event. *)
LEMMA ProjectionSound ==
  ASSUME Typed, Placed, Logged, Recorded, ~Acting, NEW e \in Seqs
  PROVE  Sound(Projection(e), {e})
<1>0. log[e] \in Event /\ e \in Nat
  BY DEF Logged, Seqs
<1>1. CASE log[e].kind = "inbound"
  <2>. DEFINE m == Message("user", <<e>>, <<>>)
  <2>1. Projection(e) = <<m>>
    BY <1>1 DEF Projection
  <2>2. m \in Msg /\ m.kind = "user" /\ m.ref = <<e>>
    BY <1>0 DEF Message, Msg, Ref
  <2>. HIDE DEF m
  <2>3. <<m>> \in Seq(Msg) /\ DOMAIN <<m>> = {1} /\ <<m>>[1] = m
    BY <2>2
  <2>4. Paired(<<m>>)
    BY <2>2, <2>3 DEF Paired, CallsOf
  <2>5. Truthful(<<m>>)
    BY <2>2, <2>3 DEF Truthful, Fit
  <2>6. Facts(<<m>>, {e}) /\ Results(<<m>>, {e})
    BY <1>1, <2>2, <2>3 DEF Facts, Results, UserOf
  <2>. QED
    BY <2>1, <2>3, <2>4, <2>5, <2>6 DEF Sound
<1>2. CASE log[e].kind = "result"
  <2>. DEFINE a == log[e].ref
              m == Message("recovered", a, <<log[e].say>>)
  <2>1. Projection(e) = <<m>>
    BY <1>2 DEF Projection
  <2>2. a \in DOMAIN rows /\ rows[a] = log[e].say
    BY <1>2 DEF Recorded
  <2>3. a \in Action /\ <<a[1], a[2]>> \in DOMAIN rounds /\ rows[a] \in Status
    BY <2>2 DEF Placed, Typed, Action
  <2>4. a \in Ref /\ <<log[e].say>> \in Seq(Said)
    BY <2>2, <2>3 DEF Ref, Action, Said
  <2>5. m \in Msg /\ m.kind = "recovered" /\ m.ref = a /\ m.say = <<log[e].say>> /\ m.say[1] = rows[a]
    BY <2>2, <2>4 DEF Msg, Message
  <2>6. Told(a, rows[a])
    BY <2>2, <2>3, RowAgrees DEF Told, Bygone, Ahead
  <2>. HIDE DEF m
  <2>7. Fit(m) /\ Tells(m, e)
    BY <2>5, <2>6 DEF Fit, Tells
  <2>8. {e} \subseteq Seqs /\ \A f \in {e} : log[f].kind # "inbound" /\ Tells(m, f)
    BY <1>2, <2>7
  <2>. QED
    BY <2>1, <2>5, <2>7, <2>8, Single
<1>3. CASE log[e].kind = "round"
  <2>. DEFINE r == log[e].ref
  <2>0. \A f \in {e} : log[f].kind \notin {"inbound", "result"} /\ f \in Seqs
    BY <1>3
  <2>1. Projection(e) = Reconstructed(r) /\ r \in DOMAIN rounds
    BY <1>3 DEF Projection, Recorded
  <2>. HIDE DEF r
  <2>2. CASE rounds[r].finished \/ rounds[r].calls = 0
    BY <2>0, <2>1, <2>2, Wordless DEF Reconstructed
  <2>3. CASE ~(rounds[r].finished \/ rounds[r].calls = 0)
    <3>. DEFINE told == [n \in 1..rounds[r].calls |->
                  LET a == ActionOf(r, "tool", n)
                  IN Message("tool", a, <<IF a \in DOMAIN rows THEN rows[a] ELSE "cancelled">>)]
    <3>1. Reconstructed(r) = <<Message("assistant", r, <<>>)>> \o told
      BY <2>3 DEF Reconstructed
    <3>2. rounds[r].calls \in Nat /\ r \in Nat \X Nat
      BY <2>1 DEF Typed, RoundRow
    <3>3. ASSUME NEW n \in 1..rounds[r].calls
          PROVE  /\ told[n] \in Msg /\ told[n].kind = "tool" /\ told[n].ref = ActionOf(r, "tool", n)
                 /\ Told(told[n].ref, told[n].say[1])
      <4>. DEFINE a == ActionOf(r, "tool", n)
                  s == IF a \in DOMAIN rows THEN rows[a] ELSE "cancelled"
      <4>1. told[n] = Message("tool", a, <<s>>)
        OBVIOUS
      <4>2. a \in Action /\ a \in Ref /\ a[1] = r[1] /\ a[2] = r[2] /\ <<a[1], a[2]>> = r
        BY <3>2 DEF ActionOf, Action, Ref, Kinds
      <4>3. s \in Said /\ Agrees(a, s)
        BY RowAgrees DEF Typed, Said, Agrees
      <4>4. Told(a, s)
        BY <2>1, <4>2, <4>3 DEF Told, Bygone, Ahead
      <4>. HIDE DEF a, s, told
      <4>5. <<s>> \in Seq(Said) /\ <<s>>[1] = s
        BY <4>3
      <4>6. told[n] \in Msg /\ told[n].kind = "tool" /\ told[n].ref = a /\ told[n].say[1] = s
        BY <4>1, <4>2, <4>5 DEF Msg, Message
      <4>. QED
        BY <4>4, <4>6 DEF a
    <3>. HIDE DEF told
    <3>4. told \in Seq(Msg) /\ Len(told) = rounds[r].calls /\ DOMAIN told = 1..rounds[r].calls
      <4>1. told \in [1..rounds[r].calls -> Msg]
        BY <3>3 DEF told
      <4>. QED
        BY <3>2, <4>1, SeqDef
    <3>. DEFINE m == <<Message("assistant", r, <<>>)>> \o told
    <3>5. m \in Seq(Msg) /\ Paired(m) /\ Truthful(m) /\ \A i \in DOMAIN m : m[i].kind # "user"
      BY <2>1, <3>3, <3>4, NativePairs
    <3>. HIDE DEF m
    <3>6. Facts(m, {e}) /\ Results(m, {e})
      BY <2>0, <3>5 DEF Facts, Results
    <3>7. Sound(m, {e})
      BY <3>5, <3>6 DEF Sound
    <3>. QED
      BY <2>1, <3>1, <3>7 DEF m
  <2>. QED
    BY <2>2, <2>3
<1>. QED
  BY <1>0, <1>1, <1>2, <1>3 DEF Event

-----------------------------------------------------------------------------
(* Flattening: the recursive function of FlattenSeq exists, and adds one   *)
(* sequence at a time.                                                     *)

LEMMA FlattenExists ==
  ASSUME NEW n \in Nat, NEW ss
  PROVE  \E f : f = [i \in 1..n |-> IF i = 1 THEN ss[i] ELSE f[i-1] \o ss[i]]
<1>. DEFINE Adds(f, k) == \A i \in 1..k : f[i] = IF i = 1 THEN ss[i] ELSE f[i-1] \o ss[i]
            Good(k) == \E f : Adds(f, k)
            Failing == {k \in Nat : ~Good(k)}
<1>1. Good(0)
  OBVIOUS
<1>2. ASSUME NEW k \in Nat, Good(k) PROVE Good(k + 1)
  <2>1. PICK g : Adds(g, k)
    BY <1>2
  <2>. DEFINE f == [i \in 1..(k + 1) |-> IF i \in 1..k THEN g[i]
                                         ELSE IF i = 1 THEN ss[i] ELSE g[i-1] \o ss[i]]
  <2>2. \A i \in 1..k : f[i] = g[i]
    OBVIOUS
  <2>3. \A i \in 1..(k + 1) : i # 1 => i - 1 \in 1..k
    OBVIOUS
  <2>4. f[k + 1] = IF k + 1 = 1 THEN ss[k + 1] ELSE g[k] \o ss[k + 1]
    OBVIOUS
  <2>. HIDE DEF f
  <2>5. ASSUME NEW i \in 1..(k + 1) PROVE f[i] = IF i = 1 THEN ss[i] ELSE f[i-1] \o ss[i]
    <3>1. CASE i \in 1..k
      <4>1. f[i] = IF i = 1 THEN ss[i] ELSE g[i-1] \o ss[i]
        BY <2>1, <2>2, <3>1
      <4>. QED
    BY <4>1, <2>2, <2>3
    <3>2. CASE i \notin 1..k
      <4>1. i = k + 1
        BY <3>2
      <4>. QED
    BY <2>2, <2>3, <2>4, <4>1
    <3>. QED
    BY <3>1, <3>2
  <2>6. Adds(f, k + 1)
    BY <2>5
  <2>. HIDE DEF Adds
  <2>. QED
    BY <2>6
<1>. HIDE DEF Good
<1>3. CASE Failing # {}
  <2>1. PICK k \in Failing : \A m \in Failing : <<m, k>> \notin OpToRel(<, Nat)
    BY <1>3, NatLessThanWellFounded, WFMin
  <2>2. k \in Nat /\ k # 0 /\ ~Good(k)
    BY <1>1, <2>1
  <2>3. k - 1 \in Nat /\ k - 1 < k /\ (k - 1) + 1 = k
    BY <2>2
  <2>4. k - 1 \notin Failing
    BY <2>1, <2>2, <2>3 DEF OpToRel
  <2>5. Good((k - 1) + 1)
    BY <1>2, <2>3, <2>4
  <2>. QED
    BY <2>2, <2>3, <2>5
<1>4. ASSUME Failing = {} PROVE Good(n)
  BY <1>4
<1>5. PICK g : Adds(g, n)
  BY <1>3, <1>4 DEF Good
<1>. DEFINE f == [i \in 1..n |-> g[i]]
<1>6. \A i \in 1..n : i # 1 => i - 1 \in 1..n
  OBVIOUS
<1>7. \A i \in 1..n : f[i] = IF i = 1 THEN ss[i] ELSE f[i-1] \o ss[i]
  BY <1>5, <1>6
<1>8. f = [i \in 1..n |-> f[i]]
  OBVIOUS
<1>. HIDE DEF f
<1>9. f = [i \in 1..n |-> IF i = 1 THEN ss[i] ELSE f[i-1] \o ss[i]]
  BY <1>7, <1>8
<1>. QED
    BY <1>9

LEMMA FlattenFacts ==
  ASSUME NEW ss, Len(ss) \in Nat \ {0}
  PROVE  \E f : /\ f[1] = ss[1] /\ f[Len(ss)] = FlattenSeq(ss)
                /\ \A i \in 1..Len(ss) : i # 1 => f[i] = f[i-1] \o ss[i]
<1>. DEFINE F == CHOOSE f : f = [i \in 1..Len(ss) |-> IF i = 1 THEN ss[i] ELSE f[i-1] \o ss[i]]
<1>1. F = [i \in 1..Len(ss) |-> IF i = 1 THEN ss[i] ELSE F[i-1] \o ss[i]]
  BY FlattenExists
<1>2. FlattenSeq(ss) = F[Len(ss)]
  BY DEF FlattenSeq
<1>. HIDE DEF F
<1>3. \A i \in 1..Len(ss) : F[i] = IF i = 1 THEN ss[i] ELSE F[i-1] \o ss[i]
  BY <1>1
<1>4. 1 \in 1..Len(ss)
  OBVIOUS
<1>5. F[1] = ss[1] /\ F[Len(ss)] = FlattenSeq(ss)
      /\ \A i \in 1..Len(ss) : i # 1 => F[i] = F[i-1] \o ss[i]
  BY <1>2, <1>3, <1>4
<1>. QED
    BY <1>5

(* What the projection makes of all events that are not covered. *)
LEMMA FreshSound ==
  ASSUME Typed, Placed, Logged, Recorded, ~Acting
  PROVE  Sound(Fresh, Seqs \ projected)
<1>. DEFINE part == [e \in Seqs |-> IF e \in projected THEN <<>> ELSE Projection(e)]
            rest(e) == {e} \ projected
            upto(e) == (1..e) \ projected
<1>1. Len(log) \in Nat /\ Seqs = 1..Len(log) /\ Fresh = FlattenSeq(part)
      /\ Len(part) = Len(log)
  BY LenProperties DEF Logged, Seqs, Fresh
<1>2. ASSUME NEW e \in Seqs PROVE Sound(part[e], rest(e))
  <2>1. CASE e \in projected
    <3>1. rest(e) = {} /\ part[e] = <<>>
      BY <2>1
    <3>. HIDE DEF rest, part
    <3>. QED
      BY <3>1, Wordless
  <2>2. CASE e \notin projected
    <3>1. rest(e) = {e} /\ part[e] = Projection(e)
      BY <2>2
    <3>. HIDE DEF rest, part
    <3>. QED
      BY <3>1, ProjectionSound
  <2>. QED
    BY <2>1, <2>2
<1>3. CASE Len(log) = 0
  <2>1. part = <<>>
    BY <1>1, <1>3
  <2>2. FlattenSeq(part) = <<>> /\ Seqs \ projected = {}
    BY <1>1, <1>3, <2>1 DEF FlattenSeq
  <2>. QED
    BY <1>1, <2>2, Wordless
<1>4. CASE Len(log) # 0
  <2>. HIDE DEF part
  <2>1. PICK f : /\ f[1] = part[1] /\ f[Len(part)] = FlattenSeq(part)
                 /\ \A i \in 1..Len(part) : i # 1 => f[i] = f[i-1] \o part[i]
    BY <1>1, <1>4, FlattenFacts
  <2>. DEFINE Failing == {k \in Nat : k \in Seqs /\ ~Sound(f[k], upto(k))}
  <2>2. 1 \notin Failing
    <3>1. upto(1) = rest(1) /\ 1 \in Seqs
      BY <1>1, <1>4
    <3>. HIDE DEF upto, rest
    <3>. QED
      BY <1>2, <2>1, <3>1
  <2>3. ASSUME NEW k \in Nat, k \in Seqs, k # 1, k - 1 \notin Failing PROVE k \notin Failing
    <3>1. k - 1 \in Nat /\ k - 1 \in Seqs
      BY <1>1, <2>3
    <3>2. Sound(f[k-1], upto(k-1)) /\ Sound(part[k], rest(k))
      BY <1>2, <2>3, <3>1
    <3>3. upto(k-1) \cap rest(k) = {} /\ upto(k-1) \cup rest(k) = upto(k)
      BY <1>1, <2>3
    <3>4. f[k] = f[k-1] \o part[k]
      BY <1>1, <2>1, <2>3
    <3>. HIDE DEF upto, rest
    <3>5. Sound(f[k-1] \o part[k], upto(k-1) \cup rest(k))
      BY <3>2, <3>3, Joined
    <3>6. Sound(f[k], upto(k))
      BY <3>3, <3>4, <3>5
    <3>. QED
      BY <3>6
  <2>4. CASE Failing # {}
    <3>. HIDE DEF upto
    <3>1. PICK k \in Failing : \A m \in Failing : <<m, k>> \notin OpToRel(<, Nat)
      BY <2>4, NatLessThanWellFounded, WFMin
    <3>2. k \in Nat /\ k \in Seqs /\ k # 1
      BY <2>2, <3>1
    <3>3. k - 1 \in Nat /\ k - 1 < k
      BY <1>1, <3>2
    <3>4. k - 1 \notin Failing
      BY <3>1, <3>2, <3>3 DEF OpToRel
    <3>. HIDE DEF Failing
    <3>. QED
      BY <2>3, <3>1, <3>2, <3>4
  <2>5. CASE Failing = {}
    <3>1. Len(log) \in Seqs /\ Len(log) \in Nat /\ upto(Len(log)) = Seqs \ projected
      BY <1>1, <1>4
    <3>2. Sound(f[Len(log)], upto(Len(log)))
      <4>. HIDE DEF upto
      <4>. QED
        BY <2>5, <3>1
    <3>. HIDE DEF upto
    <3>. QED
      BY <1>1, <2>1, <3>1, <3>2
  <2>. QED
    BY <2>4, <2>5
<1>. QED
  BY <1>3, <1>4

-----------------------------------------------------------------------------
(* What is told stays true.                                                *)

(* Rounds and events are only added, and the row of an action gone by does *)
(* not change but for an outcome nobody knows.                             *)
Grown ==
  /\ \A r \in DOMAIN rounds : r \in DOMAIN rounds' /\ rounds'[r].calls = rounds[r].calls
  /\ \A e \in Seqs : e \in Seqs' /\ log'[e] = log[e]
  /\ \A a \in Action : Bygone(a) =>
       /\ Bygone(a)'
       /\ a \in DOMAIN rows' <=> a \in DOMAIN rows
       /\ a \in DOMAIN rows =>
            rows'[a] = rows[a] \/ (rows[a] = "started" /\ rows'[a] = "unknown")

LEMMA ToldLasts ==
  ASSUME Grown, NEW a, NEW s, Told(a, s)
  PROVE  Told(a, s)'
<1>1. /\ a \in Action /\ Bygone(a)' /\ Agrees(a, s)
      /\ a \in DOMAIN rows' <=> a \in DOMAIN rows
      /\ a \in DOMAIN rows => rows'[a] = rows[a] \/ (rows[a] = "started" /\ rows'[a] = "unknown")
  BY DEF Grown, Told, Bygone
<1>2. Agrees(a, s)'
  BY <1>1 DEF Agrees
<1>. QED
  BY <1>1, <1>2 DEF Told

LEMMA Lasts ==
  ASSUME Grown, NEW m, NEW C, Sound(m, C)
  PROVE  Sound(m, C)'
<1>1. m \in Seq(Msg) /\ C \subseteq Seqs'
  BY DEF Sound, Grown
<1>2. \A i \in DOMAIN m : CallsOf(m[i])' = CallsOf(m[i])
  BY DEF Sound, Truthful, Fit, CallsOf, Grown
<1>3. Paired(m)'
  <2>1. ASSUME NEW i \in DOMAIN m, NEW n \in 1..CallsOf(m[i])'
        PROVE  /\ i + n <= Len(m) /\ m[i + n].kind = "tool"
               /\ m[i + n].ref = ActionOf(m[i].ref, "tool", n)
    <3>1. n \in 1..CallsOf(m[i])
      BY <1>2, <2>1
    <3>. QED
      BY <3>1 DEF Sound, Paired
  <2>2. ASSUME NEW j \in DOMAIN m, m[j].kind = "tool"
        PROVE  \E i \in 1..(j - 1) : j - i <= CallsOf(m[i])'
    <3>1. PICK i \in 1..(j - 1) : j - i <= CallsOf(m[i])
      BY <2>2 DEF Sound, Paired
    <3>2. i \in DOMAIN m
      BY <1>1
    <3>. QED
      BY <1>2, <3>1, <3>2
  <2>. QED
    BY <2>1, <2>2 DEF Paired, ActionOf
<1>4. ASSUME NEW i \in DOMAIN m PROVE Fit(m[i])'
  <2>1. Fit(m[i])
    BY DEF Sound, Truthful
  <2>2. m[i].kind = "assistant" => m[i].ref \in DOMAIN rounds'
    BY <2>1 DEF Fit, Grown
  <2>3. m[i].kind \in {"tool", "recovered"} => Told(m[i].ref, m[i].say[1])'
    BY <2>1, ToldLasts DEF Fit
  <2>4. m[i].kind = "sends" =>
          \A n \in DOMAIN m[i].say : Told(ActionOf(m[i].ref, "send", n), m[i].say[n])'
    BY <2>1, ToldLasts DEF Fit
  <2>5. m[i].kind = "sends" => m[i].ref \in Nat \X Nat
    BY <2>1 DEF Fit
  <2>. QED
    BY <2>2, <2>3, <2>4, <2>5 DEF Fit
<1>5. \A e \in C : log'[e] = log[e]
  BY DEF Sound, Grown
<1>6. Facts(m, C)'
  BY <1>5 DEF Sound, Facts, UserOf
<1>7. Results(m, C)'
  <2>1. ASSUME NEW e \in C, log'[e].kind = "result" PROVE \E i \in DOMAIN m : Tells(m[i], e)'
    <3>1. PICK i \in DOMAIN m : Tells(m[i], e)
      BY <1>5, <2>1 DEF Sound, Results
    <3>2. Tells(m[i], e)'
      BY <1>5, <3>1 DEF Tells
    <3>. QED
      BY <3>2
  <2>. QED
    BY <2>1 DEF Results
<1>. QED
  BY <1>1, <1>3, <1>4, <1>6, <1>7 DEF Sound, Truthful

(* What every step does to rounds, events and rows. *)
LEMMA Grows ==
  ASSUME Typed, Placed, Logged, Shaped, [Next]_vars
  PROVE  Grown
<1>. DEFINE Steady == /\ UNCHANGED rows
                      /\ \A r \in DOMAIN rounds : r \in DOMAIN rounds' /\ rounds'[r].calls = rounds[r].calls
            Added == \A e \in Seqs : e \in Seqs' /\ log'[e] = log[e]
            Passed == \A a \in Action : <<a[1], a[2]>> \in DOMAIN rounds /\ Ahead(a)' => Ahead(a)
<1>1. ASSUME Steady, Added, Passed PROVE Grown
  BY <1>1 DEF Grown, Bygone
<1>2. ASSUME ~Acting' PROVE Passed
  BY <1>2 DEF Ahead
<1>3. ASSUME UNCHANGED <<pc, turn, index, kind>>, pos' \in {pos, pos + 1} PROVE Passed
  BY <1>3 DEF Ahead, Acting, Action, Typed
<1>4. ASSUME UNCHANGED <<log>> PROVE Added
  BY <1>4 DEF Seqs
<1>5. ASSUME UNCHANGED <<rounds, rows>> PROVE Steady
  BY <1>5
<1>6. ASSUME NEW e \in Event, log' = Append(log, e) PROVE Added
  BY <1>6, AppendFacts DEF Seqs
<1>. HIDE DEF Steady, Added, Passed
<1>7. CASE RouteSilent \/ EndLoop \/ AskFails \/ LedgerFails
  <2>1. PICK s : End(s) /\ UNCHANGED ledger
    BY <1>7, Endings
  <2>2. ~Acting'
    BY <2>1, EndFacts DEF Acting
  <2>. QED
    BY <1>1, <1>2, <1>4, <1>5, <2>1, <2>2
<1>8. CASE LoadHistory \/ SaveLoaded \/ RouteGenerate \/ Refresh \/ Crash
  <2>1. ~Acting' /\ UNCHANGED <<log, rounds, rows>>
    BY <1>8 DEF LoadHistory, SaveLoaded, RouteGenerate, Refresh, Crash, Acting
  <2>. QED
    BY <1>1, <1>2, <1>4, <1>5, <2>1
<1>9. ASSUME NEW shape \in Shape, RecordRound(shape) PROVE Grown
  <2>. DEFINE e == [kind |-> "round", ref |-> Rid, say |-> "proposed"]
  <2>1. e \in Event /\ log' = Append(log, e) /\ UNCHANGED <<rows, turn, index>>
    BY <1>9 DEF RecordRound, Event, Ref, Rid, Typed
  <2>. HIDE DEF e
  <2>2. Rid \notin DOMAIN rounds /\ DOMAIN rounds' = DOMAIN rounds \cup {Rid}
        /\ \A r \in DOMAIN rounds : rounds'[r] = rounds[r]
    BY <1>9, RecordFacts
  <2>3. Steady /\ Added
    BY <1>6, <2>1, <2>2 DEF Steady
  <2>4. Passed
    BY <2>1, <2>2 DEF Passed, Ahead, Rid
  <2>. QED
    BY <1>1, <2>3, <2>4
<1>10. CASE SkipAction \/ RefuseAction
  <2>1. UNCHANGED <<log, rounds, rows, pc, turn, index, kind>> /\ \E s : Note(s)
    BY <1>10 DEF SkipAction, RefuseAction
  <2>2. pos' = pos + 1
    BY <2>1, NoteFacts
  <2>. QED
    BY <1>1, <1>3, <1>4, <1>5, <2>1, <2>2
<1>11. CASE SendsDone
  <2>1. UNCHANGED <<log, rounds, rows, pc, turn, index>> /\ kind = "send" /\ kind' = "tool"
    BY <1>11 DEF SendsDone
  <2>2. Passed
    BY <2>1 DEF Passed, Ahead, Acting
  <2>. QED
    BY <1>1, <1>4, <1>5, <2>1, <2>2
<1>12. CASE Cancel \/ Inbound \/ UNCHANGED vars
  <2>. DEFINE e == [kind |-> "inbound", ref |-> <<Len(log) + 1>>, say |-> "fact"]
  <2>1. UNCHANGED <<rounds, rows, pc, turn, index, kind, pos>> /\ (UNCHANGED log \/ log' = Append(log, e))
    BY <1>12 DEF Cancel, Inbound, vars
  <2>2. e \in Event
    BY DEF Event, Ref, Logged
  <2>. HIDE DEF e
  <2>3. Added
    BY <1>4, <1>6, <2>1, <2>2
  <2>. QED
    BY <1>1, <1>3, <1>5, <2>1, <2>3
<1>13. CASE RoundDone \/ Malformed
  <2>1. /\ UNCHANGED <<log, rows>> /\ Onward /\ Rid \in DOMAIN rounds
        /\ \E messages : SaveRound(messages)
    BY <1>13, DoneFacts, MalformedFacts DEF Placed, Open, Acting
  <2>2. rounds' = [rounds EXCEPT ![Rid].finished = TRUE]
    BY <2>1 DEF SaveRound
  <2>3. Steady
    BY <2>1, <2>2 DEF Steady, Typed, RoundRow
  <2>4. ~Acting'
    BY <2>1, EndFacts DEF Onward, Acting
  <2>. QED
    BY <1>1, <1>2, <1>4, <2>1, <2>3, <2>4
<1>14. CASE StartAction
  <2>1. /\ rows' = Inserted(rows, Current, "started") /\ pc = "acting" /\ pc' = "executing"
        /\ UNCHANGED <<log, rounds, turn, index, kind, pos>>
    BY <1>14 DEF StartAction
  <2>2. Added /\ Passed
    BY <1>4, <2>1 DEF Passed, Ahead, Acting
  <2>3. Ahead(Current)
    BY <2>1 DEF Ahead, Current, Act, ActionOf, Rid, Acting, Typed
  <2>4. DOMAIN rows' = DOMAIN rows \cup {Current} /\ \A a \in DOMAIN rows : a # Current => rows'[a] = rows[a]
    BY <2>1 DEF Inserted
  <2>. QED
    BY <2>1, <2>2, <2>3, <2>4 DEF Grown, Bygone, Added, Passed
<1>15. CASE FinishAction
  <2>. DEFINE e(s) == [kind |-> "result", ref |-> Current, say |-> s]
  <2>1. PICK s \in Status : /\ rows' = [rows EXCEPT ![Current] = s] /\ Note(s) /\ log' = Append(log, e(s))
    BY <1>15 DEF FinishAction, Status
  <2>2. pc = "executing" /\ pc' = "acting" /\ UNCHANGED <<rounds, turn, index, kind>> /\ pos' = pos + 1
    BY <1>15, <2>1, NoteFacts DEF FinishAction
  <2>3. e(s) \in Event
    BY DEF Event, Ref, Current, Act, ActionOf, Rid, Typed
  <2>. HIDE DEF e
  <2>4. Added
    BY <1>6, <2>1, <2>3
  <2>5. Passed
    BY <2>2 DEF Passed, Ahead, Acting, Action, Typed
  <2>6. Ahead(Current)
    BY <2>2 DEF Ahead, Current, Act, ActionOf, Rid, Acting, Typed
  <2>7. DOMAIN rows' = DOMAIN rows /\ \A a \in DOMAIN rows : a # Current => rows'[a] = rows[a]
    BY <2>1
  <2>. QED
    BY <2>2, <2>4, <2>5, <2>6, <2>7 DEF Grown, Bygone, Added, Passed
<1>16. CASE Recover
  <2>1. /\ DOMAIN rows' = DOMAIN rows /\ UNCHANGED <<rounds, pc, loop>>
        /\ \A a \in DOMAIN rows : rows'[a] = rows[a] \/ (rows[a] = "started" /\ rows'[a] = "unknown")
    BY <1>16 DEF Recover
  <2>2. \A n \in Seqs : n \in Seqs' /\ log'[n] = log[n]
    BY <1>16, RecoverFacts
  <2>4. ~Acting'
    BY <1>16, <2>1 DEF Recover, Placed, Acting
  <2>. QED
    BY <1>2, <2>1, <2>2, <2>4 DEF Grown, Bygone, Passed
<1>. QED
  BY <1>7, <1>8, <1>9, <1>10, <1>11, <1>12, <1>13, <1>14, <1>15, <1>16 DEF Next, TurnStep

-----------------------------------------------------------------------------
(* The open round.                                                         *)

LEMMA CurrentFacts ==
  ASSUME Typed
  PROVE  /\ Current = <<turn, index, kind, pos>> /\ Current \in Action /\ Current \in Ref
         /\ \A k, n : Act(k, n) = <<turn, index, k, n>>
         /\ \A k, n, j, m : Act(k, n) = Act(j, m) => k = j /\ n = m
         /\ \A a \in Action : a = <<a[1], a[2], a[3], a[4]>>
         /\ Rid = <<turn, index>>
BY DEF Current, Act, ActionOf, Rid, Action, Ref, Typed

(* While no action is under way, the one to come has no row. *)
LEMMA CurrentFree ==
  ASSUME Typed, Shaped, pc = "acting"
  PROVE  Current \notin DOMAIN rows
<1>. SUFFICES ASSUME Current \in DOMAIN rows PROVE FALSE
  OBVIOUS
<1>1. Current = <<turn, index, kind, pos>>
  BY CurrentFacts
<1>2. \/ kind = "send" /\ pos \in DOMAIN feedback
      \/ kind = "tool" /\ pos < pos
  BY <1>1 DEF Shaped, Open, Acting
<1>3. kind = "send" => Len(feedback) = pos - 1 /\ DOMAIN feedback = 1..Len(feedback)
  BY DEF Shaped, Open, Acting
<1>. QED
  BY <1>2, <1>3 DEF Typed

LEMMA RecordedStep ==
  ASSUME Typed, Placed, Logged, Shaped, Recorded, [Next]_vars
  PROVE  Recorded'
<1>. USE DEF Typed
<1>g. /\ \A r \in DOMAIN rounds : r \in DOMAIN rounds'
      /\ \A e \in Seqs : e \in Seqs' /\ log'[e] = log[e]
  BY Grows DEF Grown
<1>1. ASSUME UNCHANGED <<log, rows>> PROVE Recorded'
  BY <1>g, <1>1 DEF Recorded, Seqs
<1>2. ASSUME NEW e \in Event, log' = Append(log, e), UNCHANGED rows, e.kind = "inbound" \/
             (e.kind = "round" /\ e.ref \in DOMAIN rounds')
      PROVE  Recorded'
  <2>1. /\ \A n \in Seqs' : n \in Seqs \/ n = Len(log) + 1
        /\ log'[Len(log) + 1] = e
    BY <1>2, AppendFacts DEF Seqs
  <2>. QED
    BY <1>g, <1>2, <2>1 DEF Recorded
<1>3. CASE RouteSilent \/ EndLoop \/ AskFails \/ LedgerFails
  <2>1. UNCHANGED ledger
    BY <1>3, Endings
  <2>. QED
    BY <1>1, <2>1
<1>4. CASE \/ LoadHistory \/ SaveLoaded \/ RouteGenerate \/ Refresh \/ SkipAction \/ RefuseAction
           \/ SendsDone \/ Cancel \/ Crash \/ UNCHANGED vars
  <2>1. UNCHANGED <<log, rows>>
    BY <1>4 DEF LoadHistory, SaveLoaded, RouteGenerate, Refresh, SkipAction, RefuseAction,
         SendsDone, Cancel, Crash, vars
  <2>. QED
    BY <1>1, <2>1
<1>5. CASE RoundDone \/ Malformed
  <2>1. UNCHANGED <<log, rows>>
    BY <1>5, DoneFacts, MalformedFacts
  <2>. QED
    BY <1>1, <2>1
<1>6. ASSUME NEW shape \in Shape, RecordRound(shape) PROVE Recorded'
  <2>. DEFINE e == [kind |-> "round", ref |-> Rid, say |-> "proposed"]
  <2>1. e \in Event /\ e.kind = "round" /\ e.ref = Rid /\ log' = Append(log, e) /\ UNCHANGED rows
    BY <1>6 DEF RecordRound, Event, Ref, Rid
  <2>. HIDE DEF e
  <2>2. Rid \in DOMAIN rounds'
    BY <1>6, RecordFacts
  <2>. QED
    BY <1>2, <2>1, <2>2
<1>7. CASE Inbound
  <2>. DEFINE e == [kind |-> "inbound", ref |-> <<Len(log) + 1>>, say |-> "fact"]
  <2>1. log' = Append(log, e) /\ UNCHANGED rows
    BY <1>7 DEF Inbound
  <2>2. e \in Event /\ e.kind = "inbound"
    BY DEF Event, Ref, Logged
  <2>. HIDE DEF e
  <2>. QED
    BY <1>2, <2>1, <2>2
<1>8. CASE StartAction
  <2>1. /\ rows' = Inserted(rows, Current, "started") /\ pc = "acting" /\ UNCHANGED log
    BY <1>8 DEF StartAction
  <2>2. /\ Current \notin DOMAIN rows /\ DOMAIN rows' = DOMAIN rows \cup {Current}
        /\ \A a \in DOMAIN rows : rows'[a] = rows[a]
    BY <2>1, CurrentFree DEF Inserted
  <2>3. Current[4] >= 1
    BY CurrentFacts DEF Shaped
  <2>. QED
    BY <1>g, <2>1, <2>2, <2>3 DEF Recorded, Seqs
<1>9. CASE FinishAction
  <2>1. Current \in DOMAIN rows /\ rows[Current] = "started"
    BY <1>9 DEF FinishAction, Shaped, Open, Acting
  <2>. DEFINE e(s) == [kind |-> "result", ref |-> Current, say |-> s]
  <2>2. PICK s \in Status \ {"started"} :
          /\ DOMAIN rows' = DOMAIN rows /\ rows'[Current] = s
          /\ \A a \in DOMAIN rows : a # Current => rows'[a] = rows[a]
          /\ log' = Append(log, e(s))
    BY <1>9, <2>1, FinishFacts
  <2>3. e(s) \in Event /\ e(s).kind = "result" /\ e(s).ref = Current /\ e(s).say = s
    BY CurrentFacts DEF Event
  <2>. HIDE DEF e
  <2>4. /\ \A n \in Seqs' : n \in Seqs \/ n = Len(log) + 1
        /\ log'[Len(log) + 1] = e(s)
    BY <2>2, <2>3, AppendFacts DEF Seqs
  <2>5. \A n \in Seqs : log[n].kind = "result" => log[n].ref # Current
    BY <2>1 DEF Recorded
  <2>6. \A n \in Seqs' : log'[n].kind = "result" =>
          log'[n].ref \in DOMAIN rows' /\ rows'[log'[n].ref] = log'[n].say /\ log'[n].say # "started"
    <3>. TAKE n \in Seqs'
    <3>1. CASE n \in Seqs
      BY <1>g, <2>2, <2>5, <3>1 DEF Recorded
    <3>2. CASE n \notin Seqs
      BY <2>1, <2>2, <2>3, <2>4, <3>2
    <3>. QED
      BY <3>1, <3>2
  <2>7. \A n \in Seqs' : log'[n].kind = "round" => log'[n].ref \in DOMAIN rounds'
    BY <1>g, <2>3, <2>4 DEF Recorded
  <2>. QED
    BY <2>2, <2>6, <2>7 DEF Recorded
<1>10. CASE Recover
  <2>1. /\ DOMAIN rows' = DOMAIN rows
        /\ \A a \in DOMAIN rows : rows'[a] = IF rows[a] = "started" THEN "unknown" ELSE rows[a]
    BY <1>10 DEF Recover
  <2>2. \A n \in Seqs' : n \notin Seqs =>
          /\ log'[n].kind = "result" /\ log'[n].say = "unknown"
          /\ log'[n].ref \in DOMAIN rows /\ rows[log'[n].ref] = "started"
    BY <1>10, RecoverFacts
  <2>. QED
    BY <1>g, <2>1, <2>2 DEF Recorded
<1>. QED
  BY <1>3, <1>4, <1>5, <1>6, <1>7, <1>8, <1>9, <1>10 DEF Next, TurnStep

(* The note of an outcome, of a message or of a call. *)
LEMMA NoteShape ==
  ASSUME NEW s, Note(s), Typed
  PROVE  /\ pos' = pos + 1
         /\ kind = "send" => feedback' = Append(feedback, s) /\ live' = live
         /\ kind = "tool" => feedback' = feedback /\ live' = Append(live, Message("tool", Current, <<s>>))
BY DEF Note, Typed, Kinds

(* The feedback of the open round, when its current action is over. *)
LEMMA FeedbackStep ==
  ASSUME Typed, Shaped, Acting, NEW s \in Said, Note(s), UNCHANGED <<turn, index, kind>>,
         \A a \in Action : a # Current =>
           /\ a \in DOMAIN rows' <=> a \in DOMAIN rows
           /\ a \in DOMAIN rows => rows'[a] = rows[a],
         IF Current \in DOMAIN rows' THEN s = rows'[Current] /\ s # "started"
         ELSE s \in {"cancelled", "rejected"}
  PROVE  /\ feedback' \in Seq(Said) /\ pos' = pos + 1
         /\ kind = "send" => Len(feedback') = pos' - 1 /\ pos \in DOMAIN feedback'
         /\ \A n \in DOMAIN feedback' : Exact(Act("send", n), feedback[n])'
         /\ \A n \in DOMAIN feedback : n \in DOMAIN feedback'
<1>1. /\ pos' = pos + 1 /\ feedback \in Seq(Said) /\ pos \in Nat /\ pos >= 1
      /\ kind = "send" => feedback' = Append(feedback, s) /\ Len(feedback) = pos - 1
      /\ kind = "tool" => feedback' = feedback
      /\ \A n \in DOMAIN feedback : Exact(Act("send", n), feedback[n])
      /\ kind \in Kinds
  BY NoteShape DEF Typed, Shaped, Open
<1>2. /\ \A n : Act("send", n)' = Act("send", n) /\ Act("send", n) = <<turn, index, "send", n>>
      /\ Current = <<turn, index, kind, pos>>
  BY CurrentFacts DEF Act, ActionOf, Rid
<1>3. DOMAIN feedback = 1..Len(feedback) /\ Len(feedback) \in Nat
  BY <1>1
<1>4. /\ feedback' \in Seq(Said) /\ DOMAIN feedback \subseteq DOMAIN feedback'
      /\ kind = "send" => /\ Len(feedback') = pos /\ DOMAIN feedback' = 1..pos
                          /\ feedback'[pos] = s
      /\ \A n \in DOMAIN feedback : feedback'[n] = feedback[n]
  <2>1. CASE kind = "send"
    BY <1>1, <1>3, <2>1
  <2>2. CASE kind = "tool"
    BY <1>1, <2>2
  <2>. QED
    BY <1>1, <2>1, <2>2 DEF Kinds
<1>5. ASSUME NEW n \in DOMAIN feedback PROVE Exact(Act("send", n), feedback[n])'
  <2>1. PICK a : a = Act("send", n)
    OBVIOUS
  <2>2. a \in Action /\ a # Current
    BY <1>1, <1>2, <1>3, <1>5, <2>1 DEF Action, Kinds, Typed
  <2>3. a = Act("send", n)' /\ feedback'[n] = feedback[n] /\ Exact(a, feedback[n])
    BY <1>1, <1>2, <1>4, <2>1
  <2>4. Exact(a, feedback[n])'
    BY <2>2, <2>3 DEF Exact
  <2>. QED
    BY <2>3, <2>4
<1>6. ASSUME NEW n \in DOMAIN feedback' PROVE Exact(Act("send", n), feedback[n])'
  <2>1. CASE n \in DOMAIN feedback
    BY <1>5, <2>1
  <2>2. CASE n \notin DOMAIN feedback
    <3>1. kind = "send" /\ n = pos
      BY <1>1, <1>3, <1>4, <1>6, <2>2 DEF Kinds
    <3>2. PICK a : a = Current
      OBVIOUS
    <3>3. a = Act("send", n)' /\ feedback'[n] = s
      BY <1>2, <1>4, <3>1, <3>2
    <3>4. Exact(a, s)'
      BY <3>2 DEF Exact
    <3>. QED
      BY <3>3, <3>4
  <2>. QED
    BY <2>1, <2>2
<1>. QED
  BY <1>1, <1>4, <1>6

LEMMA ShapedStep ==
  ASSUME Typed, Placed, Logged, Shaped, Recorded, [Next]_vars
  PROVE  Shaped'
<1>. USE TurnAssumption
<1>1. ASSUME ~Open', kind' = "send", pos' = 1, feedback' = <<>> PROVE Shaped'
  BY <1>1 DEF Shaped
<1>2. ASSUME UNCHANGED <<pc, turn, index, round, kind, pos, feedback, rounds, rows>> PROVE Shaped'
  BY <1>2 DEF Shaped, Open, Acting, Rid, Count, Current, Act, ActionOf, Exact
<1>3. CASE RouteSilent \/ EndLoop \/ AskFails \/ LedgerFails
  <2>1. PICK s : End(s)
    BY <1>3, Endings
  <2>. QED
    BY <1>1, <2>1, EndFacts DEF Open, Acting
<1>4. CASE LoadHistory \/ SaveLoaded \/ RouteGenerate \/ Refresh
  <2>1. ~Open /\ ~Open' /\ UNCHANGED <<kind, pos, feedback>>
    BY <1>4 DEF LoadHistory, SaveLoaded, RouteGenerate, Refresh, Open, Acting
  <2>. QED
    BY <1>1, <2>1 DEF Shaped
<1>5. CASE Crash
  BY <1>1, <1>5 DEF Crash, LeaveTurn, LeaveRound, Open, Acting
<1>6. CASE Recover
  <2>1. ~Open /\ ~Open' /\ UNCHANGED <<kind, pos, feedback>>
    BY <1>6 DEF Recover, Open, Acting, Placed
  <2>. QED
    BY <1>1, <2>1 DEF Shaped
<1>7. CASE RoundDone \/ Malformed
  <2>1. Onward
    BY <1>7, DoneFacts, MalformedFacts
  <2>. QED
    BY <1>1, <2>1, EndFacts DEF Onward, Open, Acting
<1>8. CASE Inbound \/ Cancel \/ UNCHANGED vars
  BY <1>2, <1>8 DEF Inbound, Cancel, vars
<1>9. ASSUME NEW shape \in Shape, RecordRound(shape) PROVE Shaped'
  <2>1. /\ pc = "asking" /\ pc' \in {"acting", "malformed"} /\ Rid \notin DOMAIN rounds
        /\ rounds'[Rid] = [calls |-> shape.calls, ok |-> shape.ok, finished |-> FALSE]
        /\ UNCHANGED <<rows, turn, index>> /\ shape.sends \in Nat
    BY <1>9, RecordFacts
  <2>2. round' = shape /\ UNCHANGED <<kind, pos, feedback>>
    BY <1>9 DEF RecordRound
  <2>3. kind = "send" /\ pos = 1 /\ feedback = <<>> /\ Len(<<>>) = 0 /\ DOMAIN <<>> = {}
    BY <2>1 DEF Shaped, Open, Acting
  <2>4. \A a \in DOMAIN rows : ~(a[1] = turn /\ a[2] = index)
    BY <2>1 DEF Placed, Rid
  <2>5. round'.calls = rounds'[Rid'].calls /\ Count' = shape.sends /\ pos' <= Count' + 1
    BY <2>1, <2>2, <2>3 DEF Rid, Count
  <2>. QED
    BY <2>1, <2>2, <2>3, <2>4, <2>5 DEF Shaped, Open, Acting
<1>10. CASE SendsDone
  <2>1. pc = "acting" /\ kind = "send" /\ kind' = "tool" /\ pos' = 1
        /\ UNCHANGED <<pc, turn, index, round, feedback, rounds, rows>>
    BY <1>10 DEF SendsDone
  <2>2. Count' = round.calls /\ Count' \in Nat /\ Rid' = Rid
    BY <2>1 DEF Count, Typed, Rid
  <2>3. \A n \in DOMAIN feedback : Exact(Act("send", n), feedback[n])'
    BY <2>1 DEF Shaped, Open, Acting, Exact, Act, ActionOf, Rid
  <2>. QED
    BY <2>1, <2>2, <2>3 DEF Shaped, Open, Acting
<1>11. CASE SkipAction \/ RefuseAction
  <2>1. PICK s \in {"cancelled", "rejected"} : Note(s)
    BY <1>11 DEF SkipAction, RefuseAction
  <2>2. pc = "acting" /\ pos <= Count /\ UNCHANGED <<pc, turn, index, round, kind, rounds, rows>>
    BY <1>11 DEF SkipAction, RefuseAction
  <2>3. s \in Said /\ Acting /\ Current \notin DOMAIN rows'
    BY <2>2, CurrentFree DEF Said, Status, Acting
  <2>4. /\ feedback' \in Seq(Said) /\ pos' = pos + 1
        /\ kind = "send" => Len(feedback') = pos' - 1
        /\ \A n \in DOMAIN feedback' : Exact(Act("send", n), feedback[n])'
        /\ \A n \in DOMAIN feedback : n \in DOMAIN feedback'
    BY <2>1, <2>2, <2>3, FeedbackStep
  <2>5. /\ Count' = Count /\ Rid' = Rid /\ Count \in Nat /\ Open /\ Open' /\ pos \in Nat
        /\ \A a \in DOMAIN rows : a[4] \in Nat
    BY <2>2 DEF Count, Rid, Typed, Open, Acting
  <2>6. \A a \in DOMAIN rows' : a[1] = turn' /\ a[2] = index' =>
          \/ a[3] = "send" /\ a[4] \in DOMAIN feedback'
          \/ a[3] = "tool" /\ kind' = "tool" /\ a[4] < pos'
    BY <2>2, <2>4, <2>5 DEF Shaped
  <2>7. round'.calls = rounds'[Rid'].calls /\ pos' <= Count' + 1 /\ pos' >= 1
    BY <2>2, <2>4, <2>5 DEF Shaped
  <2>. QED
    BY <2>2, <2>4, <2>5, <2>6, <2>7 DEF Shaped
<1>12. CASE StartAction
  <2>1. /\ rows' = Inserted(rows, Current, "started") /\ pc = "acting" /\ pc' = "executing"
        /\ pos <= Count /\ UNCHANGED <<turn, index, round, kind, pos, feedback, rounds>>
    BY <1>12 DEF StartAction
  <2>2. /\ Current \notin DOMAIN rows /\ DOMAIN rows' = DOMAIN rows \cup {Current}
        /\ \A a \in DOMAIN rows : rows'[a] = rows[a]
        /\ rows'[Current] = "started"
    BY <2>1, CurrentFree DEF Inserted
  <2>3. Count' = Count /\ Rid' = Rid /\ Current' = Current /\ Open /\ Open'
        /\ \A n : Act("send", n)' = Act("send", n)
    BY <2>1 DEF Count, Rid, Open, Acting, Current, Act, ActionOf
  <2>4. ASSUME NEW n \in DOMAIN feedback PROVE Exact(Act("send", n), feedback[n])'
    <3>1. PICK a : a = Act("send", n)
      OBVIOUS
    <3>2. a # Current
      <4>1. kind = "send" => n \in 1..(pos - 1)
        BY <2>3 DEF Shaped
      <4>. QED
        BY <3>1, <4>1, CurrentFacts DEF Typed
    <3>3. Exact(a, feedback[n])
      BY <2>3, <3>1 DEF Shaped
    <3>4. Exact(a, feedback[n])'
      BY <2>1, <2>2, <3>2, <3>3 DEF Exact
    <3>. QED
      BY <2>1, <2>3, <3>1, <3>4
  <2>5. \A a \in DOMAIN rows' : a[1] = turn' /\ a[2] = index' =>
          \/ a = Current'
          \/ a[3] = "send" /\ a[4] \in DOMAIN feedback'
          \/ a[3] = "tool" /\ kind' = "tool" /\ a[4] < pos'
    BY <2>1, <2>2, <2>3 DEF Shaped
  <2>. QED
    BY <2>1, <2>2, <2>3, <2>4, <2>5 DEF Shaped
<1>13. CASE FinishAction
  <2>1. pc = "executing" /\ pc' = "acting" /\ UNCHANGED <<turn, index, round, kind, rounds>>
    BY <1>13 DEF FinishAction
  <2>2. Current \in DOMAIN rows /\ pos <= Count /\ Acting /\ Open /\ Open'
    BY <2>1 DEF Shaped, Open, Acting
  <2>3. PICK s \in Status \ {"started"} :
          /\ Note(s) /\ DOMAIN rows' = DOMAIN rows /\ rows'[Current] = s
          /\ \A a \in DOMAIN rows : a # Current => rows'[a] = rows[a]
    BY <1>13, <2>2, FinishFacts
  <2>4. s \in Said /\ s # "started"
    BY DEF Said
  <2>5. /\ feedback' \in Seq(Said) /\ pos' = pos + 1
        /\ kind = "send" => Len(feedback') = pos' - 1 /\ pos \in DOMAIN feedback'
        /\ \A n \in DOMAIN feedback' : Exact(Act("send", n), feedback[n])'
        /\ \A n \in DOMAIN feedback : n \in DOMAIN feedback'
    BY <2>1, <2>2, <2>3, <2>4, FeedbackStep
  <2>6. /\ Count' = Count /\ Rid' = Rid /\ Count \in Nat /\ pos \in Nat /\ kind \in Kinds
        /\ Current[3] = kind /\ Current[4] = pos
        /\ \A a \in DOMAIN rows : a[4] \in Nat
    BY <2>1, CurrentFacts DEF Count, Rid, Typed
  <2>7. \A a \in DOMAIN rows' : a[1] = turn' /\ a[2] = index' =>
          \/ a[3] = "send" /\ a[4] \in DOMAIN feedback'
          \/ a[3] = "tool" /\ kind' = "tool" /\ a[4] < pos'
    <3>. TAKE a \in DOMAIN rows'
    <3>1. CASE a = Current
      BY <2>1, <2>5, <2>6, <3>1 DEF Kinds
    <3>2. CASE a # Current
      BY <2>1, <2>2, <2>3, <2>5, <2>6, <3>2 DEF Shaped
    <3>. QED
      BY <3>1, <3>2
  <2>8. round'.calls = rounds'[Rid'].calls /\ pos' <= Count' + 1 /\ pos' >= 1
    BY <2>1, <2>2, <2>5, <2>6 DEF Shaped
  <2>. QED
    BY <2>1, <2>2, <2>5, <2>7, <2>8 DEF Shaped
<1>. QED
  BY <1>3, <1>4, <1>5, <1>6, <1>7, <1>8, <1>9, <1>10, <1>11, <1>12, <1>13 DEF Next, TurnStep

LEMMA PastFacts ==
  ASSUME Typed
  PROVE  IsFiniteSet(Past) /\ Cardinality(Past) \in Nat
<1>1. Past \subseteq DOMAIN rounds
  BY DEF Past
<1>. QED
  BY <1>1, FS_Subset, FS_CardinalityType DEF Typed

(* A step that leaves the rounds what they were leaves the count.          *)
LEMMA CountStays ==
  ASSUME Counted, DOMAIN rounds' = DOMAIN rounds,
         \A r \in DOMAIN rounds : rounds'[r].ok = rounds[r].ok /\ rounds'[r].calls = rounds[r].calls
  PROVE  /\ \A t \in Nat : Cardinality(Corrected(t)') <= MaxCorrections
         /\ turn' = turn /\ index' = index => Past' = Past
<1>1. \A r \in DOMAIN rounds : Correctable(r)' <=> Correctable(r)
  BY DEF Correctable
<1>2. \A t : Corrected(t)' = Corrected(t)
  BY <1>1 DEF Corrected
<1>3. turn' = turn /\ index' = index => Past' = Past
  BY <1>1 DEF Past
<1>. QED
  BY <1>2, <1>3 DEF Counted

(* The open round is left behind: it counts if it held nothing to answer.  *)
LEMMA CountOnward ==
  ASSUME Typed, Placed, Counted, Open, Onward, NEW messages, SaveRound(messages),
         pc' = "idle" => corrections' = 0,
         pc' = "top" => /\ corrections' <= MaxCorrections
                        /\ \/ corrections' = corrections /\ ~Correctable(Rid)
                           \/ corrections' = corrections + 1
  PROVE  Counted'
<1>. USE TurnAssumption
<1>1. Rid \in DOMAIN rounds /\ Rid = <<turn, index>> /\ pc # "idle"
  BY DEF Placed, Open, Acting, Rid
<1>2. /\ DOMAIN rounds' = DOMAIN rounds
      /\ \A r \in DOMAIN rounds :
           rounds'[r].ok = rounds[r].ok /\ rounds'[r].calls = rounds[r].calls
  <2>1. rounds' = [rounds EXCEPT ![Rid].finished = TRUE]
    BY DEF SaveRound
  <2>2. rounds[Rid] \in RoundRow
    BY <1>1 DEF Typed
  <2>. QED
    BY <1>1, <2>1, <2>2 DEF RoundRow
<1>3. \A t \in Nat : Cardinality(Corrected(t)') <= MaxCorrections
  BY <1>2, CountStays
<1>4. CASE pc' = "idle"
  BY <1>3, <1>4 DEF Counted
<1>5. CASE pc' = "top"
  <2>1. turn' = turn /\ index' = index + 1
    BY <1>5, EndFacts DEF Onward
  <2>2. \A r \in DOMAIN rounds : Correctable(r)' <=> Correctable(r)
    BY <1>2 DEF Correctable
  <2>3. \A r \in DOMAIN rounds : r[1] = turn => r[2] < index \/ r[2] = index
    BY <1>1 DEF Placed
  <2>4. \A r \in DOMAIN rounds : r = <<r[1], r[2]>> /\ r[2] \in Nat
    BY DEF Typed
  <2>5. index \in Nat /\ corrections \in Nat
    BY DEF Typed
  <2>6. Past' = IF Correctable(Rid) THEN Past \cup {Rid} ELSE Past
    BY <1>1, <1>2, <2>1, <2>2, <2>3, <2>4, <2>5 DEF Past
  <2>7. Rid \notin Past /\ IsFiniteSet(Past) /\ Cardinality(Past) \in Nat
    BY <1>1, <2>5, PastFacts DEF Past
  <2>8. Cardinality(Past \cup {Rid}) = Cardinality(Past) + 1
    BY <2>7, FS_AddElement
  <2>9. Cardinality(Past) <= corrections
    BY <1>1 DEF Counted
  <2>10. Cardinality(Past') <= corrections'
    BY <1>5, <2>5, <2>6, <2>7, <2>8, <2>9
  <2>. QED
    BY <1>3, <1>5, <2>10 DEF Counted
<1>. QED
  BY <1>4, <1>5, EndFacts DEF Onward

(* The corrections. *)
LEMMA CountedStep == Typed /\ Placed /\ Shaped /\ Counted /\ [Next]_vars => Counted'
<1>. SUFFICES ASSUME Typed, Placed, Shaped, Counted, [Next]_vars PROVE Counted'
  OBVIOUS
<1>. USE TurnAssumption
<1>1. ASSUME UNCHANGED <<corrections, turn, index, rounds>>, pc' # "idle" => pc # "idle"
      PROVE Counted'
  <2>1. /\ \A t \in Nat : Cardinality(Corrected(t)') <= MaxCorrections
        /\ Past' = Past
    BY <1>1, CountStays
  <2>. QED
    BY <1>1, <2>1 DEF Counted
<1>2. CASE RouteSilent \/ EndLoop \/ AskFails \/ LedgerFails
  <2>1. PICK s : End(s) /\ UNCHANGED ledger
    BY <1>2, Endings
  <2>2. pc' = "idle" /\ corrections' = 0
    BY <2>1, EndFacts
  <2>3. \A t \in Nat : Cardinality(Corrected(t)') <= MaxCorrections
    BY <2>1, CountStays
  <2>. QED
    BY <2>2, <2>3 DEF Counted
<1>3. CASE LoadHistory
  <2>1. pc' = "loaded" /\ turn' = turn + 1 /\ UNCHANGED <<rounds, corrections>>
    BY <1>3 DEF LoadHistory
  <2>2. turn \in Nat /\ \A r \in DOMAIN rounds : r[1] <= turn /\ r[1] \in Nat
    BY DEF Placed, Typed
  <2>3. Past' = {}
    BY <2>1, <2>2 DEF Past
  <2>4. Cardinality(Past') = 0
    BY <2>3, FS_EmptySet
  <2>5. \A t \in Nat : Cardinality(Corrected(t)') <= MaxCorrections
    BY <2>1, CountStays
  <2>6. corrections \in Nat
    BY DEF Typed
  <2>. QED
    BY <2>1, <2>4, <2>5, <2>6 DEF Counted
<1>4. CASE SaveLoaded
  BY <1>1, <1>4 DEF SaveLoaded
<1>5. CASE RouteGenerate
  BY <1>1, <1>5 DEF RouteGenerate
<1>6. CASE Refresh
  BY <1>1, <1>6 DEF Refresh
<1>7. ASSUME NEW shape \in Shape, RecordRound(shape) PROVE Counted'
  <2>1. /\ pc = "asking" /\ pc' # "idle"
        /\ DOMAIN rounds' = DOMAIN rounds \cup {Rid} /\ Rid \notin DOMAIN rounds
        /\ \A r \in DOMAIN rounds : rounds'[r] = rounds[r]
        /\ UNCHANGED <<turn, index, corrections>>
    BY <1>7, RecordFacts
  <2>2. Rid = <<turn, index>> /\ index \in Nat /\ turn \in Nat /\ corrections \in Nat
    BY DEF Rid, Typed
  <2>3. \A r \in DOMAIN rounds : /\ r = <<r[1], r[2]>> /\ r[2] \in Nat
                                 /\ r[1] = turn => r[2] < index
    BY <2>1 DEF Typed, Placed, Open, Acting
  <2>4. \A r \in DOMAIN rounds : Correctable(r)' <=> Correctable(r)
    BY <2>1 DEF Correctable
  <2>5. Past' = Past
    BY <2>1, <2>2, <2>3, <2>4 DEF Past
  <2>6. \A t : t # turn => Corrected(t)' = Corrected(t)
    BY <2>1, <2>2, <2>4 DEF Corrected
  <2>7. Corrected(turn)' \subseteq Past
    BY <2>1, <2>2, <2>3, <2>4 DEF Corrected, Past
  <2>8. IsFiniteSet(Past) /\ Cardinality(Past) <= corrections /\ corrections <= MaxCorrections
    BY <2>1, PastFacts DEF Counted
  <2>9. Cardinality(Corrected(turn)') <= Cardinality(Past) /\ Cardinality(Corrected(turn)') \in Nat
    BY <2>7, <2>8, FS_Subset, FS_CardinalityType
  <2>10. \A t \in Nat : Cardinality(Corrected(t)') <= MaxCorrections
    <3>. TAKE t \in Nat
    <3>1. CASE t = turn
      BY <2>1, <2>2, <2>8, <2>9, <3>1, PastFacts
    <3>2. CASE t # turn
      BY <2>6, <3>2 DEF Counted
    <3>. QED
      BY <3>1, <3>2
  <2>. QED
    BY <2>1, <2>5, <2>8, <2>10 DEF Counted
<1>8. CASE StartAction
  BY <1>1, <1>8 DEF StartAction
<1>9. CASE FinishAction
  BY <1>1, <1>9 DEF FinishAction
<1>10. CASE RoundDone
  <2>1. PICK messages : SaveRound(messages)
    BY <1>10, DoneFacts
  <2>2. Onward /\ Open /\ Rid \in DOMAIN rounds /\ rounds[Rid].ok
    BY <1>10, DoneFacts DEF Placed, Open, Acting
  <2>3. round.calls = rounds[Rid].calls /\ round.calls \in Nat
    BY <2>2 DEF Shaped, Typed
  <2>4. round.calls > 0 => ~Correctable(Rid)
    BY <2>2, <2>3 DEF Correctable
  <2>5. pc' = "idle" => corrections' = 0
    BY <2>2, EndFacts DEF Onward
  <2>6. pc' = "top" => /\ corrections' <= MaxCorrections
                       /\ \/ corrections' = corrections /\ ~Correctable(Rid)
                          \/ corrections' = corrections + 1
    BY <1>10, <2>4, DoneFacts DEF Counted
  <2>. QED
    BY <2>1, <2>2, <2>5, <2>6, CountOnward
<1>11. CASE Malformed
  <2>1. PICK messages : SaveRound(messages)
    BY <1>11, MalformedFacts
  <2>2. Onward /\ Open
    BY <1>11, MalformedFacts DEF Open
  <2>3. pc' = "idle" => corrections' = 0
    BY <2>2, EndFacts DEF Onward
  <2>4. pc' = "top" => corrections' <= MaxCorrections /\ corrections' = corrections + 1
    BY <1>11, MalformedFacts
  <2>. QED
    BY <2>1, <2>2, <2>3, <2>4, CountOnward
<1>12. CASE Crash
  <2>1. pc' = "idle" /\ corrections' = 0 /\ UNCHANGED rounds
    BY <1>12 DEF Crash, LeaveTurn
  <2>2. \A t \in Nat : Cardinality(Corrected(t)') <= MaxCorrections
    BY <2>1, CountStays
  <2>. QED
    BY <2>1, <2>2 DEF Counted
<1>13. CASE SkipAction \/ RefuseAction \/ SendsDone \/ Inbound \/ Cancel \/ Recover
  BY <1>1, <1>13 DEF SkipAction, RefuseAction, SendsDone, Inbound, Cancel, Recover
<1>14. CASE UNCHANGED vars
  BY <1>1, <1>14 DEF vars
<1>. QED
  BY <1>2, <1>3, <1>4, <1>5, <1>6, <1>7, <1>8, <1>9, <1>10, <1>11, <1>12, <1>13, <1>14 DEF
       Next, TurnStep

-----------------------------------------------------------------------------
(* The transcripts of the open round.                                      *)

LEMMA BeginsFacts ==
  ASSUME Typed
  PROVE  Begins \in Msg /\ Begins = Message("assistant", Rid, <<>>)
<1>1. Rid \in Ref /\ <<>> \in Seq(Said)
  BY DEF Rid, Ref, Typed
<1>. QED
  BY <1>1 DEF Begins, Msg, Message

LEMMA AnswerFacts ==
  ASSUME Typed, NEW n \in Nat, NEW s \in Said
  PROVE  LET m == Message("tool", Act("tool", n), <<s>>)
         IN m \in Msg /\ m.kind = "tool" /\ m.ref = Act("tool", n) /\ m.say = <<s>> /\ m.say[1] = s
<1>1. Act("tool", n) \in Ref /\ <<s>> \in Seq(Said) /\ <<s>>[1] = s
  BY CurrentFacts DEF Ref, Typed, Kinds
<1>. QED
  BY <1>1 DEF Message, Msg

(* Sequences, put together in another order. *)
LEMMA AppendToEnd ==
  ASSUME NEW a \in Seq(Msg), NEW b \in Seq(Msg), NEW x \in Msg
  PROVE  Append(a \o b, x) = a \o Append(b, x)
<1>1. a \o b \in Seq(Msg) /\ <<x>> \in Seq(Msg)
  BY ConcatProperties
<1>2. Append(a \o b, x) = (a \o b) \o <<x>>
  BY <1>1, AppendIsConcat
<1>3. Append(b, x) = b \o <<x>>
  BY AppendIsConcat
<1>4. (a \o b) \o <<x>> = a \o (b \o <<x>>)
  BY <1>1, ConcatAssociative
<1>. QED
  BY <1>2, <1>3, <1>4

LEMMA AppendNative ==
  ASSUME NEW base \in Seq(Msg), NEW h \in Seq(Msg), NEW told \in Seq(Msg), NEW m \in Msg
  PROVE  Append(base \o (h \o told), m) = base \o (h \o Append(told, m))
<1>1. h \o told \in Seq(Msg)
  BY ConcatProperties
<1>2. Append(base \o (h \o told), m) = base \o Append(h \o told, m)
  BY <1>1, AppendToEnd
<1>3. Append(h \o told, m) = h \o Append(told, m)
  BY AppendToEnd
<1>. QED
  BY <1>2, <1>3

LEMMA Appended ==
  ASSUME NEW told \in Seq(Msg), NEW m \in Msg, NEW more, more = Append(told, m)
  PROVE  /\ more \in Seq(Msg) /\ Len(more) = Len(told) + 1
         /\ DOMAIN more = 1..(Len(told) + 1) /\ DOMAIN told = 1..Len(told)
         /\ more[Len(told) + 1] = m
         /\ \A n \in DOMAIN told : more[n] = told[n]
OBVIOUS

(* The calls answered so far stay answered. *)
LEMMA AnsweredLasts ==
  ASSUME Grown, NEW told, Answered(told), UNCHANGED <<turn, index>>,
         \A n \in DOMAIN told : Bygone(Act("tool", n))
  PROVE  Answered(told)'
<1>1. \A n : Act("tool", n)' = Act("tool", n)
  BY DEF Act, ActionOf, Rid
<1>2. ASSUME NEW n \in DOMAIN told
      PROVE  \E s \in Said : told[n] = Message("tool", Act("tool", n)', <<s>>) /\ Exact(Act("tool", n), s)'
  <2>1. PICK s \in Said : told[n] = Message("tool", Act("tool", n), <<s>>) /\ Exact(Act("tool", n), s)
    BY DEF Answered
  <2>2. PICK a : a = Act("tool", n)
    OBVIOUS
  <2>3. /\ a \in DOMAIN rows' <=> a \in DOMAIN rows
        /\ a \in DOMAIN rows => rows'[a] = rows[a] \/ (rows[a] = "started" /\ rows'[a] = "unknown")
    BY <2>2 DEF Grown, Bygone
  <2>4. Exact(a, s)'
    BY <2>1, <2>2, <2>3 DEF Exact
  <2>5. a = Act("tool", n)'
    BY <1>1, <2>2
  <2>. QED
    BY <2>1, <2>2, <2>4, <2>5
<1>. QED
  BY <1>2 DEF Answered

LEMMA InRoundLasts ==
  ASSUME Grown, NEW m, NEW k \in Nat, InRound(m, k), Before' = Before, UNCHANGED <<turn, index>>,
         \A n \in 1..k : Bygone(Act("tool", n))
  PROVE  InRound(m, k)'
<1>1. PICK base, told : Sound(base, Before) /\ Answered(told) /\ Len(told) = k /\ m = base \o Native(told)
  BY DEF InRound
<1>2. PICK C : C = Before
  OBVIOUS
<1>3. Sound(base, C)'
  BY <1>1, <1>2, Lasts
<1>4. Sound(base, Before)'
  BY <1>2, <1>3
<1>5. DOMAIN told = 1..k
  BY <1>1 DEF Answered
<1>6. Answered(told)'
  BY <1>1, <1>5, AnsweredLasts
<1>7. Native(told)' = Native(told)
  BY DEF Native, Begins, Rid
<1>. QED
  BY <1>1, <1>4, <1>6, <1>7 DEF InRound

(* One more answer. *)
LEMMA InRoundAppends ==
  ASSUME Typed, Grown, NEW m, NEW k \in Nat, NEW s \in Said, InRound(m, k), Before' = Before,
         UNCHANGED <<turn, index>>, \A n \in 1..k : Bygone(Act("tool", n)),
         Exact(Act("tool", k + 1), s)'
  PROVE  InRound(Append(m, Message("tool", Act("tool", k + 1), <<s>>)), k + 1)'
<1>1. PICK base, told : Sound(base, Before) /\ Answered(told) /\ Len(told) = k /\ m = base \o Native(told)
  BY DEF InRound
<1>2. PICK C : C = Before
  OBVIOUS
<1>3. Sound(base, C)'
  BY <1>1, <1>2, Lasts
<1>4. Sound(base, Before)'
  BY <1>2, <1>3
<1>5. DOMAIN told = 1..k /\ told \in Seq(Msg) /\ base \in Seq(Msg)
  BY <1>1 DEF Answered, Sound
<1>6. Answered(told)'
  BY <1>1, <1>5, AnsweredLasts
<1>7. \A t : Native(t)' = Native(t)
  BY DEF Native, Begins, Rid
<1>8. \A n : Act("tool", n)' = Act("tool", n)
  BY DEF Act, ActionOf, Rid
<1>9. PICK x : x = Message("tool", Act("tool", k + 1), <<s>>)
  OBVIOUS
<1>10. x \in Msg
  BY <1>9, AnswerFacts
<1>. PICK more : more = Append(told, x)
  OBVIOUS
<1>11. /\ Append(m, x) = base \o Native(more)
       /\ more \in Seq(Msg) /\ Len(more) = k + 1 /\ DOMAIN more = 1..(k + 1)
       /\ more[k + 1] = x /\ \A n \in DOMAIN told : more[n] = told[n]
  <2>. PICK h : h = <<Begins>>
    OBVIOUS
  <2>1. h \in Seq(Msg)
    BY BeginsFacts
  <2>2. Append(base \o (h \o told), x) = base \o (h \o more)
    BY <1>5, <1>10, <2>1, AppendNative
  <2>3. \A t : Native(t) = h \o t
    BY DEF Native
  <2>4. Append(m, x) = base \o Native(more)
    BY <1>1, <2>2, <2>3
  <2>5. /\ more \in Seq(Msg) /\ Len(more) = k + 1 /\ DOMAIN more = 1..(k + 1)
        /\ more[k + 1] = x /\ \A n \in DOMAIN told : more[n] = told[n]
    BY <1>1, <1>5, <1>10, Appended
  <2>. QED
    BY <2>4, <2>5
<1>13. ASSUME NEW n \in DOMAIN more
       PROVE  \E t \in Said : more[n] = Message("tool", Act("tool", n)', <<t>>) /\ Exact(Act("tool", n), t)'
  <2>1. CASE n \in DOMAIN told
    BY <1>6, <1>11, <2>1 DEF Answered
  <2>2. CASE n \notin DOMAIN told
    <3>1. n = k + 1
      BY <1>5, <1>11, <1>13, <2>2
    <3>. QED
      BY <1>8, <1>9, <1>11, <3>1
  <2>. QED
    BY <2>1, <2>2
<1>14. Answered(more)'
  BY <1>11, <1>13 DEF Answered
<1>15. Append(m, x) = base \o Native(more)'
  BY <1>7, <1>11
<1>16. Len(more) = k + 1
  BY <1>11
<1>17. InRound(Append(m, x), k + 1)'
  BY <1>4, <1>14, <1>15, <1>16 DEF InRound
<1>18. x = Message("tool", Act("tool", k + 1), <<s>>)'
  BY <1>8, <1>9
<1>. QED
  BY <1>17, <1>18

(* The round begins. *)
LEMMA InRoundBegins ==
  ASSUME Typed, NEW m \in Seq(Msg), Sound(m, Before)', UNCHANGED <<turn, index>>
  PROVE  InRound(Append(m, Begins), 0)'
<1>1. Begins \in Msg
  BY BeginsFacts
<1>2. Append(m, Begins) = m \o Native(<<>>)
  BY <1>1 DEF Native
<1>3. Native(<<>>)' = Native(<<>>) /\ Begins' = Begins
  BY DEF Native, Begins, Rid
<1>4. Answered(<<>>)' /\ Len(<<>>) = 0
  BY DEF Answered
<1>. QED
  BY <1>2, <1>3, <1>4 DEF InRound

(* The events of rounds are told of by no message of their own. *)
LEMMA Enlarged ==
  ASSUME NEW m, NEW C, NEW x, Sound(m, C)', x \in Seqs', log'[x].kind \notin {"inbound", "result"}
  PROVE  Sound(m, C \cup {x})'
<1>1. Facts(m, C)' /\ Results(m, C)'
  BY DEF Sound
<1>2. Facts(m, C \cup {x})'
  BY <1>1 DEF Facts
<1>3. Results(m, C \cup {x})'
  BY <1>1 DEF Results
<1>. QED
  BY <1>2, <1>3 DEF Sound

-----------------------------------------------------------------------------
(* The round that is done.                                                 *)

OwnOf(k) == {e \in Own : log[e].ref[3] = k}

LEMMA ExactAgrees ==
  ASSUME Typed, NEW a, NEW s, Exact(a, s)
  PROVE  Agrees(a, s)
<1>1. CASE a \in DOMAIN rows
  BY <1>1, RowAgrees DEF Exact
<1>2. CASE a \notin DOMAIN rows
  BY <1>2 DEF Exact, Agrees
<1>. QED
  BY <1>1, <1>2

(* The results of the open round are those of its rows. *)
LEMMA OwnFacts ==
  ASSUME Typed, Recorded
  PROVE  /\ Own = OwnOf("send") \cup OwnOf("tool") /\ OwnOf("send") \cap OwnOf("tool") = {}
         /\ OwnOf("send") \subseteq Seqs /\ OwnOf("tool") \subseteq Seqs
         /\ \A e \in Own : /\ log[e].kind = "result" /\ log[e].ref \in DOMAIN rows
                           /\ rows[log[e].ref] = log[e].say
                           /\ log[e].ref[4] \in Nat /\ log[e].ref[4] >= 1
                           /\ log[e].ref = Act(log[e].ref[3], log[e].ref[4])
<1>1. \A e \in Own : /\ log[e].kind = "result" /\ log[e].ref \in DOMAIN rows
                     /\ rows[log[e].ref] = log[e].say /\ log[e].ref[4] >= 1
                     /\ log[e].ref[1] = turn /\ log[e].ref[2] = index
  BY DEF Own, Recorded
<1>2. \A a \in DOMAIN rows : a \in Action
  BY DEF Typed, Action
<1>3. \A a \in Action : a = <<a[1], a[2], a[3], a[4]>> /\ a[3] \in Kinds /\ a[4] \in Nat
  BY DEF Action
<1>4. \A k, n : Act(k, n) = <<turn, index, k, n>>
  BY CurrentFacts
<1>5. \A e \in Own : /\ log[e].ref[3] \in Kinds /\ log[e].ref[4] \in Nat
                     /\ log[e].ref = Act(log[e].ref[3], log[e].ref[4])
  <2>. TAKE e \in Own
  <2>. PICK a : a = log[e].ref
    OBVIOUS
  <2>1. a \in Action /\ a[1] = turn /\ a[2] = index
    BY <1>1, <1>2
  <2>2. a = <<turn, index, a[3], a[4]>> /\ a[3] \in Kinds /\ a[4] \in Nat
    BY <1>3, <2>1
  <2>3. a = Act(a[3], a[4])
    BY <1>4, <2>2
  <2>. QED
    BY <2>2, <2>3
<1>6. Own \subseteq Seqs
  BY DEF Own
<1>. QED
  BY <1>1, <1>5, <1>6 DEF OwnOf, Kinds

(* Everything of a round whose calls are over has been told. *)
LEMMA OverFacts ==
  ASSUME Typed, Placed, Shaped, pc = "acting", kind = "tool", pos > round.calls
  PROVE  /\ pos - 1 = round.calls /\ round.calls = rounds[Rid].calls /\ Rid \in DOMAIN rounds
         /\ \A n \in Nat : Bygone(Act("send", n))
         /\ \A n \in 1..round.calls : Bygone(Act("tool", n))
<1>1. Open /\ Acting /\ Rid \in DOMAIN rounds /\ round.calls = rounds[Rid].calls /\ pos <= Count + 1
  BY DEF Open, Acting, Placed, Shaped
<1>2. pos - 1 = round.calls
  BY <1>1 DEF Count, Typed
<1>3. \A k \in Kinds, n \in Nat :
        LET a == Act(k, n)
        IN a \in Action /\ a[1] = turn /\ a[2] = index /\ a[3] = k /\ a[4] = n /\ <<a[1], a[2]>> = Rid
  BY CurrentFacts DEF Action, Typed
<1>4. \A n \in Nat : Bygone(Act("send", n))
  BY <1>1, <1>3 DEF Bygone, Ahead, Kinds
<1>5. ASSUME NEW n \in 1..round.calls PROVE Bygone(Act("tool", n))
  <2>1. n \in Nat /\ ~(n >= pos)
    BY <1>2 DEF Typed
  <2>. QED
    BY <1>1, <1>3, <2>1 DEF Bygone, Ahead, Kinds
<1>. QED
  BY <1>1, <1>2, <1>4, <1>5

LEMMA SentNoteSound ==
  ASSUME Typed, Placed, Recorded, Shaped, pc = "acting", kind = "tool", pos > round.calls
  PROVE  Sound(SentNote, OwnOf("send"))
<1>1. \A e \in OwnOf("send") : /\ e \in Own /\ e \in Seqs /\ log[e].kind = "result"
                               /\ log[e].ref \in DOMAIN rows /\ rows[log[e].ref] = log[e].say
                               /\ log[e].ref = Act("send", log[e].ref[4]) /\ log[e].ref[3] = "send"
  BY OwnFacts DEF OwnOf
<1>2. \A e \in OwnOf("send") : log[e].ref[1] = turn /\ log[e].ref[2] = index
  BY DEF OwnOf, Own
<1>3. ASSUME NEW e \in OwnOf("send")
      PROVE  log[e].ref[4] \in DOMAIN feedback /\ feedback[log[e].ref[4]] = log[e].say
  <2>. PICK n : n = log[e].ref[4]
    OBVIOUS
  <2>1. n \in DOMAIN feedback
    BY <1>1, <1>2 DEF Shaped, Open, Acting
  <2>2. Exact(Act("send", n), feedback[n])
    BY <2>1 DEF Shaped, Open, Acting
  <2>. QED
    BY <1>1, <2>1, <2>2 DEF Exact
<1>4. feedback \in Seq(Said) /\ DOMAIN feedback \subseteq Nat
  BY DEF Shaped
<1>5. CASE feedback = <<>>
  <2>1. OwnOf("send") = {} /\ SentNote = <<>>
    BY <1>3, <1>5 DEF SentNote
  <2>. QED
    BY <2>1, Wordless
<1>6. CASE feedback # <<>>
  <2>. PICK m : m = Message("sends", Rid, feedback)
    OBVIOUS
  <2>1. Rid \in Ref /\ Rid \in Nat \X Nat /\ Rid = <<turn, index>>
    BY DEF Rid, Ref, Typed
  <2>2. m \in Msg /\ m.kind = "sends" /\ m.ref = Rid /\ m.say = feedback
    BY <1>4, <2>1 DEF Message, Msg
  <2>3. ASSUME NEW n \in DOMAIN feedback PROVE Told(ActionOf(Rid, "send", n), feedback[n])
    <3>1. Exact(Act("send", n), feedback[n])
      BY DEF Shaped, Open, Acting
    <3>2. Bygone(Act("send", n))
      BY <1>4, OverFacts
    <3>. QED
      BY <3>1, <3>2, ExactAgrees DEF Told, Act
  <2>4. Fit(m)
    BY <2>1, <2>2, <2>3 DEF Fit
  <2>5. \A e \in OwnOf("send") : Tells(m, e)
    BY <1>1, <1>2, <1>3, <2>1, <2>2 DEF Tells
  <2>6. Sound(<<m>>, OwnOf("send"))
    BY <1>1, <2>2, <2>4, <2>5, Single
  <2>7. SentNote = <<m>>
    BY <1>6 DEF SentNote
  <2>. QED
    BY <2>6, <2>7
<1>. QED
  BY <1>5, <1>6

LEMMA NativeSound ==
  ASSUME Typed, Placed, Recorded, Shaped, pc = "acting", kind = "tool", pos > round.calls,
         NEW told, Answered(told), Len(told) = round.calls
  PROVE  Sound(Native(told), OwnOf("tool"))
<1>1. \A e \in OwnOf("tool") : /\ e \in Own /\ e \in Seqs /\ log[e].kind = "result"
                               /\ log[e].ref \in DOMAIN rows /\ rows[log[e].ref] = log[e].say
                               /\ log[e].ref = Act("tool", log[e].ref[4]) /\ log[e].ref[3] = "tool"
                               /\ log[e].ref[4] \in Nat /\ log[e].ref[4] >= 1
                               /\ log[e].ref[1] = turn /\ log[e].ref[2] = index
  BY OwnFacts DEF OwnOf, Own
<1>2. told \in Seq(Msg) /\ DOMAIN told = 1..round.calls
  BY DEF Answered
<1>3. /\ pos - 1 = round.calls /\ round.calls = rounds[Rid].calls /\ Rid \in DOMAIN rounds
      /\ \A n \in 1..round.calls : Bygone(Act("tool", n))
  BY OverFacts
<1>4. ASSUME NEW n \in DOMAIN told
      PROVE  \E s \in Said : /\ told[n].kind = "tool" /\ told[n].ref = Act("tool", n)
                             /\ told[n].say = <<s>> /\ told[n].say[1] = s
                             /\ Exact(Act("tool", n), s) /\ Told(Act("tool", n), s)
  <2>1. PICK s \in Said : told[n] = Message("tool", Act("tool", n), <<s>>) /\ Exact(Act("tool", n), s)
    BY DEF Answered
  <2>2. Told(Act("tool", n), s)
    BY <1>2, <1>3, <2>1, ExactAgrees DEF Told
  <2>. QED
    BY <2>1, <2>2 DEF Message
<1>5. \A n \in DOMAIN told : /\ told[n].kind = "tool" /\ told[n].ref = ActionOf(Rid, "tool", n)
                             /\ Told(told[n].ref, told[n].say[1])
  BY <1>4 DEF Act
<1>. PICK m : m = <<Message("assistant", Rid, <<>>)>> \o told
  OBVIOUS
<1>6. /\ m \in Seq(Msg) /\ Paired(m) /\ Truthful(m)
      /\ \A i \in DOMAIN m : m[i].kind # "user"
      /\ \A n \in DOMAIN told : n + 1 \in DOMAIN m /\ m[n + 1] = told[n]
  BY <1>2, <1>3, <1>5, NativePairs
<1>7. Facts(m, OwnOf("tool"))
  BY <1>1, <1>6 DEF Facts
<1>8. ASSUME NEW e \in OwnOf("tool") PROVE \E i \in DOMAIN m : Tells(m[i], e)
  <2>. PICK n : n = log[e].ref[4]
    OBVIOUS
  <2>1. n \in DOMAIN told
    <3>1. n < pos
      BY <1>1 DEF Shaped, Open, Acting
    <3>. QED
      BY <1>1, <1>2, <1>3, <3>1 DEF Typed
  <2>2. PICK s \in Said : /\ told[n].kind = "tool" /\ told[n].ref = Act("tool", n)
                          /\ told[n].say = <<s>> /\ Exact(Act("tool", n), s)
    BY <1>4, <2>1
  <2>3. s = log[e].say
    BY <1>1, <2>2 DEF Exact
  <2>4. Tells(told[n], e)
    BY <1>1, <2>2, <2>3 DEF Tells
  <2>. QED
    BY <1>6, <2>1, <2>4
<1>9. Results(m, OwnOf("tool"))
  BY <1>8 DEF Results
<1>10. Sound(m, OwnOf("tool"))
  BY <1>1, <1>6, <1>7, <1>9 DEF Sound
<1>11. Native(told) = m
  BY DEF Native, Begins
<1>. QED
  BY <1>10, <1>11

(* What is saved of a round that is done, and what the next request holds. *)
LEMMA RoundTold ==
  ASSUME Typed, Placed, Saved, Recorded, Shaped, Transcripts,
         pc = "acting", kind = "tool", pos > round.calls
  PROVE  Sound(history.messages \o SentNote, Covered) /\ Sound(live \o SentNote, Covered)
<1>1. Open /\ pos - 1 = round.calls
  BY OverFacts DEF Open, Acting
<1>2. Covered = (Before \cup OwnOf("tool")) \cup OwnOf("send")
      /\ Before \cap OwnOf("tool") = {} /\ (Before \cup OwnOf("tool")) \cap OwnOf("send") = {}
  <2>1. Own \subseteq Covered
    BY <1>1, OwnFacts DEF Own, Saved, Covered
  <2>. QED
    BY <2>1, OwnFacts DEF Before
<1>3. ASSUME NEW m, InRound(m, round.calls) PROVE Sound(m, Before \cup OwnOf("tool"))
  <2>1. PICK base, told : Sound(base, Before) /\ Answered(told) /\ Len(told) = round.calls
                          /\ m = base \o Native(told)
    BY <1>3 DEF InRound
  <2>2. Sound(Native(told), OwnOf("tool"))
    BY <2>1, NativeSound
  <2>. QED
    BY <1>2, <2>1, <2>2, Joined
<1>4. ASSUME NEW m, Sound(m, Before \cup OwnOf("tool")) PROVE Sound(m \o SentNote, Covered)
  BY <1>2, <1>4, SentNoteSound, Joined
<1>5. InRound(live, round.calls)
  BY <1>1 DEF Transcripts
<1>6. Sound(history.messages, Before \cup OwnOf("tool"))
  <2>1. CASE round.calls > 0
    <3>1. InRound(history.messages, round.calls)
      BY <1>1, <2>1 DEF Transcripts
    <3>. QED
      BY <1>3, <3>1
  <2>2. CASE ~(round.calls > 0)
    <3>1. Sound(history.messages, Before)
      BY <1>1, <2>2 DEF Transcripts
    <3>2. OwnOf("tool") = {}
      <4>. SUFFICES ASSUME NEW e \in OwnOf("tool") PROVE FALSE
        OBVIOUS
      <4>1. /\ log[e].ref[4] \in Nat /\ log[e].ref[4] >= 1 /\ log[e].ref \in DOMAIN rows
            /\ log[e].ref[1] = turn /\ log[e].ref[2] = index /\ log[e].ref[3] = "tool"
        BY OwnFacts DEF OwnOf, Own
      <4>2. log[e].ref[4] < pos
        BY <4>1 DEF Shaped, Open, Acting
      <4>. QED
        BY <1>1, <2>2, <4>1, <4>2 DEF Typed
    <3>. QED
      BY <3>1, <3>2
  <2>. QED
    BY <2>1, <2>2
<1>. QED
  BY <1>3, <1>4, <1>5, <1>6

(* What is saved of a round whose content did not parse.                   *)
Rejections == [n \in 1..round.calls |-> Message("tool", Act("tool", n), <<"rejected">>)]
Proposed == IF round.calls = 0 THEN <<>> ELSE <<Message("assistant", Rid, <<>>)>>
Observed == <<Message("error", Rid, <<>>)>>

LEMMA Associative ==
  ASSUME NEW a \in Seq(Msg), NEW b \in Seq(Msg), NEW c \in Seq(Msg)
  PROVE  (a \o b) \o c = a \o (b \o c)
OBVIOUS

LEMMA MalformedTold ==
  ASSUME Typed, Placed, Recorded, Shaped, Transcripts, pc = "malformed"
  PROVE  /\ Sound(history.messages \o Proposed \o Rejections \o Observed, Covered)
         /\ Sound(live \o (Rejections \o Observed), Covered)
<1>1. /\ Open /\ ~Acting /\ kind = "send" /\ Rid \in DOMAIN rounds /\ ~rounds[Rid].ok
      /\ round.calls = rounds[Rid].calls /\ round.calls \in Nat
  BY DEF Open, Acting, Placed, Shaped, Typed
<1>2. \A a \in DOMAIN rows : ~(a[1] = turn /\ a[2] = index)
  BY <1>1 DEF Placed, Rid
<1>3. Own = {}
  BY <1>2 DEF Own, Recorded
<1>4. Covered = Before
  BY <1>3 DEF Before
<1>. PICK calls : calls = Rejections
  OBVIOUS
<1>5. /\ calls \in Seq(Msg) /\ Len(calls) = round.calls /\ DOMAIN calls = 1..round.calls
      /\ \A n \in DOMAIN calls : /\ calls[n].kind = "tool" /\ calls[n].ref = ActionOf(Rid, "tool", n)
                                 /\ Told(calls[n].ref, calls[n].say[1])
  <2>1. "rejected" \in Said
    BY DEF Said, Status
  <2>2. ASSUME NEW n \in 1..round.calls
        PROVE  LET m == Message("tool", Act("tool", n), <<"rejected">>)
               IN /\ m \in Msg /\ m.kind = "tool" /\ m.ref = Act("tool", n) /\ m.say[1] = "rejected"
                  /\ Told(Act("tool", n), "rejected")
    <3>. PICK a : a = Act("tool", n)
      OBVIOUS
    <3>1. a = <<turn, index, "tool", n>> /\ a \in Action
      BY CurrentFacts DEF Action, Typed, Kinds
    <3>2. Bygone(a)
      BY <1>1, <3>1, CurrentFacts DEF Bygone, Ahead
    <3>3. a \notin DOMAIN rows
      BY <1>2, <3>1
    <3>4. Told(a, "rejected")
      BY <3>2, <3>3 DEF Told, Agrees
    <3>. QED
      BY <2>1, <3>4, AnswerFacts
  <2>3. /\ DOMAIN calls = 1..round.calls
        /\ \A n \in 1..round.calls : calls[n] = Message("tool", Act("tool", n), <<"rejected">>)
    BY DEF Rejections
  <2>4. \A n \in 1..round.calls : calls[n] \in Msg
    BY <2>2, <2>3
  <2>5. calls = [n \in 1..round.calls |-> calls[n]]
    BY DEF Rejections
  <2>6. calls \in [1..round.calls -> Msg]
    BY <2>4, <2>5
  <2>7. calls \in Seq(Msg) /\ Len(calls) = round.calls
    BY <1>1, <2>6
  <2>. QED
    BY <2>2, <2>3, <2>7 DEF Act
<1>. PICK b : b = <<Message("assistant", Rid, <<>>)>>
  OBVIOUS
<1>6. b \in Seq(Msg)
  BY BeginsFacts
<1>7. Sound(b \o calls, {})
  <2>. PICK m : m = b \o calls
    OBVIOUS
  <2>1. m \in Seq(Msg) /\ Paired(m) /\ Truthful(m) /\ \A i \in DOMAIN m : m[i].kind # "user"
    <3>1. Len(calls) = rounds[Rid].calls
      BY <1>1, <1>5
    <3>. QED
      BY <1>1, <1>5, <3>1, NativePairs
  <2>2. Sound(m, {})
    BY <2>1 DEF Sound, Facts, Results
  <2>. QED
    BY <2>2
<1>. PICK x : x = Message("error", Rid, <<>>)
  OBVIOUS
<1>8. x \in Msg /\ x.kind = "error"
  <2>1. Rid \in Ref /\ <<>> \in Seq(Said)
    BY DEF Rid, Ref, Typed
  <2>. QED
    BY <2>1 DEF Message, Msg
<1>9. Fit(x)
  BY <1>8 DEF Fit
<1>. PICK y : y = <<x>>
  OBVIOUS
<1>10. Sound(y, {}) /\ y \in Seq(Msg)
  BY <1>8, <1>9, Single
<1>11. ASSUME NEW base, Sound(base, Before)
       PROVE  Sound((base \o (b \o calls)) \o y, Covered)
  <2>1. Sound(base \o (b \o calls), Before \cup {})
    BY <1>7, <1>11, Joined
  <2>2. Sound((base \o (b \o calls)) \o y, (Before \cup {}) \cup {})
    BY <1>10, <2>1, Joined
  <2>3. (Before \cup {}) \cup {} = Covered
    BY <1>4
  <2>. QED
    BY <2>2, <2>3
<1>12. Sound(live \o (calls \o y), Covered)
  <2>1. InRound(live, 0)
    BY <1>1 DEF Transcripts
  <2>2. PICK base, told : Sound(base, Before) /\ Answered(told) /\ Len(told) = 0 /\ live = base \o Native(told)
    BY <2>1 DEF InRound
  <2>3. told = <<>>
    BY <2>2 DEF Answered
  <2>4. Native(told) = b
    BY <1>6, <2>3 DEF Native, Begins
  <2>5. base \in Seq(Msg)
    BY <2>2 DEF Sound
  <2>6. base \o b \in Seq(Msg)
    BY <1>6, <2>5, ConcatProperties
  <2>7. ((base \o b) \o calls) \o y = (base \o b) \o (calls \o y)
    BY <1>5, <1>10, <2>6, Associative
  <2>8. (base \o b) \o calls = base \o (b \o calls)
    BY <1>5, <1>6, <2>5, Associative
  <2>9. Sound((base \o (b \o calls)) \o y, Covered)
    BY <1>11, <2>2
  <2>. QED
    BY <2>2, <2>4, <2>7, <2>8, <2>9
<1>13. Sound(history.messages \o Proposed \o calls \o y, Covered)
  <2>1. Sound(history.messages, Before)
    BY <1>1 DEF Transcripts
  <2>. PICK m : m = history.messages
    OBVIOUS
  <2>2. m \in Seq(Msg) /\ Sound(m, Before)
    BY <2>1 DEF Sound
  <2>3. CASE round.calls = 0
    <3>1. calls = <<>> /\ Proposed = <<>>
      BY <1>5, <2>3 DEF Proposed
    <3>2. m \o <<>> \o <<>> = m
      BY <2>2
    <3>3. Sound(m \o y, Before \cup {})
      BY <1>10, <2>2, Joined
    <3>4. Before \cup {} = Covered
      BY <1>4
    <3>. QED
      BY <3>1, <3>2, <3>3, <3>4
  <2>4. CASE round.calls # 0
    <3>1. Proposed = b
      BY <2>4 DEF Proposed
    <3>2. (m \o b) \o calls = m \o (b \o calls)
      <4>1. m \in Seq(Msg) /\ b \in Seq(Msg) /\ calls \in Seq(Msg)
        BY <1>5, <1>6, <2>2
      <4>. QED
        BY <4>1, Associative
    <3>3. Sound((m \o (b \o calls)) \o y, Covered)
      BY <1>11, <2>2
    <3>4. Sound(((m \o b) \o calls) \o y, Covered)
      BY <3>2, <3>3
    <3>. QED
      BY <3>1, <3>4
  <2>. QED
    BY <2>3, <2>4
<1>14. Observed = y
  BY DEF Observed
<1>. QED
  BY <1>12, <1>13, <1>14

-----------------------------------------------------------------------------
(* Transcripts, step by step.                                              *)

(* A turn that is over keeps only what is stored. *)
LEMMA Apart ==
  ASSUME Grown, Transcripts, UNCHANGED <<stored, projected>>, pc' = "idle", history'.ids \subseteq Seqs'
  PROVE  Transcripts'
<1>1. PICK m, C : m = stored /\ C = projected
  OBVIOUS
<1>2. Sound(m, C)'
  BY <1>1, Lasts DEF Transcripts
<1>3. Sound(stored, projected)'
  BY <1>1, <1>2
<1>. QED
  BY <1>3 DEF Transcripts, Open, Acting

(* The results of the open round are what its transcripts tell apart.      *)
LEMMA BeforeLasts ==
  ASSUME Grown, Transcripts, UNCHANGED <<turn, index, projected>>, NEW X,
         history'.ids = history.ids \cup X, X \subseteq Own' \ Seqs
  PROVE  Before' = Before /\ history'.ids \subseteq Seqs'
<1>1. Covered \subseteq Seqs /\ Covered' = Covered \cup X /\ history.ids \subseteq Seqs
  BY DEF Transcripts, Sound, Covered
<1>2. /\ \A e \in Seqs : e \in Own' <=> e \in Own
      /\ Own' \subseteq Seqs' /\ Seqs \subseteq Seqs'
  BY DEF Own, Grown
<1>. QED
  BY <1>1, <1>2 DEF Before

(* The calls of the open round that are over never start. *)
LEMMA OverBygone ==
  ASSUME Typed, Placed, Acting, kind = "tool"
  PROVE  \A n \in 1..(pos - 1) : Bygone(Act("tool", n))
<1>1. Rid \in DOMAIN rounds
  BY DEF Placed, Open
<1>2. ASSUME NEW n \in 1..(pos - 1) PROVE Bygone(Act("tool", n))
  <2>1. n \in Nat /\ ~(n >= pos)
    BY DEF Typed
  <2>2. LET a == Act("tool", n)
        IN a \in Action /\ a[3] = "tool" /\ a[4] = n /\ <<a[1], a[2]>> = Rid
    BY <2>1, CurrentFacts DEF Action, Typed, Kinds
  <2>. QED
    BY <1>1, <2>1, <2>2 DEF Bygone, Ahead
<1>. QED
  BY <1>2

(* A round under way whose transcripts do not change. *)
LEMMA StillInRound ==
  ASSUME Typed, Placed, Shaped, Transcripts, Grown, Open, Open',
         UNCHANGED <<turn, index, round, kind, pos, history, live, stored, projected>>
  PROVE  Transcripts'
<1>1. Before' = Before /\ history'.ids \subseteq Seqs'
  <2>. PICK X : X = {}
    OBVIOUS
  <2>1. /\ history'.ids = history.ids \cup X /\ X \subseteq Own' \ Seqs
        /\ UNCHANGED <<turn, index, projected>>
    OBVIOUS
  <2>. QED
    BY <2>1, BeforeLasts
<1>. PICK k, h, l, s, C, B : /\ k = (IF kind = "tool" THEN pos - 1 ELSE 0) /\ h = history.messages
                             /\ l = live /\ s = stored /\ C = projected /\ B = Before
  OBVIOUS
<1>2. k \in Nat /\ \A n \in 1..k : Bygone(Act("tool", n))
  <2>1. CASE kind = "tool"
    <3>1. Acting /\ pos >= 1
      BY <2>1 DEF Shaped, Open
    <3>. QED
      BY <2>1, <3>1, OverBygone DEF Typed
  <2>2. CASE kind # "tool"
    BY <2>2
  <2>. QED
    BY <2>1, <2>2
<1>3. \A m : InRound(m, k) => InRound(m, k)'
  BY <1>1, <1>2, InRoundLasts
<1>4. InRound(l, k)'
  BY <1>3 DEF Transcripts
<1>5. kind = "tool" /\ round.calls > 0 => InRound(h, k)'
  BY <1>3 DEF Transcripts
<1>6. ~(kind = "tool" /\ round.calls > 0) => Sound(h, B)'
  BY Lasts DEF Transcripts
<1>7. Sound(s, C)'
  BY Lasts DEF Transcripts
<1>8. InRound(live, k)' /\ Sound(stored, projected)'
  BY <1>4, <1>7
<1>9. kind = "tool" /\ round.calls > 0 => InRound(history.messages, k)'
  BY <1>5
<1>10. ~(kind = "tool" /\ round.calls > 0) => Sound(history.messages, Before)'
  BY <1>1, <1>6
<1>11. k = IF kind' = "tool" THEN pos' - 1 ELSE 0
  OBVIOUS
<1>12. InRound(live, IF kind = "tool" THEN pos - 1 ELSE 0)'
  BY <1>8, <1>11
<1>13. kind' = "tool" /\ round'.calls > 0 => InRound(history.messages, pos - 1)'
  BY <1>9, <1>11
<1>14. pc' \notin {"loaded", "routing", "top", "asking"}
  BY DEF Open, Acting
<1>. QED
  BY <1>1, <1>8, <1>10, <1>12, <1>13, <1>14 DEF Transcripts

(* One more action of the round is over. *)
LEMMA OneMoreOver ==
  ASSUME Typed, Placed, Shaped, Transcripts, Grown, Acting, pc' = "acting", pos <= Count,
         NEW s \in Said, NEW X, Note(s), NoteInHistory(s, X), X \subseteq Own' \ Seqs,
         UNCHANGED <<turn, index, round, kind, stored, projected>>,
         NEW a, a = Current, Exact(a, s)'
  PROVE  Transcripts'
<1>. PICK k, h, l, t, C, B : /\ k = pos - 1 /\ h = history.messages
                             /\ l = live /\ t = stored /\ C = projected /\ B = Before
  OBVIOUS
<1>0. /\ history'.ids = history.ids \cup X
      /\ history'.messages = IF kind = "send" THEN h ELSE Append(h, Message("tool", Current, <<s>>))
      /\ Open /\ Open' /\ kind \in Kinds
  BY DEF NoteInHistory, Open, Acting, Typed
<1>1. Before' = Before /\ history'.ids \subseteq Seqs'
  BY <1>0, BeforeLasts
<1>2. Sound(t, C)'
  BY Lasts DEF Transcripts
<1>3. Sound(stored, projected)'
  BY <1>2
<1>4. pc' \notin {"loaded", "routing", "top", "asking"}
  OBVIOUS
<1>5. CASE kind = "send"
  <2>1. live' = live /\ history'.messages = h
    BY <1>0, <1>5, NoteShape
  <2>2. InRound(l, 0)'
    <3>1. InRound(l, 0)
      BY <1>0, <1>5 DEF Transcripts
    <3>. QED
      BY <1>1, <3>1, InRoundLasts
  <2>3. Sound(h, B)'
    BY <1>0, <1>5, Lasts DEF Transcripts
  <2>4. InRound(live, 0)' /\ Sound(history.messages, Before)'
    BY <1>1, <2>1, <2>2, <2>3
  <2>. QED
    BY <1>1, <1>3, <1>4, <1>5, <2>4 DEF Transcripts
<1>6. CASE kind = "tool"
  <2>1. k \in Nat /\ k + 1 = pos /\ pos' - 1 = k + 1 /\ round.calls > 0
    <3>1. pos \in Nat /\ pos >= 1 /\ pos' = pos + 1
      BY NoteShape DEF Shaped, Typed
    <3>2. pos <= round.calls /\ round.calls \in Nat
      BY <1>6 DEF Count, Typed
    <3>. QED
      BY <3>1, <3>2
  <2>6. Act("tool", k + 1) = Current
    BY <1>6, <2>1 DEF Current
  <2>2. \A n \in 1..k : Bygone(Act("tool", n))
    BY <1>6, OverBygone
  <2>3. InRound(l, k) /\ InRound(h, k)
    BY <1>0, <1>6, <2>1 DEF Transcripts
  <2>. PICK x : x = Message("tool", Current, <<s>>)
    OBVIOUS
  <2>4. Act("tool", k + 1)' = Current
    BY <2>6 DEF Act, ActionOf, Rid
  <2>5. Exact(Act("tool", k + 1), s)' /\ Message("tool", Act("tool", k + 1), <<s>>)' = x
    BY <2>4 DEF Message
  <2>7. InRound(Append(l, x), k + 1)' /\ InRound(Append(h, x), k + 1)'
    <3>1. ASSUME NEW m, InRound(m, k) PROVE InRound(Append(m, x), k + 1)'
      <4>1. InRound(Append(m, Message("tool", Act("tool", k + 1), <<s>>)), k + 1)'
        BY <1>1, <2>1, <2>2, <2>5, <3>1, InRoundAppends
      <4>. QED
        BY <2>5, <4>1
    <3>. QED
      BY <2>3, <3>1
  <2>8. live' = Append(l, x) /\ history'.messages = Append(h, x)
    BY <1>0, <1>6, NoteShape
  <2>9. InRound(live, k + 1)' /\ InRound(history.messages, k + 1)'
    BY <2>7, <2>8
  <2>10. InRound(live, pos - 1)' /\ InRound(history.messages, pos - 1)'
    BY <2>1, <2>9
  <2>. QED
    BY <1>1, <1>3, <1>4, <1>6, <2>1, <2>10 DEF Transcripts
<1>. QED
  BY <1>0, <1>5, <1>6 DEF Kinds

(* What the ledger makes of its events is sound. *)
LEMMA HistorySound ==
  ASSUME Typed, Placed, Logged, Recorded, ~Acting, NEW m, Sound(m, projected)
  PROVE  Sound(m \o Fresh, Seqs) /\ projected \cup (Seqs \ projected) = Seqs
<1>1. projected \subseteq Seqs
  BY DEF Sound
<1>2. projected \cup (Seqs \ projected) = Seqs /\ projected \cap (Seqs \ projected) = {}
  BY <1>1
<1>3. Sound(Fresh, Seqs \ projected)
  BY FreshSound
<1>4. Sound(m \o Fresh, projected \cup (Seqs \ projected))
  BY <1>2, <1>3, Joined
<1>. QED
  BY <1>2, <1>4

LEMMA LoadTranscripts ==
  ASSUME Typed, Placed, Logged, Recorded, Transcripts, Grown, LoadHistory
  PROVE  Transcripts'
<1>1. pc = "idle" /\ pc' = "loaded" /\ history' = History /\ UNCHANGED <<log, stored, projected>>
  BY DEF LoadHistory
<1>. PICK m, C, h : m = stored /\ C = projected /\ h = stored \o Fresh
  OBVIOUS
<1>2. Sound(m, C) /\ Sound(h, Seqs) /\ projected \cup (Seqs \ projected) = Seqs
  BY <1>1, HistorySound DEF Transcripts, Acting
<1>. PICK S : S = Seqs
  OBVIOUS
<1>3. Sound(m, C)' /\ Sound(h, S)'
  BY <1>2, Lasts
<1>4. history'.messages = h /\ history'.ids = Seqs \ projected
  BY <1>1 DEF History
<1>5. Covered' = S /\ Seqs' = S
  BY <1>1, <1>2, <1>4 DEF Covered, Seqs
<1>6. Sound(stored, projected)' /\ Sound(history.messages, Covered)'
  BY <1>1, <1>3, <1>4, <1>5
<1>. QED
  BY <1>1, <1>4, <1>5, <1>6 DEF Transcripts, Open, Acting

LEMMA SaveTranscripts ==
  ASSUME Transcripts, Grown, SaveLoaded
  PROVE  Transcripts'
<1>1. pc = "loaded" /\ pc' = "routing" /\ stored' = history.messages /\ projected' = Covered
      /\ live' = history.messages /\ UNCHANGED <<log, history>>
  BY DEF SaveLoaded, SaveHistory, Covered
<1>. PICK h, C : h = history.messages /\ C = Covered
  OBVIOUS
<1>2. Sound(h, C)'
  BY <1>1, Lasts DEF Transcripts
<1>3. Sound(stored, projected)' /\ Sound(live, projected)'
  BY <1>1, <1>2
<1>4. history'.ids \subseteq projected' /\ history'.ids \subseteq Seqs'
  BY <1>1 DEF Transcripts, Covered, Seqs
<1>. QED
  BY <1>1, <1>3, <1>4 DEF Transcripts, Open, Acting

LEMMA RefreshTranscripts ==
  ASSUME Typed, Placed, Logged, Recorded, Transcripts, Grown, Refresh
  PROVE  Transcripts'
<1>1. pc = "top" /\ pc' = "asking" /\ UNCHANGED <<log, stored, projected>>
  BY DEF Refresh
<1>. PICK m, C, l, S, f : m = stored /\ C = projected /\ l = live /\ S = Seqs /\ f = Fresh
  OBVIOUS
<1>2. /\ Sound(m, C) /\ Sound(l, C) /\ history.messages = m /\ history.ids \subseteq projected
      /\ history.ids \subseteq Seqs
  BY <1>1 DEF Transcripts
<1>3. Sound(m \o f, S) /\ Sound(l \o f, S) /\ projected \cup (Seqs \ projected) = Seqs
  BY <1>1, <1>2, HistorySound DEF Acting
<1>4. /\ Sound(m, C)' /\ Sound(l, C)'
      /\ Sound(m \o f, S)' /\ Sound(l \o f, S)'
  BY <1>2, <1>3, Lasts
<1>5. CASE Len(History.messages) > Len(history.messages)
  <2>1. History.messages = m \o f /\ History.ids = Seqs \ projected
    BY DEF History
  <2>2. history' = History /\ live' = l \o SubSeq(m \o f, Len(m) + 1, Len(m \o f))
    BY <1>2, <1>5, <2>1 DEF Refresh
  <2>3. m \in Seq(Msg) /\ f \in Seq(Msg)
    BY <1>1, <1>2, FreshSound DEF Sound, Acting
  <2>4. SubSeq(m \o f, Len(m) + 1, Len(m \o f)) = f
    BY <2>3
  <2>5. Covered' = S
    BY <1>1, <1>3, <2>1, <2>2 DEF Covered
  <2>6. Sound(stored, projected)' /\ Sound(live, Covered)' /\ Sound(history.messages, Covered)'
    BY <1>1, <1>4, <2>1, <2>2, <2>4, <2>5
  <2>7. history'.ids \subseteq Seqs'
    BY <1>1, <2>1, <2>2 DEF Seqs
  <2>. QED
    BY <1>1, <2>6, <2>7 DEF Transcripts, Open, Acting
<1>6. CASE ~(Len(History.messages) > Len(history.messages))
  <2>1. UNCHANGED <<live, history>>
    BY <1>6 DEF Refresh
  <2>2. Covered' = C
    BY <1>1, <1>2, <2>1 DEF Covered
  <2>3. Sound(stored, projected)' /\ Sound(live, Covered)' /\ Sound(history.messages, Covered)'
    BY <1>1, <1>2, <1>4, <2>1, <2>2
  <2>4. history'.ids \subseteq Seqs'
    BY <1>1, <1>2, <2>1 DEF Seqs
  <2>. QED
    BY <1>1, <2>3, <2>4 DEF Transcripts, Open, Acting
<1>. QED
  BY <1>5, <1>6

LEMMA RecordTranscripts ==
  ASSUME Typed, Placed, Logged, Recorded, Shaped, Transcripts, Grown,
         NEW shape \in Shape, RecordRound(shape)
  PROVE  Transcripts'
<1>. DEFINE e == [kind |-> "round", ref |-> Rid, say |-> "proposed"]
<1>. PICK n : n = Len(log) + 1
  OBVIOUS
<1>1. /\ pc = "asking" /\ pc' \in {"acting", "malformed"} /\ Rid \notin DOMAIN rounds
      /\ UNCHANGED <<rows, turn, index, projected>>
  BY RecordFacts
<1>2. /\ log' = Append(log, e) /\ UNCHANGED <<stored, kind, pos>>
      /\ history' = [history EXCEPT !.ids = @ \cup {n}] /\ live' = Append(live, Begins)
  BY DEF RecordRound, Begins
<1>3. e \in Event /\ e.kind = "round"
  BY DEF Event, Ref, Rid, Typed
<1>. HIDE DEF e
<1>4. /\ Len(log) \in Nat /\ Len(log') = n /\ log'[n] = e /\ \A i \in Seqs : log'[i] = log[i]
      /\ n \in Seqs' /\ n \notin Seqs /\ \A i \in Seqs' : i \in Seqs \/ i = n
  BY <1>2, <1>3, AppendFacts DEF Seqs
<1>5. history'.ids = history.ids \cup {n} /\ history'.messages = history.messages
  BY <1>2 DEF Logged
<1>. PICK m, C, l, h, D : /\ m = stored /\ C = projected /\ l = live /\ h = history.messages
                          /\ D = Covered
  OBVIOUS
<1>6. Sound(m, C) /\ Sound(l, D) /\ Sound(h, D) /\ history.ids \subseteq Seqs
  BY <1>1 DEF Transcripts
<1>7. Sound(m, C)' /\ Sound(l, D)' /\ Sound(h, D)'
  BY <1>6, Lasts
<1>8. Sound(l, D \cup {n})' /\ Sound(h, D \cup {n})'
  BY <1>3, <1>4, <1>7, Enlarged
<1>9. Own' = {}
  <2>1. \A a \in DOMAIN rows : <<a[1], a[2]>> \in DOMAIN rounds
    BY DEF Placed
  <2>2. Rid = <<turn, index>>
    BY DEF Rid
  <2>. QED
    BY <1>1, <1>3, <1>4, <2>1, <2>2 DEF Own, Recorded
<1>10. Before' = D \cup {n}
  BY <1>1, <1>5, <1>9 DEF Before, Covered
<1>11. Sound(l, Before)' /\ Sound(h, Before)'
  BY <1>8, <1>10
<1>12. InRound(Append(l, Begins), 0)'
  BY <1>1, <1>6, <1>11, InRoundBegins DEF Sound
<1>13. Begins' = Begins
  BY <1>1 DEF Begins, Rid
<1>14. InRound(live, 0)'
  BY <1>2, <1>12, <1>13
<1>15. Sound(stored, projected)' /\ Sound(history.messages, Before)'
  BY <1>1, <1>2, <1>5, <1>7, <1>11
<1>16. kind' = "send" /\ history'.ids \subseteq Seqs'
  <2>1. kind' = "send"
    BY <1>1, <1>2 DEF Shaped, Open, Acting
  <2>2. Seqs \subseteq Seqs'
    BY DEF Grown
  <2>. QED
    BY <1>4, <1>5, <1>6, <2>1, <2>2
<1>. QED
  BY <1>1, <1>14, <1>15, <1>16 DEF Transcripts

LEMMA SendsDoneTranscripts ==
  ASSUME Typed, Placed, Logged, Shaped, Transcripts, Grown, SendsDone
  PROVE  Transcripts'
<1>1. /\ pc = "acting" /\ pc' = "acting" /\ kind = "send" /\ kind' = "tool" /\ pos' = 1
      /\ UNCHANGED <<log, projected, stored, turn, index, round, live>>
      /\ Open /\ Open'
  BY DEF SendsDone, Open, Acting
<1>. PICK m, C, l, h, B : /\ m = stored /\ C = projected /\ l = live /\ h = history.messages
                          /\ B = Before
  OBVIOUS
<1>2. /\ history'.ids = history.ids
      /\ history'.messages =
           IF round.calls > 0 THEN Append(h, Begins)
           ELSE IF \E i \in DOMAIN feedback : feedback[i] = "succeeded"
                THEN Append(h, Message("said", Rid, <<>>)) ELSE h
  BY DEF SendsDone, Logged, Begins
<1>3. Before' = Before /\ history'.ids \subseteq Seqs'
  <2>. PICK X : X = {}
    OBVIOUS
  <2>1. /\ history'.ids = history.ids \cup X /\ X \subseteq Own' \ Seqs
        /\ UNCHANGED <<turn, index, projected>>
    BY <1>1, <1>2
  <2>. QED
    BY <2>1, BeforeLasts
<1>4. Sound(m, C) /\ InRound(l, 0) /\ Sound(h, B)
  BY <1>1 DEF Transcripts
<1>5. Sound(m, C)' /\ Sound(h, B)' /\ InRound(l, 0)'
  BY <1>1, <1>3, <1>4, Lasts, InRoundLasts
<1>6. Sound(stored, projected)' /\ InRound(live, 0)' /\ Sound(h, Before)'
  BY <1>1, <1>3, <1>5
<1>7. CASE round.calls > 0
  <2>1. InRound(Append(h, Begins), 0)'
    BY <1>1, <1>4, <1>6, InRoundBegins DEF Sound
  <2>2. Begins' = Begins
    BY <1>1 DEF Begins, Rid
  <2>3. InRound(history.messages, 0)'
    BY <1>2, <1>7, <2>1, <2>2
  <2>4. pos' - 1 = 0
    BY <1>1
  <2>. QED
    BY <1>1, <1>3, <1>6, <1>7, <2>3, <2>4 DEF Transcripts
<1>8. CASE ~(round.calls > 0)
  <2>1. Sound(history.messages, Before)'
    <3>1. CASE history'.messages = h
      BY <1>6, <3>1
    <3>2. CASE history'.messages = Append(h, Message("said", Rid, <<>>))
      <4>. PICK x : x = Message("said", Rid, <<>>)
        OBVIOUS
      <4>1. x \in Msg /\ x.kind = "said"
        <5>1. Rid \in Ref /\ <<>> \in Seq(Said)
          BY DEF Rid, Ref, Typed
        <5>. QED
          BY <5>1 DEF Message, Msg
      <4>2. Sound(<<x>>, {})
        BY <4>1, Single DEF Fit
      <4>3. Sound(h \o <<x>>, B \cup {})
        BY <1>4, <4>2, Joined
      <4>4. h \o <<x>> = Append(h, x) /\ B \cup {} = B
        BY <1>4, <4>1 DEF Sound
      <4>5. Sound(Append(h, x), B)'
        BY <4>3, <4>4, Lasts
      <4>. QED
        BY <1>3, <3>2, <4>5
    <3>. QED
      BY <1>2, <1>8, <3>1, <3>2
  <2>2. pos' - 1 = 0
    BY <1>1
  <2>. QED
    BY <1>1, <1>3, <1>6, <1>8, <2>1, <2>2 DEF Transcripts
<1>. QED
  BY <1>7, <1>8

(* A round that is done, in order or not, is saved; the next request holds *)
(* what was said since the last.                                           *)
LEMMA SavedTranscripts ==
  ASSUME Typed, Logged, Transcripts, Grown, NEW messages, NEW tail,
         Sound(messages, Covered), Sound(live \o tail, Covered), SaveRound(messages), UNCHANGED log,
         (\E s : End(s)) \/ (\E c : Continue(tail, c))
  PROVE  Transcripts'
<1>. PICK C, l : C = Covered /\ l = live \o tail
  OBVIOUS
<1>1. stored' = messages /\ projected' = C
  BY DEF SaveRound, Covered
<1>2. Sound(messages, C)' /\ Sound(l, C)'
  BY Lasts
<1>3. Sound(stored, projected)'
  BY <1>1, <1>2
<1>4. CASE \E s : End(s)
  <2>1. pc' = "idle" /\ history' = NoHistory
    BY <1>4, EndFacts
  <2>2. history'.ids = {}
    BY <2>1 DEF NoHistory
  <2>. QED
    BY <1>3, <2>1, <2>2 DEF Transcripts, Open, Acting
<1>5. CASE \E c : Continue(tail, c)
  <2>1. pc' = "top" /\ live' = l /\ history' = [history EXCEPT !.messages = stored']
    BY <1>5 DEF Continue
  <2>2. history'.ids = history.ids /\ history'.messages = stored'
    BY <2>1 DEF Logged
  <2>3. Sound(live, projected)'
    BY <1>1, <1>2, <2>1
  <2>4. history'.ids \subseteq projected' /\ history'.ids \subseteq Seqs'
    BY <1>1, <2>2 DEF Covered, Transcripts, Seqs
  <2>. QED
    BY <1>3, <2>1, <2>2, <2>3, <2>4 DEF Transcripts, Open, Acting
<1>. QED
  BY <1>4, <1>5

LEMMA TranscriptsStep ==
  ASSUME Typed, Placed, Logged, Saved, Recorded, Shaped, Transcripts, [Next]_vars
  PROVE  Transcripts'
<1>g. Grown
  BY Grows
<1>s. Seqs \subseteq Seqs' /\ history.ids \subseteq Seqs
  BY <1>g DEF Grown, Transcripts
<1>1. CASE RouteSilent \/ EndLoop \/ AskFails \/ LedgerFails
  <2>1. PICK s : End(s) /\ UNCHANGED ledger
    BY <1>1, Endings
  <2>2. pc' = "idle" /\ history' = NoHistory
    BY <2>1, EndFacts
  <2>3. history'.ids = {}
    BY <2>2 DEF NoHistory
  <2>. QED
    BY <1>g, <2>1, <2>2, <2>3, Apart
<1>2. CASE Crash
  <2>1. pc' = "idle" /\ history' = NoHistory /\ UNCHANGED <<stored, projected>>
    BY <1>2 DEF Crash, LeaveTurn
  <2>2. history'.ids = {}
    BY <2>1 DEF NoHistory
  <2>. QED
    BY <1>g, <2>1, <2>2, Apart
<1>3. CASE Recover
  <2>1. pc' = "idle" /\ UNCHANGED <<stored, projected, history>>
    BY <1>3 DEF Recover, Placed
  <2>. QED
    BY <1>g, <1>s, <2>1, Apart
<1>4. CASE LoadHistory
  BY <1>g, <1>4, LoadTranscripts
<1>5. CASE SaveLoaded
  BY <1>g, <1>5, SaveTranscripts
<1>6. CASE Refresh
  BY <1>g, <1>6, RefreshTranscripts
<1>7. ASSUME NEW shape \in Shape, RecordRound(shape) PROVE Transcripts'
  BY <1>g, <1>7, RecordTranscripts
<1>8. CASE SendsDone
  BY <1>g, <1>8, SendsDoneTranscripts
<1>9. CASE SkipAction \/ RefuseAction
  <2>1. PICK s \in {"cancelled", "rejected"} : Note(s) /\ NoteInHistory(s, {})
    BY <1>9 DEF SkipAction, RefuseAction
  <2>2. /\ pc = "acting" /\ pc' = "acting" /\ Acting /\ pos <= Count
        /\ UNCHANGED <<turn, index, round, kind, stored, projected, rows>>
    BY <1>9 DEF SkipAction, RefuseAction, Acting
  <2>. PICK a, X : a = Current /\ X = {}
    OBVIOUS
  <2>3. s \in Said /\ a \notin DOMAIN rows'
    BY <2>2, CurrentFree DEF Said, Status
  <2>4. Exact(a, s)'
    BY <2>3 DEF Exact
  <2>5. NoteInHistory(s, X) /\ X \subseteq Own' \ Seqs
    BY <2>1
  <2>. QED
    BY <1>g, <2>1, <2>2, <2>3, <2>4, <2>5, OneMoreOver
<1>10. CASE FinishAction
  <2>1. /\ pc = "executing" /\ pc' = "acting" /\ Acting
        /\ UNCHANGED <<turn, index, round, kind, stored, projected>>
    BY <1>10 DEF FinishAction, Acting
  <2>2. Current \in DOMAIN rows /\ pos <= Count
    BY <2>1 DEF Shaped, Open, Acting
  <2>. PICK a, n : a = Current /\ n = Len(log) + 1
    OBVIOUS
  <2>3. PICK s \in Status \ {"started"} :
          /\ Note(s) /\ NoteInHistory(s, {n}) /\ DOMAIN rows' = DOMAIN rows /\ rows'[a] = s
          /\ log' = Append(log, [kind |-> "result", ref |-> a, say |-> s])
    BY <1>10, <2>2, FinishFacts
  <2>. PICK e : e = [kind |-> "result", ref |-> a, say |-> s]
    OBVIOUS
  <2>4. e \in Event /\ e.kind = "result" /\ e.ref = a /\ a[1] = turn /\ a[2] = index
    BY CurrentFacts DEF Event
  <2>5. log'[n] = e /\ n \in Seqs' /\ n \notin Seqs
    BY <2>3, <2>4, AppendFacts DEF Seqs
  <2>. PICK X : X = {n}
    OBVIOUS
  <2>6. X \subseteq Own' \ Seqs /\ NoteInHistory(s, X)
    BY <2>1, <2>3, <2>4, <2>5 DEF Own
  <2>7. s \in Said /\ Exact(a, s)'
    BY <2>2, <2>3 DEF Said, Exact
  <2>. QED
    BY <1>g, <2>1, <2>2, <2>3, <2>6, <2>7, OneMoreOver
<1>11. CASE StartAction
  <2>1. Open /\ Open' /\ UNCHANGED <<turn, index, round, kind, pos, history, live, stored, projected>>
    BY <1>11 DEF StartAction, Open, Acting
  <2>. QED
    BY <1>g, <2>1, StillInRound
<1>12. CASE RoundDone
  <2>. PICK messages, tail : messages = history.messages \o SentNote /\ tail = SentNote
    OBVIOUS
  <2>1. pc = "acting" /\ kind = "tool" /\ pos > round.calls /\ SaveRound(messages) /\ UNCHANGED log
    BY <1>12 DEF RoundDone
  <2>2. Sound(messages, Covered) /\ Sound(live \o tail, Covered)
    BY <2>1, RoundTold
  <2>3. (\E s : End(s)) \/ (\E c : Continue(tail, c))
    BY <1>12 DEF RoundDone, Correct
  <2>. QED
    BY <1>g, <2>1, <2>2, <2>3, SavedTranscripts
<1>13. CASE Malformed
  <2>. PICK messages, tail : /\ messages = history.messages \o Proposed \o Rejections \o Observed
                             /\ tail = Rejections \o Observed
    OBVIOUS
  <2>1. pc = "malformed" /\ SaveRound(messages) /\ UNCHANGED log
    BY <1>13 DEF Malformed, Proposed, Rejections, Observed
  <2>2. Sound(messages, Covered) /\ Sound(live \o tail, Covered)
    BY <2>1, MalformedTold
  <2>3. (\E s : End(s)) \/ (\E c : Continue(tail, c))
    BY <1>13 DEF Malformed, Correct, Rejections, Observed
  <2>. QED
    BY <1>g, <2>1, <2>2, <2>3, SavedTranscripts
<1>14. CASE RouteGenerate \/ Inbound \/ Cancel \/ UNCHANGED vars
  <2>1. /\ UNCHANGED <<turn, index, round, kind, pos, history, live, stored, projected>>
        /\ pc' = pc \/ (pc = "routing" /\ pc' = "top")
    BY <1>14 DEF RouteGenerate, Inbound, Cancel, vars
  <2>2. CASE Open
    <3>1. Open'
      BY <2>1, <2>2 DEF Open, Acting
    <3>. QED
      BY <1>g, <2>1, <2>2, <3>1, StillInRound
  <2>3. CASE ~Open
    <3>. PICK m, C, l, h, D : /\ m = stored /\ C = projected /\ l = live /\ h = history.messages
                              /\ D = Covered
      OBVIOUS
    <3>1. /\ Sound(m, C)'
          /\ pc = "loaded" => Sound(h, D)'
          /\ pc \in {"routing", "top"} =>
               Sound(l, C)' /\ history.messages = stored /\ history.ids \subseteq projected
          /\ pc = "asking" => Sound(l, D)' /\ Sound(h, D)'
      BY <1>g, Lasts DEF Transcripts
    <3>2. Covered' = D /\ ~Open'
      BY <2>1, <2>3 DEF Covered, Open, Acting
    <3>3. /\ Sound(stored, projected)'
          /\ pc = "loaded" => Sound(history.messages, Covered)'
          /\ pc \in {"routing", "top"} => Sound(live, projected)'
          /\ pc = "asking" => Sound(live, Covered)' /\ Sound(history.messages, Covered)'
      BY <2>1, <3>1, <3>2
    <3>. QED
      BY <1>s, <2>1, <3>1, <3>2, <3>3 DEF Transcripts
  <2>. QED
    BY <2>2, <2>3
<1>. QED
  BY <1>1, <1>2, <1>3, <1>4, <1>5, <1>6, <1>7, <1>8, <1>9, <1>10, <1>11, <1>12, <1>13, <1>14
     DEF Next, TurnStep

LEMMA BegunTranscripts == Init => Recorded /\ Shaped /\ Transcripts
<1>. SUFFICES ASSUME Init PROVE Recorded /\ Shaped /\ Transcripts
  OBVIOUS
<1>1. pc = "idle" /\ log = <<>> /\ stored = <<>> /\ projected = {} /\ rows = <<>> /\ feedback = <<>>
      /\ history = NoHistory /\ kind = "send" /\ pos = 1
  BY DEF Init
<1>2. ~Open /\ Seqs = {} /\ DOMAIN rows = {} /\ <<>> \in Seq(Said)
  BY <1>1 DEF Open, Acting, Seqs
<1>3. Recorded /\ Shaped
  BY <1>1, <1>2 DEF Recorded, Shaped
<1>4. Sound(stored, projected) /\ history.ids = {}
  BY <1>1, Wordless DEF NoHistory
<1>. QED
  BY <1>1, <1>2, <1>3, <1>4 DEF Transcripts
-----------------------------------------------------------------------------
(* What a sound transcript shows.                                          *)

LEMMA SoundIsTruthful ==
  ASSUME NEW m, NEW C, Sound(m, C)
  PROVE  TruthfulIn(m)
BY DEF Sound, Truthful, Fit, Told, TruthfulIn

LEMMA SoundHidesNothing ==
  ASSUME NEW m, NEW C, Sound(m, C)
  PROVE  HiddenIn(m, C) = {}
<1>. DEFINE Users(e) == {i \in DOMAIN m : m[i].kind = "user" /\ m[i].ref = <<e>>}
<1>1. ASSUME NEW e \in Seqs, log[e].kind = "inbound", e \in C PROVE Cardinality(Users(e)) = 1
  <2>1. PICK i \in DOMAIN m : UserOf(m[i], e)
    BY <1>1 DEF Sound, Facts
  <2>2. \A j \in Users(e) : j = i
    BY <2>1 DEF UserOf, Sound, Facts
  <2>3. Users(e) = {i}
    BY <2>1, <2>2 DEF UserOf
  <2>. QED
    BY <2>3, FS_Singleton
<1>2. ASSUME NEW e \in Seqs, e \notin C PROVE Cardinality(Users(e)) = 0
  <2>1. \A f : <<e>> = <<f>> => e = f
    OBVIOUS
  <2>2. Users(e) = {}
    BY <1>2, <2>1 DEF Sound, Facts
  <2>. QED
    BY <2>2, FS_EmptySet
<1>3. \A e \in C : log[e].kind = "result" => \E i \in DOMAIN m : Tells(m[i], e)
  BY DEF Sound, Results
<1>. QED
  BY <1>1, <1>2, <1>3 DEF HiddenIn

-----------------------------------------------------------------------------
(* The theorems. *)

Kept ==
  /\ Typed /\ Placed /\ Doubtless /\ Logged /\ Saved /\ Counted
  /\ Recorded /\ Shaped /\ Transcripts

(* The invariants hold of every state of a session. *)
LEMMA Keeps == Spec => []Kept
<1>1. Init => Kept
  BY Begun, BegunTranscripts DEF Kept
<1>2. Kept /\ [Next]_vars => Kept'
  BY TypedStep, PlacedStep, DoubtlessStep, LoggedStep, SavedStep, CountedStep,
     RecordedStep, ShapedStep, TranscriptsStep DEF Kept
<1>. QED
  BY <1>1, <1>2, PTL DEF Spec

(* What the variables of a turn, the tables of rounds and actions, the     *)
(* events and the messages are, for any shapes of rounds and any limits.   *)
WellTyped ==
  /\ Typed
  /\ log \in Seq(Event) /\ projected \subseteq Seqs /\ history.ids \subseteq Seqs
  /\ stored \in Seq(Msg) /\ feedback \in Seq(Said)
  /\ pc = "loaded" => history.messages \in Seq(Msg)
  /\ pc \in {"routing", "top", "asking"} =>
       live \in Seq(Msg) /\ history.messages \in Seq(Msg)
THEOREM TypeCorrect == Spec => []WellTyped
<1>1. Kept => WellTyped
  BY DEF Kept, WellTyped, Logged, Shaped, Transcripts, Sound
<1>. QED
  BY <1>1, Keeps, PTL

(* No action of a turn starts once the outcome of another of that turn is  *)
(* in doubt, in any round and whatever fails (run_inner).                  *)
THEOREM NothingStartsInDoubt == Spec => NoStartInDoubt
<1>1. ASSUME Kept, [Next]_vars PROVE StartWithoutDoubt
  <2>. SUFFICES ASSUME NEW a \in DOMAIN rows' \ DOMAIN rows, NEW b \in DOMAIN rows, b[1] = a[1]
               PROVE  rows[b] \notin {"started", "unknown"}
    BY DEF StartWithoutDoubt
  <2>1. CASE StartAction
    <3>1. pc = "acting" /\ ~unknown /\ DOMAIN rows' = DOMAIN rows \cup {Current}
      BY <2>1 DEF StartAction, Inserted
    <3>2. a[1] = turn
      BY <3>1 DEF Current, Act, ActionOf, Rid
    <3>. QED
      BY <1>1, <3>1, <3>2 DEF Kept, Doubtless
  <2>2. CASE ~StartAction
    <3>1. DOMAIN rows' = DOMAIN rows
      <4>1. CASE RouteSilent \/ EndLoop \/ AskFails \/ LedgerFails
        BY <1>1, <4>1, Endings DEF Kept
      <4>2. CASE RoundDone \/ Malformed
        BY <1>1, <4>2, DoneFacts, MalformedFacts DEF Kept
      <4>3. CASE FinishAction \/ Recover
        BY <4>3 DEF FinishAction, Recover
      <4>. QED
        BY <1>1, <2>2, <4>1, <4>2, <4>3 DEF Next, TurnStep, LoadHistory, SaveLoaded,
             RouteGenerate, Refresh,
          RecordRound, SkipAction, RefuseAction, SendsDone, Inbound, Cancel, Crash, vars
    <3>. QED
      BY <3>1
  <2>. QED
    BY <2>1, <2>2
<1>2. Kept /\ [Next]_vars => [StartWithoutDoubt]_vars
  BY <1>1
<1>. QED
  BY <1>2, Keeps, PTL DEF Spec, NoStartInDoubt

(* However many rounds a turn may have, it asks the model again at most    *)
(* max_corrections times after a round with nothing to answer: content     *)
(* that does not parse, or messages that were rejected.  Content that does *)
(* not parse executes nothing (run_inner).                                 *)
THEOREM CorrectionsAreBounded == Spec => []CorrectionBudget
<1>1. ASSUME Kept PROVE CorrectionBudget
  <2>. USE TurnAssumption DEF Kept
  <2>. DEFINE again == {r \in DOMAIN rounds :
                          (rounds[r].ok => rounds[r].calls = 0) /\ AskedAfter(r)}
  <2>1. ASSUME NEW t \in Nat PROVE Cardinality({r \in again : r[1] = t}) <= MaxCorrections
    <3>1. CASE pc = "asking" /\ t = turn
      <4>1. \A r \in DOMAIN rounds : r[1] = turn => r[2] \in Nat /\ r[2] < index
        BY <1>1, <3>1 DEF Typed, Placed, Open, Acting
      <4>2. {r \in again : r[1] = t} \subseteq Past
        BY <3>1, <4>1 DEF Past, Correctable
      <4>3. IsFiniteSet(Past) /\ Cardinality(Past) \in Nat /\ Cardinality(Past) <= corrections
        BY <1>1, <3>1, PastFacts DEF Counted
      <4>4. /\ Cardinality({r \in again : r[1] = t}) <= Cardinality(Past)
            /\ Cardinality({r \in again : r[1] = t}) \in Nat
        BY <4>2, <4>3, FS_Subset, FS_CardinalityType
      <4>. QED
        BY <1>1, <4>3, <4>4 DEF Counted, Typed
    <3>2. CASE ~(pc = "asking" /\ t = turn)
      <4>1. {r \in again : r[1] = t} = Corrected(t)
        BY <3>2 DEF Corrected, Correctable, AskedAfter
      <4>. QED
        BY <1>1, <4>1 DEF Counted
    <3>. QED
      BY <3>1, <3>2
  <2>2. \A t \in IsTurn : t \in Nat
    BY DEF IsTurn
  <2>3. \A a \in DOMAIN rows : rounds[<<a[1], a[2]>>].ok
    BY <1>1 DEF Placed
  <2>. QED
    BY <2>1, <2>2, <2>3 DEF CorrectionBudget
<1>. QED
  BY <1>1, Keeps, PTL

(* A turn that ends in order leaves nothing of it open or unprojected, and *)
(* as completed only if nothing of it is in doubt and nothing its last     *)
(* round sent was rejected (run_inner, save_history).                      *)
THEOREM TurnsEndInOrder == Spec => []OrderlyEnd
<1>1. Init => OrderlyEnd
  BY DEF Init, OrderlyEnd
<1>2. ASSUME Kept, Kept', OrderlyEnd, [Next]_vars PROVE OrderlyEnd'
  <2>. USE DEF Kept
  <2>1. CASE RouteSilent \/ EndLoop \/ AskFails \/ LedgerFails
    <3>1. PICK s : End(s) /\ s # "completed" /\ (s = "error" \/ ~Open) /\ pc # "idle" /\
         UNCHANGED ledger
      BY <1>2, <2>1, Endings
    <3>2. last' = s /\ turn' = turn
      BY <3>1, EndFacts
    <3>. QED
      BY <1>2, <3>1, <3>2 DEF OrderlyEnd, Saved, Seqs
  <2>2. CASE RoundDone \/ Malformed
    <3>1. /\ UNCHANGED <<log, rows>> /\ Onward /\ pc \in {"acting", "malformed"}
          /\ \E messages : SaveRound(messages)
          /\ pc' = "idle" /\ last' = "completed" => pc = "acting" /\ ~unknown /\ ~rejected
      BY <1>2, <2>2, DoneFacts, MalformedFacts
    <3>2. Rid \in DOMAIN rounds /\ Open
      BY <1>2, <3>1 DEF Placed, Open, Acting
    <3>3. /\ DOMAIN rounds' = DOMAIN rounds /\ projected' = projected \cup history.ids
          /\ rounds'[Rid].finished /\ \A r \in DOMAIN rounds : r # Rid => rounds'[r] = rounds[r]
      BY <1>2, <3>1, <3>2, SaveFacts
    <3>4. turn' = turn /\ (pc' = "idle" => index' = index)
      BY <3>1, EndFacts DEF Onward
    <3>5. \A r \in DOMAIN rounds' : r[1] = turn' => rounds'[r].finished
      BY <1>2, <3>1, <3>3, <3>4 DEF Saved
    <3>6. \A e \in Seqs' : log'[e].kind # "inbound" /\ log'[e].ref[1] = turn' => e \in projected'
      BY <1>2, <3>1, <3>3, <3>4 DEF Saved, Seqs
    <3>7. pc' = "idle" /\ last' = "completed" =>
            \A a \in DOMAIN rows' : a[1] = turn' =>
              rows'[a] \notin {"started", "unknown"} /\ (a[2] = index' => rows'[a] # "rejected")
      BY <1>2, <3>1, <3>4 DEF Doubtless
    <3>. QED
      BY <3>5, <3>6, <3>7 DEF OrderlyEnd
  <2>3. CASE Inbound
    <3>. DEFINE e == [kind |-> "inbound", ref |-> <<Len(log) + 1>>, say |-> "fact"]
    <3>1. log' = Append(log, e) /\ UNCHANGED <<rounds, rows, projected, pc, loop>>
      BY <2>3 DEF Inbound
    <3>2. e \in Event /\ e.kind = "inbound"
      BY <1>2 DEF Event, Ref, Logged
    <3>. HIDE DEF e
    <3>3. /\ Len(log) \in Nat /\ Len(log') = Len(log) + 1
          /\ \A n \in Seqs : log'[n] = log[n]
          /\ log'[Len(log) + 1] = e
      BY <1>2, <3>1, <3>2, AppendFacts
    <3>4. \A n \in Seqs' : n \in Seqs \/ n = Len(log) + 1
      BY <3>3 DEF Seqs
    <3>. QED
      BY <1>2, <3>1, <3>2, <3>3, <3>4 DEF OrderlyEnd
  <2>4. CASE Cancel \/ UNCHANGED vars
    BY <1>2, <2>4 DEF Cancel, vars, OrderlyEnd, Seqs
  <2>5. CASE Crash \/ Recover
    BY <1>2, <2>5 DEF Crash, Recover, Placed, OrderlyEnd
  <2>6. CASE \/ LoadHistory \/ SaveLoaded \/ RouteGenerate \/ Refresh \/ SkipAction \/ RefuseAction
             \/ StartAction \/ FinishAction \/ SendsDone \/ \E shape \in Shape : RecordRound(shape)
    <3>1. pc' # "idle"
      BY <2>6 DEF LoadHistory, SaveLoaded, RouteGenerate, Refresh, SkipAction, RefuseAction,
           StartAction,
        FinishAction, SendsDone, RecordRound
    <3>. QED
      BY <3>1 DEF OrderlyEnd
  <2>. QED
    BY <1>2, <2>1, <2>2, <2>3, <2>4, <2>5, <2>6 DEF Next, TurnStep
<1>3. Kept /\ Kept' /\ OrderlyEnd /\ [Next]_vars => OrderlyEnd'
  BY <1>2
<1>. QED
  BY <1>1, <1>3, Keeps, PTL DEF Spec

(* Native history is complete pairs of calls and results, in what is       *)
(* stored and in every request, for rounds of any number of calls and      *)
(* whatever facts, failures and crashes came in between (history and       *)
(* save_history).                                                          *)
THEOREM CallsArePaired == Spec => []PairedCalls
<1>1. Kept => PairedCalls
  BY DEF Kept, Transcripts, Sound, PairedCalls
<1>. QED
  BY <1>1, Keeps, PTL

(* No result that the model is given, or that is stored for it, ever       *)
(* contradicts the rows of the ledger (run_inner, history, recover).       *)
THEOREM ResultsAreTrue == Spec => []ToolTruth
<1>1. Kept => ToolTruth
  BY SoundIsTruthful DEF Kept, Transcripts, ToolTruth
<1>. QED
  BY <1>1, Keeps, PTL

(* Whatever the ledger counts as projected is told, each inbound fact once *)
(* and each result, and a request tells whatever its turn has loaded       *)
(* (history, save_history).                                                *)
THEOREM NothingIsHidden == Spec => []NothingHidden
<1>1. Kept => NothingHidden
  BY SoundHidesNothing DEF Kept, Transcripts, NothingHidden, Covered
<1>. QED
  BY <1>1, Keeps, PTL

=============================================================================
