------------------------ MODULE ExecutionGateProofs ------------------------
(***************************************************************************)
(* Proofs about ExecutionGate for any number of actions, calls and         *)
(* parameters, and any bound on facts.  The safety properties are not      *)
(* inductive: they rest on what a call in each of its positions knows of   *)
(* the row it registered (Custody), and on a started row having one call   *)
(* in charge of it (Exclusive).                                            *)
(***************************************************************************)
EXTENDS ExecutionGate, TLAPS

(* What the tables and the outside world agree on, action by action.       *)
RowOK(a) ==
  /\ landed[a] <= issued[a]
  /\ status[a] = "none" => issued[a] = 0
  /\ issued[a] <= 1
  /\ status[a] # "none" =>
       review[a] = [rev |-> basis[a].rev, param |-> basis[a].param, verdict |-> "allow"]
  /\ results[a] = IF status[a] \in Outcome THEN <<status[a]>> ELSE <<>>
  /\ status[a] = "succeeded" => landed[a] = 1
  /\ status[a] = "rejected" => issued[a] = 0

(* What a call knows in each of its positions.                             *)
Custody(c) ==
  /\ pc[c] # "idle" => id[c] \in Action
  /\ pc[c] \in Running => up
  /\ pc[c] \in Executing => status[id[c]] = "started"
  /\ pc[c] = "begun" => issued[id[c]] = 0
  /\ pc[c] = "issued" => issued[id[c]] = 1
  /\ pc[c] = "answered" =>
       /\ said[c] \in Outcome
       /\ said[c] = "succeeded" => landed[id[c]] = 1
       /\ said[c] = "rejected" => issued[id[c]] = 0
  /\ pc[c] = "returned" /\ said[c] \in {"succeeded", "failed", "unknown"} =>
       status[id[c]] = said[c]

Exclusive ==
  \A c, d \in Call :
    pc[c] \in Executing /\ pc[d] \in Executing /\ id[c] = id[d] => c = d

GateInv ==
  /\ TypeOK
  /\ \A a \in Action : RowOK(a)
  /\ \A c \in Call : Custody(c)
  /\ Exclusive
  /\ NoOrphan

----------------------------------------------------------------------------

(* The initial state is well typed: empty tables, a live process, no calls.*)
LEMMA TypeInit == Init => TypeOK
<1> SUFFICES ASSUME Init PROVE TypeOK
  OBVIOUS
<1> USE DEF Init, Status, Outcome, Feedback, Pc
<1>1. /\ review \in [Action -> [rev : Nat, param : Param \cup {NoParam},
                                verdict : {"none", "allow", "reject"}]]
      /\ status \in [Action -> Status]
      /\ basis \in [Action -> [rev : Nat, param : Param \cup {NoParam}]]
  OBVIOUS
<1>2. results \in [Action -> Seq(Outcome)]
  <2>1. <<>> \in Seq(Outcome)
    OBVIOUS
  <2> QED
    BY <2>1
<1>3. /\ pc \in [Call -> Pc]
      /\ id \in [Call -> Action \cup {NoId}]
      /\ param \in [Call -> Param \cup {NoParam}]
      /\ snap \in [Call -> Nat]
      /\ said \in [Call -> Feedback]
  OBVIOUS
<1> QED
  BY <1>1, <1>2, <1>3 DEF TypeOK

(* Every step keeps the types; what finish records is an outcome because   *)
(* the call in custody of the row holds one.                               *)
LEMMA TypeNext == TypeOK /\ (\A c \in Call : Custody(c)) /\ [Next]_vars => TypeOK'
<1> SUFFICES ASSUME TypeOK, \A c \in Call : Custody(c), [Next]_vars PROVE TypeOK'
  OBVIOUS
<1> USE DEF TypeOK, ledger, process, arguments, world, Move, Tell, Return, Answered
<1>1. ASSUME NEW c \in Call, NEW a \in Action, NEW p \in Param, Execute(c, a, p)
      PROVE TypeOK'
  BY <1>1 DEF Execute, Pc, Feedback
<1>2. ASSUME NEW c \in Call, CallStep(c)
      PROVE TypeOK'
  <2>1. CASE Refuse(c)
    BY <2>1 DEF Refuse, Pc, Feedback, Outcome
  <2>2. CASE Snapshot(c)
    BY <2>2 DEF Snapshot, Pc
  <2>3. CASE CancelReview(c)
    BY <2>3 DEF CancelReview, Pc, Feedback
  <2>4. CASE ReviewedBefore(c)
    BY <2>4 DEF ReviewedBefore, Pc
  <2>5. ASSUME NEW v \in {"allow", "reject"}, RecordReview(c, v)
        PROVE TypeOK'
    <3>1. review' \in [Action -> [rev : Nat, param : Param \cup {NoParam},
                                  verdict : {"none", "allow", "reject"}]]
      BY <2>5 DEF RecordReview
    <3>2. pc' \in [Call -> Pc] /\ said' \in [Call -> Feedback]
      BY <2>5 DEF RecordReview, Pc, Feedback, Outcome
    <3> QED
      BY <2>5, <3>1, <3>2 DEF RecordReview
  <2>6. CASE CheckCancel(c)
    BY <2>6 DEF CheckCancel, Pc, Feedback
  <2>7. CASE Begin(c)
    BY <2>7 DEF Begin, Pc, Status
  <2>8. CASE BeginRefused(c)
    BY <2>8 DEF BeginRefused, Pc, Feedback, Outcome
  <2>9. CASE Issue(c)
    <3>1. id[c] \in Action /\ issued[id[c]] + 1 \in Nat
      BY <2>9 DEF Issue, Custody
    <3>2. issued' = [issued EXCEPT ![id[c]] = issued[id[c]] + 1]
      BY <2>9 DEF Issue
    <3>3. issued' \in [Action -> Nat]
      BY <3>1, <3>2
    <3> QED
      BY <2>9, <3>3 DEF Issue, Pc
  <2>10. CASE AnswerUnissued(c)
    <3>1. PICK o \in {"rejected", "unknown", "failed"} : Answered(c, o)
      BY <2>10 DEF AnswerUnissued
    <3> QED
      BY <3>1 DEF Pc, Feedback, Outcome
  <2>11. CASE AnswerSuccess(c)
    BY <2>11 DEF AnswerSuccess, Pc, Feedback, Outcome
  <2>12. CASE AnswerError(c)
    <3>1. PICK o \in {"unknown", "failed"} : Answered(c, o)
      BY <2>12 DEF AnswerError
    <3> QED
      BY <3>1 DEF Pc, Feedback, Outcome
  <2>13. CASE Finish(c)
    <3>1. said[c] \in Outcome
      BY <2>13 DEF Finish, Custody
    <3>2. results' \in [Action -> Seq(Outcome)]
      <4>1. id[c] \in Action
        BY <2>13 DEF Finish, Custody
      <4>2. results[id[c]] \in Seq(Outcome)
        BY <4>1
      <4>3. Append(results[id[c]], said[c]) \in Seq(Outcome)
        BY <4>2, <3>1
      <4>4. results' = [results EXCEPT ![id[c]] = Append(results[id[c]], said[c])]
        BY <2>13 DEF Finish
      <4> HIDE DEF Outcome
      <4> QED
        BY <4>3, <4>4
    <3>3. status' \in [Action -> Status]
      BY <2>13, <3>1 DEF Finish, Status
    <3> QED
      BY <2>13, <3>2, <3>3 DEF Finish, Pc
  <2>14. CASE LedgerError(c)
    BY <2>14 DEF LedgerError, Pc
  <2> QED
    BY <1>2, <2>1, <2>2, <2>3, <2>4, <2>5, <2>6, <2>7, <2>8, <2>9, <2>10,
       <2>11, <2>12, <2>13, <2>14 DEF CallStep
<1>3. ASSUME NEW a \in Action, Land(a)
      PROVE TypeOK'
  BY <1>3 DEF Land
<1>4. CASE NewFact
  BY <1>4 DEF NewFact
<1>5. CASE Cancel
  BY <1>5 DEF Cancel
<1>6. CASE Crash
  BY <1>6 DEF Crash, Pc
<1>7. CASE Recover
  BY <1>7 DEF Recover, Unsettled, Status, Outcome
<1>8. CASE UNCHANGED vars
  BY <1>8 DEF vars
<1> QED
  BY <1>1, <1>2, <1>3, <1>4, <1>5, <1>6, <1>7, <1>8 DEF Next

----------------------------------------------------------------------------

(* A call that has registered nothing may move on, return a refusal or     *)
(* fail, and a verdict may be recorded for an action without a row: none   *)
(* of this disturbs the invariant.                                         *)
LEMMA QuietStep ==
  ASSUME GateInv, TypeOK', NEW c \in Call,
         pc[c] \in {"called", "snapped", "allowed", "cleared"},
         NEW to \in {"snapped", "allowed", "cleared", "returned", "error"},
         pc' = [pc EXCEPT ![c] = to],
         to = "returned" => said'[c] \in {"rejected", "cancelled"},
         \A d \in Call \ {c} : said'[d] = said[d],
         \A a \in Action : status[a] # "none" => review'[a] = review[a],
         UNCHANGED <<status, basis, results, up, id, issued, landed>>
  PROVE  GateInv'
<1> USE DEF GateInv
<1>1. \A a \in Action : RowOK(a)'
  BY DEF RowOK
<1>2. \A d \in Call : Custody(d)'
  BY DEF Custody, Running, Executing, TypeOK
<1>3. Exclusive'
  BY DEF Exclusive, Executing, TypeOK
<1>4. NoOrphan'
  BY DEF NoOrphan, Executing, TypeOK
<1> QED
  BY <1>1, <1>2, <1>3, <1>4

(* A call in custody of a started row may issue the request or learn the   *)
(* outcome, and may be ended by a ledger failure; the row stays started.   *)
LEMMA CustodyStep ==
  ASSUME GateInv, TypeOK', NEW c \in Call,
         pc[c] \in Executing,
         NEW to \in {"issued", "answered", "error"},
         pc' = [pc EXCEPT ![c] = to],
         to = "answered" => /\ said'[c] \in Outcome
                            /\ said'[c] = "succeeded" => landed[id[c]] = 1
                            /\ said'[c] = "rejected" => issued[id[c]] = 0,
         \A d \in Call \ {c} : said'[d] = said[d],
         to = "issued" => pc[c] = "begun",
         issued' = IF to = "issued" THEN [issued EXCEPT ![id[c]] = issued[id[c]] + 1]
                   ELSE issued,
         UNCHANGED <<status, basis, results, review, up, id, landed>>
  PROVE  GateInv'
<1> USE DEF GateInv
<1>1. /\ id[c] \in Action /\ status[id[c]] = "started"
      /\ to = "issued" => issued[id[c]] = 0
      /\ pc \in [Call -> Pc] /\ issued \in [Action -> Nat] /\ landed \in [Action -> Nat]
  BY DEF Custody, Executing, TypeOK
<1>2. \A a \in Action : RowOK(a)'
  BY <1>1 DEF RowOK, Outcome
<1>3. \A d \in Call : Custody(d)'
  <2> TAKE d \in Call
  <2>1. CASE d = c
    BY <2>1, <1>1 DEF Custody, Running, Executing
  <2>2. CASE d # c
    <3>1. pc[d] \in Executing => id[d] # id[c]
      BY <2>2 DEF Exclusive
    <3> QED
      BY <2>2, <3>1, <1>1 DEF Custody, Executing
  <2> QED
    BY <2>1, <2>2
<1>4. Exclusive'
  <2>1. \A d \in Call : pc'[d] \in Executing => pc[d] \in Executing
    BY <1>1 DEF Executing
  <2> QED
    BY <2>1, <1>1 DEF Exclusive
<1>5. NoOrphan'
  BY <1>1 DEF NoOrphan, Executing
<1> QED
  BY <1>2, <1>3, <1>4, <1>5

----------------------------------------------------------------------------

LEMMA GateInit == Init => GateInv
<1> SUFFICES ASSUME Init PROVE GateInv
  OBVIOUS
<1>1. TypeOK
  BY TypeInit
<1>2. \A a \in Action : status[a] = "none" /\ results[a] = <<>> /\ issued[a] = 0 /\ landed[a] = 0
  BY DEF Init
<1>3. \A c \in Call : pc[c] = "idle"
  BY DEF Init
<1>4. \A a \in Action : RowOK(a)
  <2> TAKE a \in Action
  <2>1. status[a] = "none" /\ results[a] = <<>> /\ issued[a] = 0 /\ landed[a] = 0
    BY <1>2
  <2>2. ~ (status[a] \in Outcome)
    BY <2>1 DEF Outcome
  <2> QED
    BY <2>1, <2>2 DEF RowOK
<1>5. \A c \in Call : Custody(c)
  BY <1>3 DEF Custody, Running, Executing
<1>6. Exclusive /\ NoOrphan
  BY <1>2, <1>3 DEF Exclusive, NoOrphan, Executing
<1> QED
  BY <1>1, <1>4, <1>5, <1>6 DEF GateInv

(* The start: the row is new, so no other call is in custody of it, and    *)
(* the checks of begin tie it to the review.                               *)
LEMMA BeginStep ==
  ASSUME GateInv, TypeOK', NEW c \in Call, Begin(c)
  PROVE  GateInv'
<1> USE DEF GateInv, Begin, Move, ledger, process, arguments, world
<1>1. /\ id[c] \in Action /\ status[id[c]] = "none" /\ pc[c] = "cleared" /\ up
      /\ issued[id[c]] = 0 /\ results[id[c]] = <<>>
      /\ review[id[c]] = [rev |-> snap[c], param |-> param[c], verdict |-> "allow"]
      /\ status' = [status EXCEPT ![id[c]] = "started"]
      /\ basis' = [basis EXCEPT ![id[c]] = [rev |-> snap[c], param |-> param[c]]]
      /\ pc' = [pc EXCEPT ![c] = "begun"]
      /\ status \in [Action -> Status] /\ pc \in [Call -> Pc] /\ DOMAIN basis = Action
      /\ UNCHANGED <<rev, review, results, up, id, said, issued, landed>>
  BY DEF Custody, RowOK, Authorised, Running, TypeOK, Outcome
<1>2. \A a \in Action : RowOK(a)'
  <2> TAKE a \in Action
  <2>1. CASE a = id[c]
    <3>1. basis'[a] = [rev |-> snap[c], param |-> param[c]]
      BY <2>1, <1>1
    <3>2. basis'[a].rev = snap[c] /\ basis'[a].param = param[c]
      BY <3>1
    <3> QED
      BY <2>1, <3>2, <1>1 DEF RowOK, Outcome
  <2>2. CASE a # id[c]
    BY <2>2, <1>1 DEF RowOK
  <2> QED
    BY <2>1, <2>2
<1>3. \A d \in Call : pc[d] \in Executing => id[d] # id[c]
  BY <1>1 DEF Custody
<1>4. \A d \in Call : Custody(d)'
  <2> TAKE d \in Call
  <2>1. CASE d = c
    BY <2>1, <1>1 DEF Custody, Running, Executing
  <2>2. CASE d # c
    BY <2>2, <1>1, <1>3 DEF Custody, Running, Executing
  <2> QED
    BY <2>1, <2>2
<1>5. Exclusive'
  BY <1>1, <1>3 DEF Exclusive, Executing
<1>6. NoOrphan'
  BY <1>1 DEF NoOrphan, Executing
<1> QED
  BY <1>2, <1>4, <1>5, <1>6

(* The outcome: the one call in custody of the row settles it.             *)
LEMMA FinishStep ==
  ASSUME GateInv, TypeOK', NEW c \in Call, Finish(c)
  PROVE  GateInv'
<1> USE DEF GateInv, Finish, Move, process, arguments, world
<1>1. /\ id[c] \in Action /\ status[id[c]] = "started" /\ pc[c] = "answered" /\ up
      /\ said[c] \in Outcome
      /\ said[c] = "succeeded" => landed[id[c]] = 1
      /\ said[c] = "rejected" => issued[id[c]] = 0
      /\ results[id[c]] = <<>>
      /\ status' = [status EXCEPT ![id[c]] = said[c]]
      /\ results' = [results EXCEPT ![id[c]] = Append(<<>>, said[c])]
      /\ pc' = [pc EXCEPT ![c] = "returned"]
      /\ status \in [Action -> Status] /\ pc \in [Call -> Pc] /\ DOMAIN results = Action
      /\ UNCHANGED <<review, basis, up, id, said, issued, landed>>
  BY DEF Custody, RowOK, Running, Executing, TypeOK, Outcome
<1>2. Append(<<>>, said[c]) = <<said[c]>>
  OBVIOUS
<1>3. \A a \in Action : RowOK(a)'
  <2> TAKE a \in Action
  <2>1. CASE a = id[c]
    BY <2>1, <1>1, <1>2 DEF RowOK, Outcome
  <2>2. CASE a # id[c]
    BY <2>2, <1>1 DEF RowOK
  <2> QED
    BY <2>1, <2>2
<1>4. \A d \in Call \ {c} : pc[d] \in Executing => id[d] # id[c]
  BY <1>1 DEF Exclusive, Executing
<1>5. \A d \in Call : Custody(d)'
  <2> TAKE d \in Call
  <2>1. CASE d = c
    BY <2>1, <1>1 DEF Custody, Running, Executing
  <2>2. CASE d # c
    BY <2>2, <1>1, <1>4 DEF Custody, Running, Executing
  <2> QED
    BY <2>1, <2>2
<1>6. Exclusive'
  <2>1. \A d \in Call : pc'[d] \in Executing => pc[d] \in Executing
    BY <1>1 DEF Executing
  <2> QED
    BY <2>1, <1>1 DEF Exclusive
<1>7. NoOrphan'
  <2> SUFFICES ASSUME NEW a \in Action, up', status'[a] = "started"
               PROVE  \E d \in Call : id'[d] = a /\ pc'[d] \in Executing \cup {"error"}
    BY DEF NoOrphan
  <2>1. a # id[c] /\ status[a] = "started"
    BY <1>1 DEF Outcome
  <2>2. PICK d \in Call : id[d] = a /\ pc[d] \in Executing \cup {"error"}
    BY <2>1, <1>1 DEF NoOrphan
  <2> QED
    BY <2>1, <2>2, <1>1
<1> QED
  BY <1>3, <1>5, <1>6, <1>7

(* Restart: recovery settles every started row, and no call is running.    *)
LEMMA RecoverStep ==
  ASSUME GateInv, TypeOK', Recover
  PROVE  GateInv'
<1> USE DEF GateInv, Recover, Unsettled, arguments, world
<1>1. \A a \in Action : RowOK(a)'
  <2> TAKE a \in Action
  <2>1. CASE status[a] = "started"
    <3>1. results[a] = <<>> /\ results'[a] = Append(<<>>, "unknown") /\ status'[a] = "unknown"
      BY <2>1 DEF RowOK, Outcome
    <3>2. Append(<<>>, "unknown") = <<"unknown">>
      OBVIOUS
    <3> QED
      BY <2>1, <3>1, <3>2 DEF RowOK, Outcome
  <2>2. CASE status[a] # "started"
    BY <2>2 DEF RowOK
  <2> QED
    BY <2>1, <2>2
<1>2. \A d \in Call : Custody(d)'
  BY DEF Custody, Running, Executing, TypeOK
<1>3. Exclusive' /\ NoOrphan'
  BY DEF Exclusive, NoOrphan, Custody, Running, Executing, TypeOK
<1> QED
  BY <1>1, <1>2, <1>3

(* Every step of the boundary keeps the invariant.                         *)
LEMMA GateNext == GateInv /\ [Next]_vars => GateInv'
<1> SUFFICES ASSUME GateInv, [Next]_vars PROVE GateInv'
  OBVIOUS
<1>0. TypeOK'
  BY TypeNext DEF GateInv
<1>t. said \in [Call -> Feedback]
  BY DEF GateInv, TypeOK
<1> USE DEF ledger, process, arguments, world, Move, Tell, Return, Answered
<1>1. ASSUME NEW c \in Call, NEW a \in Action, NEW p \in Param, Execute(c, a, p)
      PROVE GateInv'
  <2> USE <1>0, <1>1 DEF Execute, GateInv, TypeOK
  <2>1. \A b \in Action : RowOK(b)'
    BY DEF RowOK
  <2>2. \A d \in Call : Custody(d)'
    BY DEF Custody, Running, Executing
  <2>3. Exclusive'
    BY DEF Exclusive, Executing
  <2>4. NoOrphan'
    BY DEF NoOrphan, Executing
  <2> QED
    BY <2>1, <2>2, <2>3, <2>4
<1>2. ASSUME NEW c \in Call, CallStep(c)
      PROVE GateInv'
  <2>1. CASE Refuse(c)
    BY <1>0, <2>1, <1>t, QuietStep DEF Refuse
  <2>2. CASE Snapshot(c)
    BY <1>0, <2>2, QuietStep DEF Snapshot
  <2>3. CASE CancelReview(c)
    BY <1>0, <2>3, <1>t, QuietStep DEF CancelReview
  <2>4. CASE ReviewedBefore(c)
    BY <1>0, <2>4, QuietStep DEF ReviewedBefore
  <2>5. ASSUME NEW v \in {"allow", "reject"}, RecordReview(c, v)
        PROVE GateInv'
    <3>1. \A a \in Action : status[a] # "none" => review'[a] = review[a]
      BY <2>5 DEF RecordReview, GateInv, RowOK, TypeOK
    <3>2. CASE v = "allow"
      <4>1. /\ pc[c] = "snapped" /\ pc' = [pc EXCEPT ![c] = "allowed"]
            /\ UNCHANGED <<said, status, basis, results, up, id, issued, landed>>
        BY <2>5, <3>2 DEF RecordReview
      <4> QED
        BY <1>0, <3>1, <4>1, QuietStep
    <3>3. CASE v = "reject"
      <4>1. /\ pc[c] = "snapped" /\ pc' = [pc EXCEPT ![c] = "returned"]
            /\ said' = [said EXCEPT ![c] = "rejected"]
            /\ UNCHANGED <<status, basis, results, up, id, issued, landed>>
        BY <2>5, <3>3 DEF RecordReview
      <4> QED
        BY <1>0, <1>t, <3>1, <4>1, QuietStep
    <3> QED
      BY <3>2, <3>3
  <2>6. CASE CheckCancel(c)
    <3>1. CASE cancelled
      BY <1>0, <1>t, <2>6, <3>1, QuietStep DEF CheckCancel
    <3>2. CASE ~ cancelled
      BY <1>0, <2>6, <3>2, QuietStep DEF CheckCancel
    <3> QED
      BY <3>1, <3>2
  <2>7. CASE Begin(c)
    BY <1>0, <2>7, BeginStep
  <2>8. CASE BeginRefused(c)
    BY <1>0, <2>8, <1>t, QuietStep DEF BeginRefused
  <2>9. CASE Issue(c)
    <3>1. issued' = [issued EXCEPT ![id[c]] = issued[id[c]] + 1]
      BY <2>9 DEF Issue
    <3>2. /\ pc[c] \in Executing /\ pc[c] = "begun" /\ pc' = [pc EXCEPT ![c] = "issued"]
          /\ UNCHANGED <<said, status, basis, results, review, up, id, landed>>
      BY <2>9 DEF Issue, Executing
    <3> QED
      BY <1>0, <3>1, <3>2, CustodyStep
  <2>10. CASE AnswerUnissued(c)
    <3>1. issued[id[c]] = 0
      BY <2>10 DEF AnswerUnissued, GateInv, Custody
    <3>2. PICK o \in {"rejected", "unknown", "failed"} : Answered(c, o)
      BY <2>10 DEF AnswerUnissued
    <3> QED
      BY <1>0, <1>t, <2>10, <3>1, <3>2, CustodyStep DEF AnswerUnissued, Executing, Outcome
  <2>11. CASE AnswerSuccess(c)
    <3>1. landed[id[c]] = 1
      <4>1. id[c] \in Action /\ status[id[c]] = "started"
        BY <2>11 DEF AnswerSuccess, GateInv, Custody, Executing
      <4>2. landed[id[c]] = issued[id[c]] /\ issued[id[c]] = 1
        BY <2>11 DEF AnswerSuccess, GateInv, Custody
      <4> QED
        BY <4>2
    <3> QED
      BY <1>0, <1>t, <2>11, <3>1, CustodyStep DEF AnswerSuccess, Executing, Outcome
  <2>12. CASE AnswerError(c)
    <3>1. PICK o \in {"unknown", "failed"} : Answered(c, o)
      BY <2>12 DEF AnswerError
    <3> QED
      BY <1>0, <1>t, <2>12, <3>1, CustodyStep DEF AnswerError, Executing, Outcome
  <2>13. CASE Finish(c)
    BY <1>0, <2>13, FinishStep
  <2>14. CASE LedgerError(c)
    <3>1. CASE pc[c] \in {"called", "snapped"}
      BY <1>0, <2>14, <3>1, QuietStep DEF LedgerError
    <3>2. CASE pc[c] \in {"begun", "answered"}
      BY <1>0, <2>14, <3>2, CustodyStep DEF LedgerError, Executing
    <3> QED
      BY <2>14, <3>1, <3>2 DEF LedgerError
  <2> QED
    BY <1>2, <2>1, <2>2, <2>3, <2>4, <2>5, <2>6, <2>7, <2>8, <2>9, <2>10,
       <2>11, <2>12, <2>13, <2>14 DEF CallStep
<1>3. ASSUME NEW a \in Action, Land(a)
      PROVE GateInv'
  <2> USE <1>0, <1>3 DEF Land, GateInv, TypeOK
  <2>1. \A b \in Action : RowOK(b)'
    BY DEF RowOK, Outcome
  <2>2. \A d \in Call : Custody(d)'
    BY DEF Custody, RowOK
  <2>3. Exclusive' /\ NoOrphan'
    BY DEF Exclusive, NoOrphan
  <2> QED
    BY <2>1, <2>2, <2>3
<1>4. CASE NewFact \/ Cancel \/ UNCHANGED vars
  BY <1>0, <1>4 DEF NewFact, Cancel, vars, GateInv, RowOK, Custody, Exclusive, NoOrphan
<1>5. CASE Crash
  <2> USE <1>0, <1>5 DEF Crash, GateInv, TypeOK
  <2>1. \A d \in Call : ~ (pc'[d] \in Running \cup {"error"})
    BY DEF Running, Executing
  <2>2. \A b \in Action : RowOK(b)'
    BY DEF RowOK
  <2>3. \A d \in Call : Custody(d)'
    BY <2>1 DEF Custody, Running, Executing
  <2>4. Exclusive' /\ NoOrphan'
    BY <2>1 DEF Exclusive, NoOrphan, Running
  <2> QED
    BY <2>2, <2>3, <2>4
<1>6. CASE Recover
  BY <1>0, <1>6, RecoverStep
<1> QED
  BY <1>1, <1>2, <1>3, <1>4, <1>5, <1>6 DEF Next

----------------------------------------------------------------------------
(* Who asked.                                                              *)

(* A call that may have asked the outside world under a: it has issued,    *)
(* and if it has returned it did not say that nothing was asked.           *)
Issuer(d, a) ==
  /\ id[d] = a
  /\ pc[d] \in {"issued", "answered", "returned", "error", "dead"}
  /\ pc[d] = "returned" => ~ (said[d] \in {"rejected", "cancelled"})

Traced == \A a \in Action : issued[a] > 0 => \E d \in Call : Issuer(d, a)

(* Every request has a call behind it, whatever became of that call.       *)
LEMMA TracedNext == GateInv /\ Traced /\ [Next]_vars => Traced'
<1> SUFFICES ASSUME GateInv, Traced, [Next]_vars,
                    NEW a \in Action, issued'[a] > 0
             PROVE  \E d \in Call : Issuer(d, a)'
  BY DEF Traced
<1> USE DEF ledger, process, arguments, world, Move, Tell, Return, Answered
<1>1. TypeOK
  BY DEF GateInv
<1>2. CASE \E c \in Call : Issue(c) /\ id[c] = a
  BY <1>1, <1>2 DEF Issue, Issuer, TypeOK
<1>3. CASE ~ \E c \in Call : Issue(c) /\ id[c] = a
  <2>1. issued[a] > 0
    BY <1>1, <1>3 DEF TypeOK, vars, Next, CallStep, Execute, Refuse, Snapshot,
       CancelReview, ReviewedBefore, RecordReview, CheckCancel, Begin, BeginRefused,
       Issue, AnswerUnissued, AnswerSuccess, AnswerError, Finish, LedgerError, Land,
       NewFact, Cancel, Crash, Recover
  <2>2. PICK d \in Call : Issuer(d, a)
    BY <2>1 DEF Traced
  <2>3. ASSUME NEW c \in Call, CallStep(c), c # d
        PROVE  Issuer(d, a)'
    <3>1. id' = id /\ pc'[d] = pc[d] /\ said'[d] = said[d]
      BY <1>1, <2>3 DEF TypeOK, CallStep, Refuse, Snapshot,
         CancelReview, ReviewedBefore, RecordReview, CheckCancel, Begin, BeginRefused,
         Issue, AnswerUnissued, AnswerSuccess, AnswerError, Finish, LedgerError
    <3> QED
      BY <2>2, <3>1 DEF Issuer
  <2>4. ASSUME CallStep(d)
        PROVE  Issuer(d, a)'
    <3>1. AnswerSuccess(d) \/ AnswerError(d) \/ Finish(d) \/ LedgerError(d)
      BY <2>2, <2>4 DEF Issuer, CallStep, Refuse, Snapshot, CancelReview,
         ReviewedBefore, RecordReview, CheckCancel, Begin, BeginRefused, Issue,
         AnswerUnissued
    <3>2. CASE Finish(d)
      <4>1. said[d] \in Outcome /\ said[d] # "rejected"
        BY <2>1, <2>2, <3>2 DEF GateInv, Custody, Finish, Issuer
      <4> QED
        BY <1>1, <2>2, <3>2, <4>1 DEF Finish, Issuer, TypeOK, Outcome
    <3>3. CASE AnswerSuccess(d) \/ AnswerError(d)
      BY <1>1, <2>2, <3>3 DEF AnswerSuccess, AnswerError, Issuer, TypeOK
    <3>4. CASE LedgerError(d)
      BY <1>1, <2>2, <3>4 DEF LedgerError, Issuer, TypeOK
    <3> QED
      BY <3>1, <3>2, <3>3, <3>4
  <2>5. CASE \E c \in Call, b \in Action, p \in Param : Execute(c, b, p)
    BY <1>1, <2>2, <2>5 DEF Execute, Issuer, TypeOK
  <2>6. CASE Crash
    BY <1>1, <2>2, <2>6 DEF Crash, Issuer, TypeOK, Running, Executing
  <2>7. CASE NewFact \/ Cancel \/ Recover \/ (\E b \in Action : Land(b)) \/ UNCHANGED vars
    BY <2>2, <2>7 DEF NewFact, Cancel, Recover, Land, vars, Issuer
  <2> QED
    BY <2>3, <2>4, <2>5, <2>6, <2>7 DEF Next
<1> QED
  BY <1>2, <1>3

----------------------------------------------------------------------------
(* The theorems.                                                           *)

(* The inductive invariant holds in every reachable state.                 *)
THEOREM GateInvariant == Spec => []GateInv
BY GateInit, GateNext, PTL DEF Spec

(* Every table, token and call of the execution boundary stays well typed. *)
THEOREM TypeCorrect == Spec => []TypeOK
<1>1. GateInv => TypeOK
  BY DEF GateInv
<1> QED
  BY GateInvariant, <1>1, PTL

(* No execution, crash or repeated call of execute asks the outside world  *)
(* twice for one action, or before its start is durable under the review.  *)
THEOREM NeverReplayed == Spec => [](AtMostOnce /\ WriteAhead)
<1>1. GateInv => AtMostOnce /\ WriteAhead
  BY DEF GateInv, RowOK, AtMostOnce, WriteAhead, TypeOK
<1> QED
  BY GateInvariant, <1>1, PTL

(* Every action has at most one result event, the one its table row shows, *)
(* and success and rejection are never claimed falsely.                    *)
THEOREM ReceiptsAreTrue == Spec => [](OneReceipt /\ TruthfulReceipt)
<1>1. GateInv => OneReceipt /\ TruthfulReceipt
  BY DEF GateInv, RowOK, OneReceipt, TruthfulReceipt
<1> QED
  BY GateInvariant, <1>1, PTL

(* What the caller of execute was told is what the ledger keeps; and if it *)
(* was told of a refusal or a cancellation, only another call can have     *)
(* asked anything under that id.                                           *)
THEOREM ToldTruly == Spec => []ToldAsRecorded
<1>1. Init => Traced
  BY DEF Init, Traced
<1>2. Spec => []Traced
  BY <1>1, GateInvariant, TracedNext, PTL DEF Spec
<1>3. GateInv /\ Traced => ToldAsRecorded
  <2> SUFFICES ASSUME GateInv, Traced, NEW c \in Call, pc[c] = "returned",
                      said[c] \in {"rejected", "cancelled"}, issued[id[c]] # 0
               PROVE  \E d \in Call \ {c} :
                        /\ id[d] = id[c]
                        /\ pc[d] \in {"issued", "answered", "returned", "error", "dead"}
    BY DEF ToldAsRecorded, GateInv, Custody
  <2>1. id[c] \in Action /\ issued[id[c]] > 0
    BY DEF GateInv, Custody, TypeOK
  <2>2. PICK d \in Call : Issuer(d, id[c])
    BY <2>1 DEF Traced
  <2>3. d # c
    BY <2>2 DEF Issuer
  <2> QED
    BY <2>2, <2>3 DEF Issuer
<1> QED
  BY GateInvariant, <1>2, <1>3, PTL

(* Only an execution in progress or a ledger failure leaves an action      *)
(* started in a live process.                                              *)
THEOREM NothingOrphaned == Spec => []NoOrphan
<1>1. GateInv => NoOrphan
  BY DEF GateInv
<1> QED
  BY GateInvariant, <1>1, PTL

(* An action is started only on the newest facts its reviewer saw.         *)
THEOREM StartsAreFresh == Spec => FreshStart
<1>1. GateInv /\ [Next]_vars => [StartOnNewest]_vars
  <2> SUFFICES ASSUME GateInv, Next, NEW a \in Action,
                      status[a] = "none", status'[a] = "started"
               PROVE  \E c \in Call : id[c] = a /\ snap[c] = rev /\ review[a].rev = rev
    BY DEF StartOnNewest
  <2> USE DEF ledger, process, arguments, world
  <2>1. PICK c \in Call : Begin(c) \/ Finish(c)
    BY DEF Next, CallStep, Execute, Refuse, Snapshot, CancelReview, ReviewedBefore,
           RecordReview, CheckCancel, BeginRefused, Issue, AnswerUnissued, AnswerSuccess,
           AnswerError, Answered, LedgerError, Land, NewFact, Cancel, Crash, Recover,
           Unsettled
  <2>2. status \in [Action -> Status] /\ Custody(c)
    BY DEF GateInv, TypeOK
  <2>3. CASE Finish(c)
    BY <2>2, <2>3 DEF Finish, Custody, Outcome
  <2>4. CASE Begin(c)
    <3>1. a = id[c]
      BY <2>2, <2>4 DEF Begin
    <3>2. rev = snap[c]
          /\ review[id[c]] = [rev |-> snap[c], param |-> param[c], verdict |-> "allow"]
      BY <2>4 DEF Begin, Authorised
    <3> QED
      BY <3>1, <3>2
  <2> QED
    BY <2>1, <2>3, <2>4
<1> QED
  BY GateInvariant, <1>1, PTL DEF FreshStart, Spec

(* Once settled, an action's status, basis and receipt never change.       *)
THEOREM SettledStays == Spec => SettledForGood
<1>1. GateInv /\ [Next]_vars => [KeepSettled]_vars
  <2> SUFFICES ASSUME GateInv, Next, NEW a \in Action, status[a] \in Outcome
               PROVE  status'[a] = status[a] /\ basis'[a] = basis[a] /\ results'[a] = results[a]
    BY DEF KeepSettled
  <2> USE DEF ledger, process, arguments, world
  <2>1. CASE \E c \in Call : Begin(c) \/ Finish(c)
    <3>1. PICK c \in Call : Begin(c) \/ Finish(c)
      BY <2>1
    <3>2. id[c] # a
      BY <3>1 DEF GateInv, Custody, Begin, Finish, Authorised, Executing, Outcome
    <3>3. \A b \in Action : b # id[c] =>
            status'[b] = status[b] /\ basis'[b] = basis[b] /\ results'[b] = results[b]
      BY <3>1 DEF Begin, Finish, GateInv, TypeOK
    <3> QED
      BY <3>2, <3>3
  <2>2. CASE Recover
    BY <2>2 DEF Recover, Unsettled, Outcome
  <2>3. CASE UNCHANGED <<status, basis, results>>
    BY <2>3
  <2> QED
    BY <2>1, <2>2, <2>3
       DEF Next, CallStep, Execute, Refuse, Snapshot, CancelReview, ReviewedBefore,
           RecordReview, CheckCancel, BeginRefused, Issue, AnswerUnissued, AnswerSuccess,
           AnswerError, Answered, LedgerError, Land, NewFact, Cancel, Crash
<1> QED
  BY GateInvariant, <1>1, PTL DEF SettledForGood, Spec

(* The execution boundary implements the life cycle of an action: every    *)
(* step of reviews, calls, the ledger, crashes and recovery maps to a step *)
(* of ActionLifecycle or leaves it alone.                                  *)
THEOREM ImplementsActionLifecycle == Spec => ImplementsLifecycle
<1>1. Init => Lifecycle!AInit
  BY DEF Init, Lifecycle!AInit
<1>2. GateInv /\ [Next]_vars => [Lifecycle!ANext]_(Lifecycle!avars)
  <2> SUFFICES ASSUME GateInv, [Next]_vars
               PROVE  Lifecycle!ANext \/ UNCHANGED Lifecycle!avars
    OBVIOUS
  <2> USE DEF ledger, process, arguments, world
  <2>1. ASSUME NEW c \in Call, Begin(c)
        PROVE  Lifecycle!ANext
    <3>1. id[c] \in Action
      BY <2>1 DEF Begin, GateInv, Custody
    <3>2. Lifecycle!Authorise(id[c])
      BY <2>1 DEF Begin, Authorised, Lifecycle!Authorise
    <3> QED
      BY <3>1, <3>2 DEF Lifecycle!ANext
  <2>2. ASSUME NEW c \in Call, Issue(c)
        PROVE  Lifecycle!ANext
    <3>1. id[c] \in Action /\ status[id[c]] = "started" /\ issued[id[c]] = 0
      BY <2>2 DEF Issue, GateInv, Custody, Executing
    <3>2. Lifecycle!Attempt(id[c])
      BY <2>2, <3>1 DEF Issue, Lifecycle!Attempt
    <3> QED
      BY <3>1, <3>2 DEF Lifecycle!ANext
  <2>3. ASSUME NEW a \in Action, Land(a)
        PROVE  Lifecycle!ANext
    BY <2>3 DEF Land, Lifecycle!Land, Lifecycle!ANext
  <2>4. ASSUME NEW c \in Call, Finish(c)
        PROVE  Lifecycle!ANext
    <3>1. /\ id[c] \in Action
          /\ said[c] \in Outcome
          /\ said[c] = "succeeded" => landed[id[c]] = 1
          /\ said[c] = "rejected" => issued[id[c]] = 0
      BY <2>4 DEF Finish, GateInv, Custody
    <3>2. Lifecycle!Resolve(id[c], said[c])
      BY <2>4, <3>1 DEF Finish, Outcome, Lifecycle!Resolve, Lifecycle!Final
    <3> QED
      BY <3>1, <3>2 DEF Outcome, Lifecycle!ANext, Lifecycle!Final
  <2>5. ASSUME Recover
        PROVE  Lifecycle!ANext
    BY <2>5 DEF Recover, Unsettled, Lifecycle!GiveUp, Lifecycle!ANext
  <2>6. CASE UNCHANGED <<status, issued, landed>>
    BY <2>6 DEF Lifecycle!avars
  <2> QED
    BY <2>1, <2>2, <2>3, <2>4, <2>5, <2>6
       DEF Next, CallStep, Execute, Refuse, Snapshot, CancelReview, ReviewedBefore,
           RecordReview, CheckCancel, BeginRefused, AnswerUnissued, AnswerSuccess,
           AnswerError, Answered, LedgerError, NewFact, Cancel, Crash, vars
<1> QED
  BY GateInvariant, <1>1, <1>2, PTL DEF Spec, ImplementsLifecycle, Lifecycle!ASpec
=============================================================================
