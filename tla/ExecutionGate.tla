--------------------------- MODULE ExecutionGate ---------------------------
(***************************************************************************)
(* The execution boundary: Executor::execute (executor.rs) over the        *)
(* actions, reviews and fact events of the ledger (ledger.rs).             *)
(*                                                                         *)
(* A call of execute validates a proposed action, takes a snapshot of the  *)
(* facts, asks an independent reviewer, records the verdict, registers the *)
(* start in one short transaction that rechecks the facts, performs the    *)
(* external request outside any lock, and commits the outcome.  Calls have *)
(* no lock of their own, so their steps interleave with one another, with  *)
(* facts arriving from ingress, with cancellation and with crashes.        *)
(***************************************************************************)
EXTENDS Naturals, Sequences

CONSTANTS
  Action,                  \* action identifiers, the primary keys of actions and reviews
  Param,                   \* exact parameters, as told apart by Action::fingerprint
  SendParam,               \* the parameters that are messages; the others are tool calls
  Call,                    \* invocations of execute
  MaxFact                  \* bound: facts other than action results arrive while rev < MaxFact

ASSUME GateAssumption ==
  /\ SendParam \subseteq Param
  /\ MaxFact \in Nat

NoId == "no id"
NoParam == "no param"

Outcome == {"succeeded", "failed", "rejected", "unknown"}    \* what finish may record
Status == Outcome \cup {"none", "started"}
Feedback == Outcome \cup {"none", "cancelled"}

(* Where a call is: called - before the snapshot; snapped - waiting for    *)
(* the verdict; allowed - verdict recorded; cleared - cancellation checked;*)
(* begun - start committed; issued - request sent; answered - outcome      *)
(* known, not yet committed; returned, error - execute gave Ok or Err.     *)
Pc == {"idle", "called", "snapped", "allowed", "cleared", "begun", "issued",
       "answered", "returned", "error", "dead"}
Executing == {"begun", "issued", "answered"}
Running == {"called", "snapped", "allowed", "cleared"} \cup Executing

VARIABLES
  rev,                     \* Ledger::revision: the newest fact event
  review,                  \* table reviews
  status,                  \* table actions: its status column, "none" if there is no row
  basis,                   \* table actions: the revision and parameters of the row
  results,                 \* results[a]: statuses of the action_result events of a, in order
  up,                      \* the process owns the ledger
  cancelled,               \* the process-wide CancellationToken
  pc,                      \* where each call of execute is
  id, param,               \* its arguments: the action identifier and the exact parameters
  snap,                    \* the revision of the snapshot it was reviewed on
  said,                    \* the outcome it holds or the feedback it returned
  issued,                  \* issued[a]: requests handed to the transport or the tool
  landed                   \* landed[a]: of these, the ones that took effect

ledger == <<rev, review, status, basis, results>>
process == <<up, cancelled>>
arguments == <<id, param>>
world == <<issued, landed>>
vars == <<rev, review, status, basis, results, up, cancelled,
          pc, id, param, snap, said, issued, landed>>

Init ==
  /\ rev = 0
  /\ review = [a \in Action |-> [rev |-> 0, param |-> NoParam, verdict |-> "none"]]
  /\ status = [a \in Action |-> "none"]
  /\ basis = [a \in Action |-> [rev |-> 0, param |-> NoParam]]
  /\ results = [a \in Action |-> <<>>]
  /\ up = TRUE
  /\ cancelled = FALSE
  /\ pc = [c \in Call |-> "idle"]
  /\ id = [c \in Call |-> NoId]
  /\ param = [c \in Call |-> NoParam]
  /\ snap = [c \in Call |-> 0]
  /\ said = [c \in Call |-> "none"]
  /\ issued = [a \in Action |-> 0]
  /\ landed = [a \in Action |-> 0]

Move(c, to) == pc' = [pc EXCEPT ![c] = to] /\ UNCHANGED said
Tell(c, to, what) == pc' = [pc EXCEPT ![c] = to] /\ said' = [said EXCEPT ![c] = what]
Return(c, feedback) == Tell(c, "returned", feedback)

----------------------------------------------------------------------------
(* Up to the verdict.                                                      *)

Execute(c, a, p) ==
  /\ up /\ pc[c] = "idle"
  /\ Move(c, "called")
  /\ id' = [id EXCEPT ![c] = a]
  /\ param' = [param EXCEPT ![c] = p]
  /\ UNCHANGED <<ledger, process, snap, world>>

(* Validation against the directory, the media grants or the tool schema   *)
(* fails: the refusal is an audit event, no fact and no review.            *)
Refuse(c) ==
  /\ pc[c] = "called"
  /\ Return(c, "rejected")
  /\ UNCHANGED <<ledger, process, arguments, snap, world>>

Snapshot(c) ==
  /\ pc[c] = "called"
  /\ Move(c, "snapped")
  /\ snap' = [snap EXCEPT ![c] = rev]
  /\ UNCHANGED <<ledger, process, arguments, world>>

CancelReview(c) ==
  /\ pc[c] = "snapped" /\ cancelled
  /\ Return(c, "cancelled")
  /\ UNCHANGED <<ledger, process, arguments, snap, world>>

(* ledger.review inserts under the primary key id: a second review of the  *)
(* same action is an error.  A reviewer that fails counts as a rejection.  *)
RecordReview(c, verdict) ==
  /\ pc[c] = "snapped"
  /\ review[id[c]].verdict = "none"
  /\ review' = [review EXCEPT ![id[c]] =
                  [rev |-> snap[c], param |-> param[c], verdict |-> verdict]]
  /\ IF verdict = "allow" THEN Move(c, "allowed") ELSE Return(c, "rejected")
  /\ UNCHANGED <<rev, status, basis, results, process, arguments, snap, world>>

ReviewedBefore(c) ==
  /\ pc[c] = "snapped"
  /\ review[id[c]].verdict # "none"
  /\ Move(c, "error")
  /\ UNCHANGED <<ledger, process, arguments, snap, world>>

CheckCancel(c) ==
  /\ pc[c] = "allowed"
  /\ IF cancelled THEN Return(c, "cancelled") ELSE Move(c, "cleared")
  /\ UNCHANGED <<ledger, process, arguments, snap, world>>

----------------------------------------------------------------------------
(* The start, the request and the outcome.                                 *)

(* Mutant: begin trusts the reviewer's snapshot.                           *)
AuthorisedOnStale(c) ==
  /\ review[id[c]] = [rev |-> snap[c], param |-> param[c], verdict |-> "allow"]
  /\ status[id[c]] = "none"

(* The checks of Ledger::begin, all in the transaction that inserts the row.*)
Authorised(c) ==
  /\ rev = snap[c]
  /\ review[id[c]] = [rev |-> snap[c], param |-> param[c], verdict |-> "allow"]
  /\ status[id[c]] = "none"

Begin(c) ==
  /\ pc[c] = "cleared"
  /\ Authorised(c)
  /\ status' = [status EXCEPT ![id[c]] = "started"]
  /\ basis' = [basis EXCEPT ![id[c]] = [rev |-> snap[c], param |-> param[c]]]
  /\ Move(c, "begun")
  /\ UNCHANGED <<rev, review, results, process, arguments, snap, world>>

(* A check fails, or the transaction itself does: no row either way.       *)
BeginRefused(c) ==
  /\ pc[c] = "cleared"
  /\ Return(c, "rejected")
  /\ UNCHANGED <<ledger, process, arguments, snap, world>>

Issue(c) ==
  /\ pc[c] = "begun"
  /\ Move(c, "issued")
  /\ issued' = [issued EXCEPT ![id[c]] = @ + 1]
  /\ UNCHANGED <<ledger, process, arguments, snap, landed>>

(* The effect lands when the outside world gets to it, even after the      *)
(* request timed out or the process died.                                  *)
Land(a) ==
  /\ landed[a] < issued[a]
  /\ landed' = [landed EXCEPT ![a] = @ + 1]
  /\ UNCHANGED <<ledger, process, pc, arguments, snap, said, issued>>

Answered(c, outcome) ==
  /\ Tell(c, "answered", outcome)
  /\ UNCHANGED <<ledger, process, arguments, snap, world>>

(* No request was made: NotStarted is a rejection; any other send error    *)
(* before the request still counts as unknown; a tool error is a failure.  *)
AnswerUnissued(c) ==
  /\ pc[c] = "begun"
  /\ \E o \in IF param[c] \in SendParam THEN {"rejected", "unknown"} ELSE {"failed"} :
       Answered(c, o)

AnswerSuccess(c) ==
  /\ pc[c] = "issued"
  /\ landed[id[c]] = issued[id[c]]
  /\ Answered(c, "succeeded")

(* Mutant: an error of the request is taken for a transport that refused.  *)
AnswerNotStarted(c) ==
  /\ pc[c] = "issued"
  /\ Answered(c, "rejected")

(* Mutant: a request that failed is tried again.                           *)
AnswerRetry(c) ==
  /\ pc[c] = "issued"
  /\ Move(c, "begun")
  /\ UNCHANGED <<ledger, process, arguments, snap, world>>

(* An error after the request: a send error is never proof of no effect;   *)
(* an interrupted command is UnknownEffect; other tool errors are failures.*)
AnswerError(c) ==
  /\ pc[c] = "issued"
  /\ \E o \in IF param[c] \in SendParam THEN {"unknown"} ELSE {"unknown", "failed"} :
       Answered(c, o)

Finish(c) ==
  /\ pc[c] = "answered"
  /\ status[id[c]] = "started"
  /\ status' = [status EXCEPT ![id[c]] = said[c]]
  /\ results' = [results EXCEPT ![id[c]] = Append(@, said[c])]
  /\ rev' = rev + 1
  /\ Move(c, "returned")
  /\ UNCHANGED <<review, basis, process, arguments, snap, world>>

(* Mutant: the feedback is returned although the outcome was not committed. *)
LedgerErrorIgnored(c) ==
  /\ pc[c] = "answered"
  /\ Move(c, "returned")
  /\ UNCHANGED <<ledger, process, arguments, snap, world>>

(* A ledger call of execute fails and `?` ends it: the action_rejected     *)
(* event or the snapshot, the review_started event or the review, the      *)
(* action_started event, or finish.                                        *)
LedgerError(c) ==
  /\ pc[c] \in {"called", "snapped", "begun", "answered"}
  /\ Move(c, "error")
  /\ UNCHANGED <<ledger, process, arguments, snap, world>>

----------------------------------------------------------------------------
(* The surroundings.                                                       *)

(* inbound, media_observation, media_registered, profile_changed or        *)
(* capabilities_changed, committed by anybody, for any session.            *)
NewFact ==
  /\ up /\ rev < MaxFact
  /\ rev' = rev + 1
  /\ UNCHANGED <<review, status, basis, results, process, pc, arguments, snap, said, world>>

Cancel ==
  /\ up /\ ~cancelled
  /\ cancelled' = TRUE
  /\ UNCHANGED <<ledger, up, pc, arguments, snap, said, world>>

Crash ==
  /\ up
  /\ up' = FALSE
  /\ cancelled' = FALSE
  /\ pc' = [c \in Call |-> IF pc[c] \in Running \cup {"error"} THEN "dead" ELSE pc[c]]
  /\ UNCHANGED <<ledger, arguments, snap, said, world>>

Unsettled == {a \in Action : status[a] = "started"}

(* Mutant: recovery leaves started rows alone.                             *)
RecoverNothing ==
  /\ ~up
  /\ up' = TRUE
  /\ UNCHANGED <<ledger, cancelled, pc, arguments, snap, said, world>>

(* Ledger::open after the process lock is taken: every started action      *)
(* becomes unknown, with its own result event, in one transaction.         *)
Recover ==
  /\ ~up
  /\ up' = TRUE
  /\ status' = [a \in Action |-> IF a \in Unsettled THEN "unknown" ELSE status[a]]
  /\ results' = [a \in Action |-> IF a \in Unsettled
                                  THEN Append(results[a], "unknown") ELSE results[a]]
  /\ rev' = IF Unsettled = {} THEN rev ELSE rev + 1
  /\ UNCHANGED <<review, basis, cancelled, pc, arguments, snap, said, world>>

CallStep(c) ==
  \/ Refuse(c) \/ Snapshot(c) \/ CancelReview(c) \/ ReviewedBefore(c)
  \/ \E v \in {"allow", "reject"} : RecordReview(c, v)
  \/ CheckCancel(c) \/ Begin(c) \/ BeginRefused(c) \/ Issue(c)
  \/ AnswerUnissued(c) \/ AnswerSuccess(c) \/ AnswerError(c)
  \/ Finish(c) \/ LedgerError(c)

Next ==
  \/ \E c \in Call, a \in Action, p \in Param : Execute(c, a, p)
  \/ \E c \in Call : CallStep(c)
  \/ \E a \in Action : Land(a)
  \/ NewFact \/ Cancel \/ Crash \/ Recover

(* Transports, tools and reviewers answer or time out, and a crashed       *)
(* service is started again.                                               *)
Fairness == (\A c \in Call : WF_vars(CallStep(c))) /\ WF_vars(Recover)

Spec == Init /\ [][Next]_vars /\ Fairness

----------------------------------------------------------------------------
(* Properties.                                                             *)

(* Every variable holds what its column, field or token can hold.          *)
TypeOK ==
  /\ rev \in Nat
  /\ review \in [Action -> [rev : Nat, param : Param \cup {NoParam},
                            verdict : {"none", "allow", "reject"}]]
  /\ status \in [Action -> Status]
  /\ basis \in [Action -> [rev : Nat, param : Param \cup {NoParam}]]
  /\ results \in [Action -> Seq(Outcome)]
  /\ up \in BOOLEAN /\ cancelled \in BOOLEAN
  /\ pc \in [Call -> Pc]
  /\ id \in [Call -> Action \cup {NoId}] /\ param \in [Call -> Param \cup {NoParam}]
  /\ snap \in [Call -> Nat] /\ said \in [Call -> Feedback]
  /\ issued \in [Action -> Nat] /\ landed \in [Action -> Nat]

(* However often and from wherever execute is called with an id, and       *)
(* whatever crashes in between, the outside world is asked at most once    *)
(* (executor.rs: nothing is ever replayed).                                *)
AtMostOnce == \A a \in Action : issued[a] <= 1

(* The start is durable before the request leaves, and it carries the      *)
(* exact parameters and the fact version some review allowed.              *)
WriteAhead ==
  \A a \in Action : issued[a] > 0 =>
    /\ status[a] # "none"
    /\ review[a] = [rev |-> basis[a].rev, param |-> basis[a].param, verdict |-> "allow"]

(* An action has a result event exactly when it is settled, only one, and  *)
(* it says what the actions table says - across finish, recovery and       *)
(* repeated calls.                                                         *)
OneReceipt ==
  \A a \in Action :
    results[a] = IF status[a] \in Outcome THEN <<status[a]>> ELSE <<>>

(* A recorded success is an effect that landed; a recorded rejection means *)
(* that nothing was or ever will be asked of the outside world.            *)
TruthfulReceipt ==
  \A a \in Action :
    /\ status[a] = "succeeded" => landed[a] = 1
    /\ status[a] = "rejected" => issued[a] = 0

(* What the model is told about an attempt is what the ledger keeps: no    *)
(* recovery or other call changes it afterwards.  If it is told that it    *)
(* was cancelled or rejected, then nothing was asked of the outside world  *)
(* under that id, unless by another call.                                  *)
ToldAsRecorded ==
  \A c \in Call : pc[c] = "returned" =>
    /\ said[c] \in {"succeeded", "failed", "unknown"} =>
         status[id[c]] = said[c]
    /\ said[c] \in {"rejected", "cancelled"} =>
         \/ issued[id[c]] = 0
         \/ \E d \in Call \ {c} :
              /\ id[d] = id[c]
              /\ pc[d] \in {"issued", "answered", "returned", "error", "dead"}

(* A started row of a live process belongs to a call that is still         *)
(* executing it, or to one that a ledger failure ended: nothing else can   *)
(* leave an action unsettled until the next restart.                       *)
NoOrphan ==
  \A a \in Action : up /\ status[a] = "started" =>
    \E c \in Call : id[c] = a /\ pc[c] \in Executing \cup {"error"}

(* An action starts only if no fact at all was committed after the         *)
(* snapshot its reviewer judged (Ledger::begin).                           *)
StartOnNewest ==
  \A a \in Action : status[a] = "none" /\ status'[a] = "started" =>
    \E c \in Call : id[c] = a /\ snap[c] = rev /\ review[a].rev = rev
FreshStart == [][StartOnNewest]_vars

(* A settled action keeps its status, parameters and receipt for ever.     *)
KeepSettled ==
  \A a \in Action : status[a] \in Outcome =>
    status'[a] = status[a] /\ basis'[a] = basis[a] /\ results'[a] = results[a]
SettledForGood == [][KeepSettled]_vars

(* A started action is settled in the end, by its call or by the restart   *)
(* after a crash, unless a ledger failure stranded it in a process that    *)
(* lives on.                                                               *)
StartedIsSettled ==
  \A a \in Action :
    status[a] = "started" ~>
      \/ status[a] \in Outcome
      \/ \E c \in Call : id[c] = a /\ pc[c] = "error"

(* The boundary implements the abstract life cycle of an action.           *)
Lifecycle == INSTANCE ActionLifecycle
  WITH phase <- status, attempts <- issued, effects <- landed
ImplementsLifecycle == Lifecycle!ASpec
=============================================================================
