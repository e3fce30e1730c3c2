---------------------------- MODULE V3IngressProofs ----------------------------
(***************************************************************************)
(* What V3Ingress keeps for any finite set of reports, any tasks, retries, *)
(* stops and crashes, from IngressAssumption alone: no report is answered  *)
(* again, and they are answered in the order in which they were accepted.  *)
(***************************************************************************)
EXTENDS V3Ingress, FiniteSetTheorems, SequenceTheorems, TLAPS

USE DEF database, process, worker, history

-----------------------------------------------------------------------------
(* The invariants. *)

(* What the worker has in hand; who waits for it waits for one that was    *)
(* cancelled and that nobody else can cancel.                              *)
Hands ==
  /\ queue \in Seq(Report) /\ ids \subseteq Report
  /\ wk \in {"off", "new", "wait", "leave", "run", "flush", "undo", "restore"}
  /\ cur \in Report \cup {None} /\ (wk \in {"run", "flush", "undo", "restore"} => cur # None)
  /\ tracked \in BOOLEAN /\ (tracked => wk # "off")
  /\ sched \in [Task -> {"off", "sleep", "fire", "await", "run", "late", "last"}]
  /\ displaced \subseteq Report /\ lost \subseteq Report
  /\ \A t \in Task : sched[t] \in {"await", "late"} =>
       ~tracked /\ wk \in {"leave", "undo", "restore"}

Rest ==
  /\ status \in [Report -> {"none", "received", "cancelled", "finalized", "error"}]
  /\ req \in [Request -> {"new", "look", "append", "put", "over"}]
  /\ task \in [Task -> {"none", "pending", "running", "done", "error"}]
  /\ up \in {"up", "closing", "stopping", "ending", "down"}
  /\ stops \in 0..MaxStop /\ crashes \in 0..MaxCrash

(* What is queued is received, queued once, and not what is being          *)
(* answered; and what is about to be queued is received too, unless the    *)
(* worker has been cancelled over it and has not put its status back.      *)
Lined ==
  /\ \A n \in DOMAIN queue : status[queue[n]] = "received" /\ queue[n] \in ids /\ queue[n] # cur
  /\ \A m, n \in DOMAIN queue : queue[m] = queue[n] => m = n
  /\ cur # None => cur \in ids /\ wk \in {"run", "flush", "undo", "restore", "leave"}
  /\ wk \in {"run", "undo"} => status[cur] = "received"
  /\ wk = "restore" => status[cur] = "cancelled"
  /\ \A q \in Request : req[q] = "put" =>
       status[q[1]] = "received" \/ (cur = q[1] /\ wk = "restore")
  /\ tracked => wk \in {"new", "wait", "run", "flush"}
  /\ up \notin {"up", "closing"} => \A q \in Request : req[q] \in {"new", "over"}
  /\ up = "down" => wk = "off"

(* What is stored, and what the senders were told of it.                   *)
Rows ==
  /\ ledger \in Seq(Report) /\ IsInjective(ledger)
  /\ \A r \in Report : r \in ToSet(ledger) <=> status[r] # "none"
  /\ told \subseteq ToSet(ledger) /\ ahead \in [Report -> SUBSET Report]

(* While the process may still answer: a report its sender was told of and *)
(* that is not answered waits in the queue, is being answered, or was      *)
(* taken away by a scheduled task; and it waits before those that were     *)
(* stored after it was told.                                               *)
Serving == up \in {"up", "closing", "stopping"}

Runs(e) == wk = "run" /\ cur = e

Queued(e) == \E n \in DOMAIN queue : queue[n] = e

Ordered ==
  /\ \A r \in Report : \A e \in ahead[r] : e \in told /\ Before(e, r)
  /\ up = "ending" => wk \in {"off", "leave", "undo", "restore"}
  /\ Serving /\ wk \in {"undo", "restore"} => cur \in displaced
  /\ Serving => \A e \in ids : status[e] # "none"
  /\ Serving => \A e \in told \cup ids : status[e] = "received" =>
       e \in displaced \/ Runs(e) \/ Queued(e)
  /\ Serving => \A n \in DOMAIN queue : \A e \in ahead[queue[n]] : status[e] = "received" =>
       e \in displaced \/ Runs(e) \/ \E m \in DOMAIN queue : m < n /\ queue[m] = e

-----------------------------------------------------------------------------
(* Sequences of reports. *)

LEMMA Appended ==
  ASSUME NEW s \in Seq(Report), NEW r \in Report
  PROVE  /\ Append(s, r) \in Seq(Report) /\ DOMAIN Append(s, r) = 1..Len(s) + 1
         /\ DOMAIN s = 1..Len(s) /\ Len(s) \in Nat
         /\ \A n \in DOMAIN s : Append(s, r)[n] = s[n]
         /\ Append(s, r)[Len(s) + 1] = r
OBVIOUS

LEMMA Elements ==
  ASSUME NEW s \in Seq(Report)
  PROVE  ToSet(s) \subseteq Report
BY DEF ToSet

LEMMA AppendedOnce ==
  ASSUME NEW s \in Seq(Report), NEW r \in Report, IsInjective(s), r \notin ToSet(s)
  PROVE  /\ Append(s, r) \in Seq(Report) /\ IsInjective(Append(s, r))
         /\ ToSet(Append(s, r)) = ToSet(s) \cup {r}
<1>. DEFINE t == Append(s, r)
<1>1. /\ t \in Seq(Report) /\ DOMAIN t = DOMAIN s \cup {Len(s) + 1} /\ Len(s) + 1 \notin DOMAIN s
      /\ \A n \in DOMAIN s : t[n] = s[n]
      /\ t[Len(s) + 1] = r
  BY Appended
<1>. HIDE DEF t
<1>2. IsInjective(t)
  BY <1>1 DEF IsInjective, ToSet
<1>3. ToSet(t) = ToSet(s) \cup {r}
  BY <1>1 DEF ToSet
<1>. QED
  BY <1>1, <1>2, <1>3 DEF t

LEMMA Taken ==
  ASSUME NEW s \in Seq(Report), s # <<>>
  PROVE  /\ Tail(s) \in Seq(Report) /\ Head(s) \in Report /\ 1 \in DOMAIN s /\ Head(s) = s[1]
         /\ DOMAIN s = 1..Len(s) /\ Len(s) \in Nat /\ DOMAIN Tail(s) = 1..Len(s) - 1
         /\ \A n \in DOMAIN Tail(s) : n + 1 \in DOMAIN s /\ Tail(s)[n] = s[n + 1]
OBVIOUS

LEMMA RequestParts == \A q \in Request : q[1] \in Report /\ q[2] \in 1..MaxTry /\ q = <<q[1], q[2]>>
BY DEF Request

(* What becomes of the rows when a status changes. *)
LEMMA StatusRows ==
  ASSUME Rows, Rest, NEW r \in Report, NEW as \in {"received", "cancelled", "finalized", "error"},
         status[r] # "none", status' = [status EXCEPT ![r] = as], UNCHANGED <<ledger, told, ahead>>
  PROVE  Rows'
<1>1. \A e \in Report : status'[e] # "none" <=> status[e] # "none"
  BY DEF Rest
<1>2. \A e \in Report : e \in ToSet(ledger') <=> status'[e] # "none"
  BY <1>1 DEF Rows
<1>. QED
  BY <1>2 DEF Rows

(* The queue of a process that starts. *)
LEMMA StartQueue ==
  ASSUME NEW q \in PendingEvents
  PROVE  q \in Seq(Report)
<1>. DEFINE R == {r \in Report : status[r] = "received"}
<1>1. Cardinality(R) \in Nat
  BY IngressAssumption, FS_Subset, FS_CardinalityType
<1>2. q \in [1..Cardinality(R) -> R]
  BY DEF PendingEvents
<1>3. R \subseteq Report
  OBVIOUS
<1>. HIDE DEF R
<1>4. q \in [1..Cardinality(R) -> Report]
  BY <1>2, <1>3
<1>. QED
  BY <1>1, <1>4, SeqDef

LEMMA Recovered ==
  ASSUME NEW q \in PendingEvents, \A m, n \in DOMAIN ledger : ledger[m] = ledger[n] => m = n,
         DOMAIN ledger \subseteq Nat
  PROVE  /\ q \in Seq(Report)
         /\ \A n \in DOMAIN q : q[n] \in Report /\ status[q[n]] = "received" /\ q[n] \in ToSet(q)
         /\ \A m, n \in DOMAIN q : q[m] = q[n] => m = n
         /\ \A e \in Report : status[e] = "received" => \E n \in DOMAIN q : q[n] = e
         /\ \A m, n \in DOMAIN q : Before(q[m], q[n]) => m < n
<1>. DEFINE R == {r \in Report : status[r] = "received"}
<1>. USE IngressAssumption
<1>1. Cardinality(R) \in Nat
  BY FS_Subset, FS_CardinalityType
<1>2. q \in [1..Cardinality(R) -> R] /\ ToSet(q) = R
      /\ \A m, n \in DOMAIN q : m < n => Before(q[m], q[n])
  BY DEF PendingEvents
<1>3. q \in Seq(Report)
  BY <1>1, <1>2
<1>4. \A e, f : ~(Before(e, f) /\ Before(f, e))
  BY DEF Before
<1>5. \A m, n \in DOMAIN q : m \in Nat /\ n \in Nat
  BY <1>1, <1>2
<1>. QED
  BY <1>2, <1>3, <1>4, <1>5 DEF ToSet

-----------------------------------------------------------------------------
(* The pieces of steps. *)

LEMMA EnqueueHands ==
  ASSUME Hands, NEW r \in Report, Enqueue(r)
  PROVE  /\ queue' \in Seq(Report) /\ ids' \subseteq Report /\ tracked' \in BOOLEAN
         /\ wk' = wk \/ (wk = "off" /\ wk' = "new")
         /\ tracked' => wk' # "off"
         /\ wk # "off" => tracked' = tracked
<1>1. CASE r \in ids
  BY <1>1 DEF Hands, Enqueue
<1>2. CASE r \notin ids
  <2>1. queue' = Append(queue, r) /\ ids' = ids \cup {r}
    BY <1>2 DEF Enqueue
  <2>2. queue' \in Seq(Report)
    BY <2>1 DEF Hands
  <2>3. CASE wk = "off"
    BY <1>2, <2>1, <2>2, <2>3 DEF Enqueue, Hands
  <2>4. CASE wk # "off"
    BY <1>2, <2>1, <2>2, <2>4 DEF Enqueue, Hands
  <2>. QED
    BY <2>3, <2>4
<1>. QED
  BY <1>1, <1>2

LEMMA NextHands ==
  ASSUME Hands, GetNext
  PROVE  /\ queue' \in Seq(Report) /\ displaced' \subseteq Report /\ wk' \in {"wait", "run"}
         /\ cur' \in Report \cup {None} /\ (wk' = "run" => cur' # None)
<1>1. CASE queue = <<>>
  BY <1>1 DEF GetNext, Hands
<1>2. CASE queue # <<>>
  <2>1. Tail(queue) \in Seq(Report) /\ Head(queue) \in Report
    BY <1>2, Taken DEF Hands
  <2>. QED
    BY <1>2, <2>1, IngressAssumption DEF GetNext, Hands
<1>. QED
  BY <1>1, <1>2

LEMMA CancelHands ==
  ASSUME Hands, WorkerCancelled
  PROVE  /\ wk' \in {"off", "leave", "undo", "restore"}
         /\ wk' \in {"undo", "restore"} => wk \in {"run", "undo", "restore"}
         /\ wk' = "off" => wk \in {"off", "new"}
         /\ lost' \subseteq Report
BY DEF Hands, WorkerCancelled

LEMMA ReleaseHands ==
  ASSUME Hands, Release
  PROVE  /\ sched' \in [Task -> {"off", "sleep", "fire", "await", "run", "late", "last"}]
         /\ \A t \in Task : sched'[t] \notin {"await", "late"}
BY DEF Hands, Release

LEMMA QueueReports == Hands => \A n \in DOMAIN queue : queue[n] \in Report
BY DEF Hands

(* What is queued is queued behind the others, unless it is in hand. *)
LEMMA EnqueueLined ==
  ASSUME Hands, Lined, NEW r \in Report, Enqueue(r), status[r] = "received" \/ r \in ids
  PROVE  /\ \A n \in DOMAIN queue' :
              status[queue'[n]] = "received" /\ queue'[n] \in ids' /\ queue'[n] # cur
         /\ \A m, n \in DOMAIN queue' : queue'[m] = queue'[n] => m = n
         /\ ids \subseteq ids'
<1>1. CASE r \in ids
  BY <1>1 DEF Enqueue, Lined
<1>2. CASE r \notin ids
  <2>1. queue' = Append(queue, r) /\ ids' = ids \cup {r} /\ status[r] = "received"
    BY <1>2 DEF Enqueue
  <2>2. /\ DOMAIN queue' = DOMAIN queue \cup {Len(queue) + 1}
        /\ \A n \in DOMAIN queue : queue'[n] = queue[n]
        /\ queue'[Len(queue) + 1] = r
    BY <2>1, Appended DEF Hands
  <2>3. r # cur
    BY <1>2, IngressAssumption DEF Lined
  <2>4. \A n \in DOMAIN queue : queue[n] # r
    BY <1>2 DEF Lined
  <2>. QED
    BY <2>1, <2>2, <2>3, <2>4 DEF Lined
<1>. QED
  BY <1>1, <1>2

LEMMA EnqueueStep ==
  ASSUME Hands, Rest, Lined, NEW r \in Report, Enqueue(r), status[r] = "received" \/ r \in ids,
         UNCHANGED <<status, cur, up>>, up \in {"up", "closing"},
         \A p \in Request : req'[p] = "put" => req[p] = "put"
  PROVE  Lined'
<1>1. wk' = wk \/ (wk = "off" /\ wk' = "new")
  BY EnqueueHands
<1>2. (wk # "off" => tracked' = tracked) /\ (tracked' => wk' # "off")
  BY EnqueueHands
<1>3. cur # None => cur \in ids' /\ wk' \in {"run", "flush", "undo", "restore", "leave"}
  BY <1>1, EnqueueLined DEF Lined
<1>4. (wk' \in {"run", "undo"} => status[cur] = "received") /\ (wk' = "restore" =>
     status[cur] = "cancelled")
  BY <1>1 DEF Lined
<1>5. \A q \in Request : req'[q] = "put" =>
        status[q[1]] = "received" \/ (cur = q[1] /\ wk' = "restore")
  BY <1>1 DEF Lined
<1>6. tracked' => wk' \in {"new", "wait", "run", "flush"}
  <2>1. CASE wk = "off"
    BY <1>1, <1>2, <2>1
  <2>2. CASE wk # "off"
    BY <1>1, <1>2, <2>2 DEF Lined
  <2>. QED
    BY <2>1, <2>2
<1>. QED
  BY <1>3, <1>4, <1>5, <1>6, EnqueueLined DEF Lined

(* What is taken was received, and leaves the queue. *)
LEMMA NextLined ==
  ASSUME Hands, Lined, GetNext, ids' = ids \/ ids' = ids \ {cur}
  PROVE  /\ \A n \in DOMAIN queue' :
              status[queue'[n]] = "received" /\ queue'[n] \in ids' /\ queue'[n] # cur'
         /\ \A m, n \in DOMAIN queue' : queue'[m] = queue'[n] => m = n
         /\ cur' # None => cur' \in ids' /\ wk' = "run" /\ status[cur'] = "received"
         /\ wk' = "run" \/ wk' = "wait"
<1>1. CASE queue = <<>>
  BY <1>1 DEF GetNext, Lined
<1>2. CASE queue # <<>>
  <2>1. queue' = Tail(queue) /\ cur' = Head(queue) /\ wk' = "run"
    BY <1>2 DEF GetNext
  <2>2. /\ 1 \in DOMAIN queue /\ cur' = queue[1]
        /\ DOMAIN queue = 1..Len(queue) /\ Len(queue) \in Nat /\ DOMAIN queue' = 1..Len(queue) - 1
        /\ \A n \in DOMAIN queue' : n + 1 \in DOMAIN queue /\ queue'[n] = queue[n + 1]
    BY <1>2, <2>1, Taken DEF Hands
  <2>3. \A n \in DOMAIN queue : status[queue[n]] = "received" /\ queue[n] \in ids'
    BY DEF Lined
  <2>4. \A n \in DOMAIN queue' : queue'[n] # cur'
    <3>. TAKE n \in DOMAIN queue'
    <3>1. n + 1 \in DOMAIN queue /\ queue'[n] = queue[n + 1] /\ n + 1 # 1
      BY <2>2
    <3>. QED
      BY <2>2, <3>1 DEF Lined
  <2>5. \A m, n \in DOMAIN queue' : queue'[m] = queue'[n] => m = n
    <3>. TAKE m, n \in DOMAIN queue'
    <3>. HAVE queue'[m] = queue'[n]
    <3>1. m + 1 = n + 1
      BY <2>2 DEF Lined
    <3>. QED
      BY <2>2, <3>1
  <2>. QED
    BY <2>1, <2>2, <2>3, <2>4, <2>5
<1>. QED
  BY <1>1, <1>2

(* A status changes only of what is in hand. *)
LEMMA StatusLined ==
  ASSUME Hands, Rest, Lined, NEW as, status' = [status EXCEPT ![cur] = as]
  PROVE  /\ \A n \in DOMAIN queue : status'[queue[n]] = "received"
         /\ \A q \in Request : q[1] # cur => status'[q[1]] = status[q[1]]
<1>1. \A e \in Report : e # cur => status'[e] = status[e]
  BY DEF Rest
<1>2. \A n \in DOMAIN queue : queue[n] \in Report
  BY QueueReports
<1>. QED
  BY <1>1, <1>2, RequestParts DEF Lined

(* A step that queues nothing: what is still received is still in its      *)
(* place.                                                                  *)
LEMMA OrderedQuiet ==
  ASSUME Hands, Ordered, UNCHANGED <<queue, ledger, ahead>>, told \subseteq told', told'
       \subseteq Report,
         ids' \subseteq ids, Serving' => Serving, displaced \subseteq displaced',
         Serving' => \A e \in Report : status'[e] = "received" => status[e] = "received" \/ e \in
              displaced',
         \A e \in Report : status[e] # "none" => status'[e] # "none",
         Serving' => \A e \in told' : status'[e] = "received" => e \in told \/ e \in displaced',
         \A e \in Report : Serving' /\ Runs(e) /\ status'[e] = "received" => Runs(e)' \/ e \in
              displaced',
         Serving' /\ wk' \in {"undo", "restore"} => cur' \in displaced',
         up' = "ending" => wk' \in {"off", "leave", "undo", "restore"}
  PROVE  Ordered'
<1>1. \A r \in Report : \A e \in ahead'[r] : e \in told' /\ Before(e, r)'
  BY DEF Ordered, Before
<1>2. \A n \in DOMAIN queue : queue[n] \in Report
  BY QueueReports
<1>3. \A n \in DOMAIN queue : \A e \in ahead[queue[n]] : e \in told /\ e \in Report
  BY <1>1, <1>2 DEF Ordered
<1>4. ASSUME Serving' PROVE \A e \in ids' : status'[e] # "none"
  BY <1>4 DEF Ordered, Hands
<1>5. ASSUME Serving', NEW e \in told' \cup ids', status'[e] = "received"
      PROVE  e \in displaced' \/ Runs(e)' \/ Queued(e)'
  <2>1. e \in Report
    BY <1>5 DEF Hands
  <2>2. CASE e \in displaced'
    BY <2>2
  <2>3. CASE e \notin displaced'
    <3>1. status[e] = "received" /\ e \in told \cup ids /\ Serving
      BY <1>5, <2>1, <2>3
    <3>2. e \in displaced \/ Runs(e) \/ Queued(e)
      BY <3>1 DEF Ordered
    <3>3. Queued(e) => Queued(e)'
      BY DEF Queued
    <3>. QED
      BY <1>5, <2>1, <2>3, <3>2, <3>3
  <2>. QED
    BY <2>2, <2>3
<1>6. ASSUME Serving', NEW n \in DOMAIN queue', NEW e \in ahead'[queue'[n]], status'[e] = "received"
      PROVE  e \in displaced' \/ Runs(e)' \/ \E m \in DOMAIN queue' : m < n /\ queue'[m] = e
  <2>1. e \in Report
    BY <1>3, <1>6
  <2>2. CASE e \in displaced'
    BY <2>2
  <2>3. CASE e \notin displaced'
    <3>1. status[e] = "received" /\ Serving
      BY <1>6, <2>1, <2>3
    <3>2. e \in displaced \/ Runs(e) \/ \E m \in DOMAIN queue : m < n /\ queue[m] = e
      BY <1>6, <3>1 DEF Ordered
    <3>. QED
      BY <1>6, <2>1, <2>3, <3>2
  <2>. QED
    BY <2>2, <2>3
<1>. QED
  BY <1>1, <1>4, <1>5, <1>6 DEF Ordered

(* A report is queued behind those that were told before it was stored.    *)
LEMMA OrderedEnqueue ==
  ASSUME Hands, Rows, Ordered, Serving, NEW r \in Report, Enqueue(r),
         UNCHANGED <<ledger, status, ahead, cur, displaced, up>>, told' = told \cup {r},
         status[r] = "received" \/ r \in ids
  PROVE  Ordered'
<1>1. wk' = wk \/ (wk = "off" /\ wk' = "new")
  BY EnqueueHands
<1>2. CASE r \in ids
  <2>1. UNCHANGED <<queue, ids, wk>>
    BY <1>2 DEF Enqueue
  <2>2. \A e : (Runs(e)' <=> Runs(e)) /\ (Queued(e)' <=> Queued(e))
    BY <2>1 DEF Runs, Queued
  <2>3. told' \cup ids' = told \cup ids
    BY <1>2, <2>1
  <2>4. \A f \in Report : \A e \in ahead[f] : e \in told' /\ Before(e, f)'
    BY DEF Ordered, Before
  <2>. HIDE DEF Enqueue
  <2>. QED
    BY <2>1, <2>2, <2>3, <2>4 DEF Ordered, Serving
<1>3. CASE r \notin ids
  <2>1. queue' = Append(queue, r) /\ ids' = ids \cup {r} /\ status[r] = "received"
    BY <1>3 DEF Enqueue
  <2>2. /\ DOMAIN queue' = 1..Len(queue) + 1 /\ DOMAIN queue = 1..Len(queue)
        /\ Len(queue) \in Nat
        /\ \A n \in DOMAIN queue : queue'[n] = queue[n] /\ n \in DOMAIN queue' /\ n < Len(queue) + 1
        /\ queue'[Len(queue) + 1] = r
    <3>1. queue \in Seq(Report)
      BY DEF Hands
    <3>. QED
      BY <2>1, <3>1, Appended
  <2>. DEFINE last == Len(queue) + 1
  <2>3. \A e : (Runs(e) => Runs(e)') /\ (Queued(e) => Queued(e)')
    BY <1>1, <2>2 DEF Runs, Queued
  <2>4. Queued(r)'
    BY <2>2 DEF Queued
  <2>5. \A f \in Report : \A e \in ahead'[f] : e \in told' /\ Before(e, f)'
    BY DEF Ordered, Before
  <2>6. /\ up' = "ending" => wk' \in {"off", "leave", "undo", "restore"}
        /\ wk' \in {"undo", "restore"} => cur' \in displaced'
    BY <1>1 DEF Ordered, Serving
  <2>7. \A e \in ids' : status'[e] # "none"
    BY <2>1 DEF Ordered
  <2>8. \A e \in told' \cup ids' : status'[e] = "received" =>
          e \in displaced' \/ Runs(e)' \/ Queued(e)'
    BY <2>1, <2>3, <2>4 DEF Ordered
  <2>9. ASSUME NEW n \in DOMAIN queue', NEW e \in ahead'[queue'[n]], status'[e] = "received"
        PROVE  e \in displaced' \/ Runs(e)' \/ \E m \in DOMAIN queue' : m < n /\ queue'[m] = e
    <3>1. CASE n \in DOMAIN queue
      <4>1. e \in ahead[queue[n]] /\ status[e] = "received"
        BY <2>2, <2>9, <3>1
      <4>2. e \in displaced \/ Runs(e) \/ \E m \in DOMAIN queue : m < n /\ queue[m] = e
        BY <3>1, <4>1 DEF Ordered
      <4>. QED
        BY <2>2, <2>3, <4>2
    <3>2. CASE n = last
      <4>1. e \in ahead[r] /\ status[e] = "received"
        BY <2>2, <2>9, <3>2
      <4>2. e \in displaced \/ Runs(e) \/ Queued(e)
        BY <4>1 DEF Ordered
      <4>. QED
        BY <2>2, <2>3, <3>2, <4>2 DEF Queued
    <3>. QED
      BY <2>2, <3>1, <3>2
  <2>. QED
    BY <2>5, <2>6, <2>7, <2>8, <2>9 DEF Ordered
<1>. QED
  BY <1>2, <1>3

(* What is taken is the first of the queue, and those behind it move up.   *)
LEMMA OrderedNext ==
  ASSUME Hands, Ordered, Serving, GetNext, ids' \subseteq ids, wk \in {"new", "wait", "flush"},
         UNCHANGED <<ledger, status, told, ahead, up>>
  PROVE  Ordered'
<1>1. \A r \in Report : \A e \in ahead'[r] : e \in told' /\ Before(e, r)'
  BY DEF Ordered, Before
<1>2. wk' \in {"wait", "run"} /\ up' # "ending"
  BY NextHands DEF Serving
<1>3. \A e : ~Runs(e)
  BY DEF Runs
<1>4. CASE queue = <<>>
  <2>1. UNCHANGED <<queue, displaced>>
    BY <1>4 DEF GetNext
  <2>2. \A e : Queued(e)' <=> Queued(e)
    BY <2>1 DEF Queued
  <2>. QED
    BY <1>1, <1>2, <1>3, <2>1, <2>2 DEF Ordered
<1>5. CASE queue # <<>>
  <2>1. queue' = Tail(queue) /\ cur' = Head(queue) /\ wk' = "run" /\ displaced' = displaced \ {cur'}
    BY <1>5 DEF GetNext
  <2>2. /\ 1 \in DOMAIN queue /\ cur' = queue[1]
        /\ DOMAIN queue = 1..Len(queue) /\ Len(queue) \in Nat /\ DOMAIN queue' = 1..Len(queue) - 1
        /\ \A n \in DOMAIN queue' : n + 1 \in DOMAIN queue /\ queue'[n] = queue[n + 1]
    BY <1>5, <2>1, Taken DEF Hands
  <2>3. \A n \in DOMAIN queue : n = 1 \/ (n - 1 \in DOMAIN queue' /\ queue'[n - 1] = queue[n])
    BY <2>2
  <2>4. \A e : e \in displaced => e \in displaced' \/ Runs(e)'
    BY <2>1 DEF Runs
  <2>5. \A e : Queued(e) => Queued(e)' \/ Runs(e)'
    BY <2>1, <2>2, <2>3 DEF Queued, Runs
  <2>6. ASSUME NEW n \in DOMAIN queue', NEW e \in ahead'[queue'[n]], status'[e] = "received"
        PROVE  e \in displaced' \/ Runs(e)' \/ \E m \in DOMAIN queue' : m < n /\ queue'[m] = e
    <3>1. n + 1 \in DOMAIN queue /\ e \in ahead[queue[n + 1]] /\ status[e] = "received"
      BY <2>2, <2>6
    <3>2. e \in displaced \/ \E m \in DOMAIN queue : m < n + 1 /\ queue[m] = e
      BY <1>3, <3>1 DEF Ordered
    <3>3. ASSUME NEW m \in DOMAIN queue, m < n + 1, queue[m] = e
          PROVE  Runs(e)' \/ \E k \in DOMAIN queue' : k < n /\ queue'[k] = e
      <4>1. CASE m = 1
        BY <2>1, <2>2, <3>3, <4>1 DEF Runs
      <4>2. CASE m # 1
        <5>1. m - 1 \in DOMAIN queue' /\ queue'[m - 1] = e
          BY <2>3, <3>3, <4>2
        <5>2. m - 1 < n
          BY <2>2, <3>3
        <5>. QED
          BY <5>1, <5>2
      <4>. QED
        BY <4>1, <4>2
    <3>. QED
      BY <2>4, <3>2, <3>3
  <2>7. \A e \in told' \cup ids' : status'[e] = "received" =>
          e \in displaced' \/ Runs(e)' \/ Queued(e)'
    BY <1>3, <2>4, <2>5 DEF Ordered
  <2>8. wk' \notin {"undo", "restore"} /\ \A e \in ids' : status'[e] # "none"
    BY <2>1 DEF Ordered
  <2>. QED
    BY <1>1, <1>2, <2>6, <2>7, <2>8 DEF Ordered
<1>. QED
  BY <1>4, <1>5

-----------------------------------------------------------------------------
(* The steps. *)

LEMMA Begun == Init => Hands /\ Rest /\ Lined /\ Rows /\ Ordered
<1>. SUFFICES ASSUME Init PROVE Hands /\ Rest /\ Lined /\ Rows /\ Ordered
  OBVIOUS
<1>. USE IngressAssumption DEF Init
<1>1. <<>> \in Seq(Report) /\ DOMAIN <<>> = {} /\ ToSet(<<>>) = {}
  BY DEF ToSet
<1>2. Hands
  BY <1>1 DEF Hands
<1>6. Rest
  BY DEF Rest
<1>3. Lined
  BY <1>1 DEF Lined
<1>4. Rows
  BY <1>1 DEF Rows, IsInjective
<1>5. Ordered
  BY <1>1 DEF Ordered, Serving, Runs, Queued, Before
<1>. QED
  BY <1>2, <1>3, <1>4, <1>5, <1>6

(* The worker, the requests, and those who wait. *)
LEMMA HandsStep == Hands /\ [Next]_vars => Hands'
<1>. SUFFICES ASSUME Hands, [Next]_vars PROVE Hands'
  OBVIOUS
<1>. USE IngressAssumption
<1>1. CASE UNCHANGED <<queue, ids, wk, cur, tracked, sched, displaced, lost>>
  BY <1>1 DEF Hands
<1>2. ASSUME NEW q \in Request, Look(q) PROVE Hands'
  <2>1. q[1] \in Report
    BY RequestParts
  <2>2. CASE Enqueue(q[1])
    <3>1. UNCHANGED <<cur, sched, displaced, lost>>
      BY <1>2 DEF Look
    <3>. QED
      BY <2>1, <2>2, <3>1, EnqueueHands DEF Hands
  <2>3. CASE UNCHANGED <<queue, ids, wk, tracked>>
    BY <1>2, <2>3 DEF Look, Hands
  <2>. QED
    BY <1>2, <2>2, <2>3 DEF Look, Retry
<1>3. ASSUME NEW q \in Request, Store(q) PROVE Hands'
  <2>1. q[1] \in Report
    BY RequestParts
  <2>2. CASE Enqueue(q[1])
    <3>1. UNCHANGED <<cur, sched, displaced, lost>>
      BY <1>3 DEF Store
    <3>. QED
      BY <2>1, <2>2, <3>1, EnqueueHands DEF Hands
  <2>3. CASE UNCHANGED <<queue, ids, wk, tracked>>
    BY <1>3, <2>3 DEF Store, Hands
  <2>. QED
    BY <1>3, <2>2, <2>3 DEF Store, Retry
<1>4. ASSUME NEW q \in Request, Put(q) PROVE Hands'
  <2>1. q[1] \in Report
    BY RequestParts
  <2>2. CASE Enqueue(q[1])
    <3>1. UNCHANGED <<cur, sched, displaced, lost>>
      BY <1>4 DEF Put
    <3>. QED
      BY <2>1, <2>2, <3>1, EnqueueHands DEF Hands
  <2>3. CASE UNCHANGED <<queue, ids, wk, tracked>>
    BY <1>4, <2>3 DEF Put, Hands
  <2>. QED
    BY <1>4, <2>2, <2>3 DEF Put
<1>5. CASE Take
  BY <1>5, NextHands DEF Take, Hands
<1>6. CASE Answered
  BY <1>6, NextHands DEF Answered, Hands
<1>7. CASE Undo
  BY <1>7 DEF Undo, Hands
<1>8. CASE Restore
  BY <1>8 DEF Restore, Hands
<1>9. CASE WorkerLeaves
  BY <1>9, ReleaseHands DEF WorkerLeaves, Leave, Hands
<1>10. ASSUME NEW as \in {"finalized", "error"}, Finalize(as) PROVE Hands'
  BY <1>10 DEF Finalize, Hands
<1>11. CASE Idle
  BY <1>11, ReleaseHands DEF Idle, Leave, Hands
<1>12. ASSUME NEW t \in Task, Fire(t) PROVE Hands'
  <2>1. CASE tracked
    <3>1. tracked' = FALSE /\ WorkerCancelled /\ UNCHANGED <<queue, ids, cur>>
          /\ sched' = [sched EXCEPT ![t] = IF wk' = "off" THEN "run" ELSE "await"]
      BY <1>12, <2>1 DEF Fire
    <3>2. displaced' \subseteq Report
      BY <1>12, <2>1 DEF Fire, Hands, ToSet
    <3>3. \A u \in Task : sched[u] \notin {"await", "late"}
      BY <2>1 DEF Hands
    <3>4. sched' \in [Task -> {"off", "sleep", "fire", "await", "run", "late", "last"}]
          /\ \A u \in Task : sched'[u] \in {"await", "late"} => wk' # "off"
      BY <3>1, <3>3 DEF Hands
    <3>. QED
      BY <3>1, <3>2, <3>4, CancelHands DEF Hands, WorkerCancelled
  <2>2. CASE ~tracked
    BY <1>12, <2>2 DEF Fire, Hands
  <2>. QED
    BY <2>1, <2>2
<1>13. ASSUME NEW t \in Task, NEW as \in {"done", "error"}, TaskEnds(t, as) PROVE Hands'
  BY <1>13 DEF TaskEnds, Hands
<1>14. ASSUME NEW t \in Task, Schedule(t) PROVE Hands'
  BY <1>14 DEF Schedule, Hands
<1>15. ASSUME NEW t \in Task, Due(t) PROVE Hands'
  BY <1>15 DEF Due, Hands
<1>16. CASE Shutdown
  <2>1. sched' \in [Task -> {"off", "sleep", "fire", "await", "run", "late", "last"}]
        /\ \A t \in Task : sched'[t] \in {"await", "late"} => sched[t] = "await"
    BY <1>16 DEF Shutdown, Hands
  <2>2. CASE \E t \in Task : sched[t] = "await"
    <3>1. WorkerCancelled /\ ~tracked /\ wk \in {"leave", "undo", "restore"}
      BY <1>16, <2>2 DEF Shutdown, Hands
    <3>2. wk' \in {"leave", "undo", "restore"}
      BY <3>1 DEF WorkerCancelled
    <3>. QED
      BY <1>16, <2>1, <3>1, <3>2, CancelHands DEF Shutdown, Hands
  <2>3. CASE ~\E t \in Task : sched[t] = "await"
    BY <1>16, <2>1, <2>3 DEF Shutdown, Hands
  <2>. QED
    BY <2>2, <2>3
<1>17. CASE StopWorker
  BY <1>17, CancelHands DEF StopWorker, Hands, WorkerCancelled
<1>18. CASE Exit
  <2>1. Forget
    BY <1>18 DEF Exit
  <2>2. queue' \in Seq(Report) /\ ids' \subseteq Report /\ wk' = "off" /\ cur' = None
        /\ tracked' = FALSE
    BY <2>1 DEF Forget
  <2>3. displaced' \subseteq Report /\ lost' \subseteq Report
    BY <2>1 DEF Forget, Hands
  <2>4. sched' \in [Task -> {"off", "sleep", "fire", "await", "run", "late", "last"}]
        /\ \A t \in Task : sched'[t] = "off"
    BY <2>1 DEF Forget
  <2>. QED
    BY <1>18, <2>1, <2>2, <2>3, <2>4 DEF Exit, Hands
<1>19. CASE Crash
  <2>1. Forget
    BY <1>19 DEF Crash
  <2>2. queue' \in Seq(Report) /\ ids' \subseteq Report /\ wk' = "off" /\ cur' = None
        /\ tracked' = FALSE
    BY <2>1 DEF Forget
  <2>3. displaced' \subseteq Report /\ lost' \subseteq Report
    BY <2>1 DEF Forget, Hands
  <2>4. sched' \in [Task -> {"off", "sleep", "fire", "await", "run", "late", "last"}]
        /\ \A t \in Task : sched'[t] = "off"
    BY <2>1 DEF Forget
  <2>. QED
    BY <1>19, <2>1, <2>2, <2>3, <2>4 DEF Crash, Hands
<1>20. CASE Start
  <2>1. queue' \in Seq(Report) /\ ids' \subseteq Report
    BY <1>20, StartQueue DEF Start, ToSet
  <2>. QED
    BY <1>20, <2>1 DEF Start, Hands
<1>21. CASE (\E q \in Request : Arrive(q)) \/ (\E q \in Request : Refuse(q)) \/ Close
  BY <1>1, <1>21 DEF Arrive, Refuse, Close
<1>22. CASE UNCHANGED vars
  BY <1>1, <1>22 DEF vars
<1>. QED
  BY <1>2, <1>3, <1>4, <1>5, <1>6, <1>7, <1>8, <1>9, <1>10, <1>11, <1>12, <1>13, <1>14,
       <1>15, <1>16, <1>17, <1>18, <1>19, <1>20, <1>21, <1>22 DEF Next, Serve, Work, Fires,
       Stop

(* The rest. *)
LEMMA RestStep == Rest /\ [Next]_vars => Rest'
<1>. SUFFICES ASSUME Rest, [Next]_vars PROVE Rest'
  OBVIOUS
<1>. USE IngressAssumption
<1>1. CASE UNCHANGED <<status, req, task, up, stops, crashes>>
  BY <1>1 DEF Rest
<1>2. ASSUME NEW q \in Request, Arrive(q) PROVE Rest'
  BY <1>2 DEF Arrive, Rest
<1>3. ASSUME NEW q \in Request, Refuse(q) PROVE Rest'
  BY <1>3 DEF Refuse, Rest
<1>4. ASSUME NEW q \in Request, Look(q) PROVE Rest'
  BY <1>4 DEF Look, Retry, Accept, Rest
<1>5. ASSUME NEW q \in Request, Store(q) PROVE Rest'
  BY <1>5 DEF Store, Retry, Accept, Insert, Rest
<1>6. ASSUME NEW q \in Request, Put(q) PROVE Rest'
  BY <1>6 DEF Put, Accept, Rest
<1>7. CASE Undo
  BY <1>7 DEF Undo, Rest
<1>8. CASE Restore
  BY <1>8 DEF Restore, Rest
<1>9. ASSUME NEW as \in {"finalized", "error"}, Finalize(as) PROVE Rest'
  BY <1>9 DEF Finalize, Rest
<1>10. ASSUME NEW t \in Task, NEW as \in {"done", "error"}, TaskEnds(t, as) PROVE Rest'
  BY <1>10 DEF TaskEnds, Rest
<1>11. ASSUME NEW t \in Task, Schedule(t) PROVE Rest'
  BY <1>11 DEF Schedule, Rest
<1>12. ASSUME NEW t \in Task, Due(t) PROVE Rest'
  BY <1>12 DEF Due, Rest
<1>13. CASE Close
  BY <1>13 DEF Close, Rest
<1>14. CASE Shutdown
  BY <1>14 DEF Shutdown, Rest
<1>15. CASE StopWorker
  BY <1>15 DEF StopWorker, Rest
<1>16. CASE Exit
  BY <1>16 DEF Exit, Forget, Rest
<1>17. CASE Crash
  BY <1>17 DEF Crash, Forget, Rest
<1>18. CASE Start
  BY <1>18 DEF Start, Rest
<1>19. CASE Take \/ Answered \/ WorkerLeaves \/ Idle \/ (\E t \in Task : Fire(t))
  BY <1>1, <1>19 DEF Take, Answered, WorkerLeaves, Idle, Fire
<1>20. CASE UNCHANGED vars
  BY <1>1, <1>20 DEF vars
<1>. QED
  BY <1>2, <1>3, <1>4, <1>5, <1>6, <1>7, <1>8, <1>9, <1>10, <1>11, <1>12, <1>13, <1>14,
       <1>15, <1>16, <1>17, <1>18, <1>19, <1>20 DEF Next, Serve, Work, Fires, Stop

(* The queue. *)
LEMMA LinedStep == Hands /\ Rest /\ Rows /\ Lined /\ [Next]_vars => Lined'
<1>. SUFFICES ASSUME Hands, Rest, Rows, Lined, [Next]_vars PROVE Lined'
  OBVIOUS
<1>. USE IngressAssumption
<1>1. CASE UNCHANGED <<queue, ids, wk, cur, tracked, status, req, up>>
  BY <1>1 DEF Lined
<1>2. ASSUME NEW q \in Request, Arrive(q) PROVE Lined'
  BY <1>2 DEF Arrive, Lined
<1>3. ASSUME NEW q \in Request, Refuse(q) PROVE Lined'
  BY <1>3 DEF Refuse, Lined
<1>4. ASSUME NEW q \in Request, Look(q) PROVE Lined'
  <2>1. q[1] \in Report
    BY RequestParts
  <2>2. UNCHANGED <<status, cur, up>> /\ req[q] = "look"
        /\ \A p \in Request : req'[p] = "put" => req[p] = "put"
    BY <1>4 DEF Look, Retry, Accept, Rest
  <2>3. up \in {"up", "closing"}
    BY <2>2 DEF Lined, Rest
  <2>4. CASE status[q[1]] = "received" /\ Enqueue(q[1])
    BY <2>1, <2>2, <2>3, <2>4, EnqueueStep
  <2>5. CASE UNCHANGED <<queue, ids, wk, tracked>>
    BY <2>2, <2>3, <2>5 DEF Lined
  <2>. QED
    BY <1>4, <2>4, <2>5 DEF Look, Retry
<1>5. ASSUME NEW q \in Request, Store(q) PROVE Lined'
  <2>1. q[1] \in Report
    BY RequestParts
  <2>2. UNCHANGED <<cur, up>> /\ req[q] = "append"
    BY <1>5 DEF Store, Retry
  <2>3. up \in {"up", "closing"}
    BY <2>2 DEF Lined, Rest
  <2>4. CASE status[q[1]] # "none"
    <3>1. UNCHANGED status /\ \A p \in Request : req'[p] = "put" => req[p] = "put"
      BY <1>5, <2>4 DEF Store, Retry, Accept, Rest
    <3>2. CASE status[q[1]] = "received" /\ Enqueue(q[1])
      BY <2>1, <2>2, <2>3, <3>1, <3>2, EnqueueStep
    <3>3. CASE UNCHANGED <<queue, ids, wk, tracked>>
      BY <2>2, <2>3, <3>1, <3>3 DEF Lined
    <3>. QED
      BY <1>5, <2>4, <3>2, <3>3 DEF Store, Retry
  <2>5. CASE status[q[1]] = "none"
    <3>1. status' = [status EXCEPT ![q[1]] = "received"] /\ req' = [req EXCEPT ![q] = "put"]
          /\ UNCHANGED <<queue, ids, wk, tracked>>
      BY <1>5, <2>5 DEF Store, Insert
    <3>2. \A r \in Report : status'[r] = IF r = q[1] THEN "received" ELSE status[r]
      BY <2>1, <3>1 DEF Rest
    <3>3. \A p \in Request : req'[p] = "put" => p = q \/ req[p] = "put"
      BY <3>1 DEF Rest
    <3>4. \A n \in DOMAIN queue : status'[queue[n]] = "received"
      BY <2>5, <3>1 DEF Lined, Rest
    <3>5. wk \in {"run", "undo", "restore"} => cur \in Report /\ cur # q[1]
      BY <2>5 DEF Lined, Hands
    <3>6. \A p \in Request : req'[p] = "put" =>
            status'[p[1]] = "received" \/ (cur = p[1] /\ wk = "restore")
      BY <2>1, <3>2, <3>3, RequestParts DEF Lined
    <3>7. wk \in {"run", "undo"} => status'[cur] = "received"
      BY <3>2, <3>5 DEF Lined
    <3>8. wk = "restore" => status'[cur] = "cancelled"
      BY <3>2, <3>5 DEF Lined
    <3>. QED
      BY <2>2, <2>3, <3>1, <3>4, <3>6, <3>7, <3>8 DEF Lined
  <2>. QED
    BY <2>4, <2>5
<1>6. ASSUME NEW q \in Request, Put(q) PROVE Lined'
  <2>1. q[1] \in Report
    BY RequestParts
  <2>2. UNCHANGED <<status, cur, up>> /\ req[q] = "put" /\ Enqueue(q[1])
        /\ \A p \in Request : req'[p] = "put" => req[p] = "put"
    BY <1>6 DEF Put, Accept, Rest
  <2>3. up \in {"up", "closing"}
    BY <2>2 DEF Lined, Rest
  <2>4. status[q[1]] = "received" \/ q[1] \in ids
    BY <2>1, <2>2, IngressAssumption DEF Lined
  <2>. QED
    BY <2>1, <2>2, <2>3, <2>4, EnqueueStep
<1>7. CASE Take
  <2>1. GetNext /\ (ids' = ids \/ ids' = ids \ {cur}) /\ UNCHANGED <<status, req, up, tracked>>
        /\ wk \in {"new", "wait", "flush"}
    BY <1>7 DEF Take
  <2>2. \A p \in Request : req[p] = "put" => status[p[1]] = "received"
    BY <2>1 DEF Lined
  <2>3. up # "down"
    BY <2>1 DEF Lined
  <2>4. /\ \A n \in DOMAIN queue' :
             status[queue'[n]] = "received" /\ queue'[n] \in ids' /\ queue'[n] # cur'
        /\ \A m, n \in DOMAIN queue' : queue'[m] = queue'[n] => m = n
        /\ cur' # None => cur' \in ids' /\ wk' = "run" /\ status[cur'] = "received"
        /\ wk' = "run" \/ wk' = "wait"
    BY <2>1, NextLined
  <2>5. wk' = "run" => cur' # None
    BY <2>1, NextHands
  <2>. QED
    BY <2>1, <2>2, <2>3, <2>4, <2>5 DEF Lined
<1>8. CASE Answered
  <2>1. GetNext /\ (ids' = ids \/ ids' = ids \ {cur}) /\ UNCHANGED <<status, req, up, tracked>>
        /\ wk \in {"new", "wait", "flush"}
    BY <1>8 DEF Answered
  <2>2. \A p \in Request : req[p] = "put" => status[p[1]] = "received"
    BY <2>1 DEF Lined
  <2>3. up # "down"
    BY <2>1 DEF Lined
  <2>4. /\ \A n \in DOMAIN queue' :
             status[queue'[n]] = "received" /\ queue'[n] \in ids' /\ queue'[n] # cur'
        /\ \A m, n \in DOMAIN queue' : queue'[m] = queue'[n] => m = n
        /\ cur' # None => cur' \in ids' /\ wk' = "run" /\ status[cur'] = "received"
        /\ wk' = "run" \/ wk' = "wait"
    BY <2>1, NextLined
  <2>5. wk' = "run" => cur' # None
    BY <2>1, NextHands
  <2>. QED
    BY <2>1, <2>2, <2>3, <2>4, <2>5 DEF Lined
<1>9. CASE Undo
  <2>1. wk = "undo" /\ wk' = "restore" /\ UNCHANGED <<req, queue, ids, cur, tracked, up>>
        /\ status' = [status EXCEPT ![cur] = "cancelled"]
    BY <1>9 DEF Undo
  <2>2. cur \in Report /\ cur # None
    BY <2>1 DEF Hands
  <2>3. status'[cur] = "cancelled"
    BY <2>1, <2>2 DEF Rest
  <2>4. \A q \in Request : req[q] = "put" => status'[q[1]] = "received" \/ cur = q[1]
    BY <2>1, StatusLined DEF Lined
  <2>. QED
    BY <2>1, <2>3, <2>4, StatusLined DEF Lined
<1>10. CASE Restore
  <2>1. wk = "restore" /\ wk' = "leave" /\ UNCHANGED <<req, queue, ids, cur, tracked, up>>
        /\ status' = [status EXCEPT ![cur] = "received"]
    BY <1>10 DEF Restore
  <2>2. cur \in Report /\ cur # None
    BY <2>1 DEF Hands
  <2>3. status'[cur] = "received"
    BY <2>1, <2>2 DEF Rest
  <2>4. \A q \in Request : req[q] = "put" => status'[q[1]] = "received"
    BY <2>1, <2>3, StatusLined DEF Lined
  <2>. QED
    BY <2>1, <2>4, StatusLined DEF Lined
<1>11. CASE WorkerLeaves
  <2>1. ids' = ids \ {cur} /\ cur' = None /\ wk = "leave" /\ UNCHANGED <<status, req, queue, up>>
    BY <1>11 DEF WorkerLeaves
  <2>2. \A n \in DOMAIN queue : queue[n] \in ids' /\ queue[n] # None
    BY <2>1, QueueReports, IngressAssumption DEF Lined, Hands
  <2>3. wk' \in {"new", "off"} /\ (tracked' => wk' = "new") /\ (up \in {"stopping",
       "ending"} => wk' = "off")
    BY <1>11 DEF WorkerLeaves, Leave
  <2>4. up # "down"
    BY <2>1 DEF Lined
  <2>. QED
    BY <2>1, <2>2, <2>3, <2>4 DEF Lined
<1>12. ASSUME NEW as \in {"finalized", "error"}, Finalize(as) PROVE Lined'
  <2>1. wk = "run" /\ wk' = "flush" /\ UNCHANGED <<req, queue, ids, cur, tracked, up>>
        /\ status' = [status EXCEPT ![cur] = as] /\ \A k \in 1..MaxTry : req[<<cur, k>>] # "put"
    BY <1>12 DEF Finalize
  <2>2. \A q \in Request : req[q] = "put" => q[1] # cur
    BY <2>1, RequestParts
  <2>3. \A q \in Request : req[q] = "put" => status'[q[1]] = "received"
    BY <2>1, <2>2, StatusLined DEF Lined
  <2>. QED
    BY <2>1, <2>3, StatusLined DEF Lined
<1>13. CASE Idle
  BY <1>13 DEF Idle, Leave, Release, Lined
<1>14. ASSUME NEW t \in Task, Fire(t) PROVE Lined'
  <2>1. CASE tracked
    <3>1. WorkerCancelled /\ ~tracked' /\ UNCHANGED <<status, req, queue, ids, cur, up>>
      BY <1>14, <2>1 DEF Fire
    <3>2. wk \in {"new", "wait", "run", "flush"}
      BY <2>1 DEF Lined
    <3>. QED
      BY <3>1, <3>2 DEF Lined, WorkerCancelled
  <2>2. CASE ~tracked
    BY <1>14, <2>2 DEF Fire, Lined
  <2>. QED
    BY <2>1, <2>2
<1>15. CASE Close
  BY <1>15 DEF Close, Lined
<1>16. CASE Shutdown
  <2>1. UNCHANGED <<status, req, queue, ids, cur, tracked>> /\ up' = "stopping"
        /\ \A q \in Request : req[q] \in {"new", "over"}
    BY <1>16 DEF Shutdown
  <2>2. CASE \E t \in Task : sched[t] = "await"
    <3>1. WorkerCancelled /\ ~tracked /\ wk \in {"leave", "undo", "restore"}
      BY <1>16, <2>2 DEF Shutdown, Hands
    <3>. QED
      BY <2>1, <3>1 DEF Lined, WorkerCancelled
  <2>3. CASE UNCHANGED wk
    BY <2>1, <2>3 DEF Lined
  <2>. QED
    BY <1>16, <2>2, <2>3 DEF Shutdown
<1>17. CASE StopWorker
  <2>1. UNCHANGED <<status, req, queue, ids, cur>> /\ up' = "ending" /\ ~tracked' /\ WorkerCancelled
        /\ up = "stopping" /\ wk \in {"new", "wait", "run", "flush"}
    BY <1>17 DEF StopWorker, Lined
  <2>. QED
    BY <2>1 DEF Lined, WorkerCancelled
<1>18. CASE Exit
  BY <1>18 DEF Exit, Forget, Lined
<1>19. CASE Crash
  BY <1>19 DEF Crash, Forget, Lined
<1>20. CASE Start
  <2>1. queue' \in PendingEvents /\ ids' = ToSet(queue') /\ UNCHANGED <<status, req, cur>> /\ wk = "off"
        /\ up' = "up"
    BY <1>20 DEF Start, Lined
  <2>2. cur = None
    BY <2>1 DEF Lined
  <2>3. wk' = "off" \/ wk' = "new"
    BY <1>20, <2>1 DEF Start
  <2>4. tracked' => wk' = "new"
    BY <1>20, <2>1 DEF Start, Hands
  <2>0. (\A m, n \in DOMAIN ledger : ledger[m] = ledger[n] => m = n) /\ DOMAIN ledger \subseteq Nat
    BY DEF Rows, IsInjective
  <2>5. \A n \in DOMAIN queue' : queue'[n] \in Report /\ status[queue'[n]] = "received"
                                /\ queue'[n] \in ToSet(queue')
    BY <2>0, <2>1, Recovered
  <2>6. \A m, n \in DOMAIN queue' : queue'[m] = queue'[n] => m = n
    BY <2>0, <2>1, Recovered
  <2>7. \A q \in Request : req[q] # "put"
    BY <1>20 DEF Start, Lined
  <2>. QED
    BY <2>1, <2>2, <2>3, <2>4, <2>5, <2>6, <2>7, IngressAssumption DEF Lined
<1>21. CASE (\E t \in Task, as \in {"done", "error"} : TaskEnds(t, as)) \/ (\E t \in
     Task : Schedule(t)) \/ (\E t \in Task : Due(t))
  BY <1>1, <1>21 DEF TaskEnds, Schedule, Due
<1>22. CASE UNCHANGED vars
  BY <1>1, <1>22 DEF vars
<1>. QED
  BY <1>2, <1>3, <1>4, <1>5, <1>6, <1>7, <1>8, <1>9, <1>10, <1>11, <1>12, <1>13, <1>14,
       <1>15, <1>16, <1>17, <1>18, <1>19, <1>20, <1>21, <1>22 DEF Next, Serve, Work, Fires,
       Stop

(* Reports are stored once, and only what is stored is told. *)
LEMMA RowsStep == Hands /\ Rest /\ Lined /\ Rows /\ [Next]_vars => Rows'
<1>. SUFFICES ASSUME Hands, Rest, Lined, Rows, [Next]_vars PROVE Rows'
  OBVIOUS
<1>. USE IngressAssumption
<1>1. CASE UNCHANGED <<ledger, status, told, ahead>>
  BY <1>1 DEF Rows
<1>2. ASSUME NEW q \in Request, Look(q) PROVE Rows'
  <2>1. q[1] \in Report /\ (status[q[1]] # "none" => q[1] \in ToSet(ledger))
    BY RequestParts DEF Rows
  <2>2. told' = told \/ (told' = told \cup {q[1]} /\ status[q[1]] # "none")
    BY <1>2 DEF Look, Retry, Accept
  <2>3. UNCHANGED <<ledger, status, ahead>>
    BY <1>2 DEF Look
  <2>. QED
    BY <2>1, <2>2, <2>3 DEF Rows
<1>3. ASSUME NEW q \in Request, Store(q) PROVE Rows'
  <2>1. q[1] \in Report
    BY RequestParts
  <2>2. CASE status[q[1]] # "none"
    <3>1. told' = told \cup {q[1]} /\ UNCHANGED <<ledger, status, ahead>>
      BY <1>3, <2>2 DEF Store, Retry, Accept
    <3>. QED
      BY <2>1, <2>2, <3>1 DEF Rows
  <2>3. CASE status[q[1]] = "none"
    <3>1. /\ ledger' = Append(ledger, q[1]) /\ status' = [status EXCEPT ![q[1]] = "received"]
          /\ ahead' = [ahead EXCEPT ![q[1]] = told] /\ req' = [req EXCEPT ![q] = "put"]
          /\ told' = told
      BY <1>3, <2>3 DEF Store, Insert
    <3>2. q[1] \notin ToSet(ledger)
      BY <2>1, <2>3 DEF Rows
    <3>3. ledger' \in Seq(Report) /\ IsInjective(ledger') /\ ToSet(ledger') = ToSet(ledger) \cup {q[1]}
      BY <2>1, <3>1, <3>2, AppendedOnce DEF Rows
    <3>4. \A r \in Report : status'[r] = IF r = q[1] THEN "received" ELSE status[r]
      BY <2>1, <3>1 DEF Rest
    <3>5. \A r \in Report : r \in ToSet(ledger') <=> status'[r] # "none"
      BY <3>3, <3>4 DEF Rows
    <3>6. ahead' \in [Report -> SUBSET Report]
      <4>1. told \subseteq Report
        BY Elements DEF Rows
      <4>. QED
        BY <2>1, <3>1, <4>1 DEF Rows
    <3>. QED
      BY <3>1, <3>3, <3>5, <3>6 DEF Rows
  <2>. QED
    BY <2>2, <2>3
<1>4. ASSUME NEW q \in Request, Put(q) PROVE Rows'
  <2>1. q[1] \in Report /\ (status[q[1]] # "none" => q[1] \in ToSet(ledger))
    BY RequestParts DEF Rows
  <2>2. told' = told \/ (told' = told \cup {q[1]} /\ status[q[1]] # "none")
    BY <1>4 DEF Put, Accept, Lined, Hands
  <2>3. UNCHANGED <<ledger, status, ahead>>
    BY <1>4 DEF Put
  <2>. QED
    BY <2>1, <2>2, <2>3 DEF Rows
<1>5. CASE Undo
  <2>1. cur \in Report
    BY <1>5 DEF Undo, Hands
  <2>2. status[cur] # "none"
    BY <1>5 DEF Undo, Lined
  <2>. QED
    BY <1>5, <2>1, <2>2, StatusRows DEF Undo
<1>6. CASE Restore
  <2>1. cur \in Report
    BY <1>6 DEF Restore, Hands
  <2>2. status[cur] # "none"
    BY <1>6 DEF Restore, Lined
  <2>. QED
    BY <1>6, <2>1, <2>2, StatusRows DEF Restore
<1>7. ASSUME NEW as \in {"finalized", "error"}, Finalize(as) PROVE Rows'
  <2>1. cur \in Report
    BY <1>7 DEF Finalize, Hands
  <2>2. status[cur] # "none"
    BY <1>7 DEF Finalize, Lined
  <2>. QED
    BY <1>7, <2>1, <2>2, StatusRows DEF Finalize
<1>8. CASE (\E q \in Request : Arrive(q)) \/ (\E q \in Request : Refuse(q)) \/ Take \/
     Answered \/ WorkerLeaves \/ Idle \/ (\E t \in Task : Fire(t)) \/ (\E t \in Task, as \in
     {"done", "error"} : TaskEnds(t, as)) \/ (\E t \in Task : Schedule(t)) \/ (\E t \in Task
     : Due(t)) \/ Close \/ Shutdown \/ StopWorker \/ Exit \/ Crash \/ Start
  BY <1>1, <1>8 DEF Arrive, Refuse, Take, Answered, WorkerLeaves, Idle, Fire, TaskEnds,
       Schedule, Due, Close, Shutdown, StopWorker, Exit, Crash, Start
<1>9. CASE UNCHANGED vars
  BY <1>1, <1>9 DEF vars
<1>. QED
  BY <1>2, <1>3, <1>4, <1>5, <1>6, <1>7, <1>8, <1>9 DEF Next, Serve, Work, Fires, Stop

(* The order. *)
LEMMA OrderedStep == Hands /\ Rest /\ Lined /\ Rows /\ Ordered /\ [Next]_vars => Ordered'
<1>. SUFFICES ASSUME Hands, Rest, Lined, Rows, Ordered, [Next]_vars PROVE Ordered'
  OBVIOUS
<1>. USE IngressAssumption
<1>1. CASE UNCHANGED <<ledger, status, told, ahead, queue, ids, wk, cur, displaced, up>>
  BY <1>1 DEF Ordered, Serving, Runs, Queued, Before
<1>2. ASSUME NEW q \in Request, Look(q) PROVE Ordered'
  <2>1. q[1] \in Report
    BY RequestParts
  <2>2. Serving
    BY <1>2 DEF Look, Lined, Serving, Rest
  <2>3. CASE status[q[1]] # "none"
    <3>1. CASE status[q[1]] = "received"
      <4>1. Enqueue(q[1]) /\ told' = told \cup {q[1]} /\ UNCHANGED <<ledger, status, ahead,
           cur, displaced, up>>
        BY <1>2, <2>3, <3>1 DEF Look, Retry, Accept
      <4>. QED
        BY <2>1, <2>2, <3>1, <4>1, OrderedEnqueue
    <3>2. CASE status[q[1]] # "received"
      <4>1. /\ UNCHANGED <<queue, ids, wk, ledger, status, ahead, cur, displaced, up>>
            /\ told' = told \cup {q[1]}
        BY <1>2, <2>3, <3>2 DEF Look, Retry, Accept
      <4>2. told' \subseteq Report
        BY <2>1, <4>1, Elements DEF Rows
      <4>. QED
        BY <2>2, <3>2, <4>1, <4>2, OrderedQuiet DEF Serving, Runs, Ordered
    <3>. QED
      BY <3>1, <3>2
  <2>4. CASE status[q[1]] = "none"
    BY <1>2, <1>1, <2>4 DEF Look
  <2>. QED
    BY <2>3, <2>4
<1>3. ASSUME NEW q \in Request, Store(q) PROVE Ordered'
  <2>1. q[1] \in Report
    BY RequestParts
  <2>2. Serving
    BY <1>3 DEF Store, Lined, Serving, Rest
  <2>3. CASE status[q[1]] # "none"
    <3>1. CASE status[q[1]] = "received"
      <4>1. Enqueue(q[1]) /\ told' = told \cup {q[1]} /\ UNCHANGED <<ledger, status, ahead,
           cur, displaced, up>>
        BY <1>3, <2>3, <3>1 DEF Store, Retry, Accept
      <4>. QED
        BY <2>1, <2>2, <3>1, <4>1, OrderedEnqueue
    <3>2. CASE status[q[1]] # "received"
      <4>1. /\ UNCHANGED <<queue, ids, wk, ledger, status, ahead, cur, displaced, up>>
            /\ told' = told \cup {q[1]}
        BY <1>3, <2>3, <3>2 DEF Store, Retry, Accept
      <4>2. told' \subseteq Report
        BY <2>1, <4>1, Elements DEF Rows
      <4>. QED
        BY <2>2, <3>2, <4>1, <4>2, OrderedQuiet DEF Serving, Runs, Ordered
    <3>. QED
      BY <3>1, <3>2
  <2>4. CASE status[q[1]] = "none"
    <3>1. /\ ledger' = Append(ledger, q[1]) /\ status' = [status EXCEPT ![q[1]] = "received"]
          /\ ahead' = [ahead EXCEPT ![q[1]] = told]
          /\ UNCHANGED <<queue, ids, wk, cur, told, displaced, up>>
      BY <1>3, <2>4 DEF Store, Insert
    <3>2. ahead'[q[1]] = told /\ \A r \in Report : r # q[1] => ahead'[r] = ahead[r]
      BY <2>1, <3>1 DEF Rows
    <3>3. \A e \in Report : e # q[1] => status'[e] = status[e]
      BY <2>1, <3>1 DEF Rest
    <3>4. status'[q[1]] = "received"
      BY <2>1, <3>1 DEF Rest
    <3>5. /\ DOMAIN ledger' = 1..Len(ledger) + 1 /\ DOMAIN ledger = 1..Len(ledger)
          /\ Len(ledger) \in Nat
          /\ \A n \in DOMAIN ledger : ledger'[n] = ledger[n]
          /\ ledger'[Len(ledger) + 1] = q[1]
      BY <2>1, <3>1, Appended DEF Rows
    <3>6. \A e, r : Before(e, r) => Before(e, r)'
      BY <3>5 DEF Before
    <3>7. \A e \in told : Before(e, q[1])' /\ e \in Report /\ e # q[1]
      <4>1. \A e \in told : \E m \in DOMAIN ledger : ledger[m] = e
        BY DEF Rows, ToSet
      <4>2. \A m \in DOMAIN ledger : m < Len(ledger) + 1 /\ m \in DOMAIN ledger'
        BY <3>5
      <4>3. Len(ledger) + 1 \in DOMAIN ledger'
        BY <3>5
      <4>4. \A e \in told : e \in Report /\ e # q[1]
        BY <2>4, Elements DEF Rows
      <4>. QED
        BY <3>5, <4>1, <4>2, <4>3, <4>4 DEF Before
    <3>8. \A r \in Report : \A e \in ahead'[r] : e \in told' /\ Before(e, r)'
      BY <3>1, <3>2, <3>6, <3>7 DEF Ordered
    <3>9. \A e \in told \cup ids : e \in Report /\ e # q[1]
      BY <2>2, <2>4, <3>7 DEF Ordered, Hands
    <3>10. \A n \in DOMAIN queue : queue[n] \in Report /\ queue[n] # q[1]
      BY <2>4, QueueReports DEF Lined
    <3>11. \A e : (Runs(e)' <=> Runs(e)) /\ (Queued(e)' <=> Queued(e))
      BY <3>1 DEF Runs, Queued
    <3>12. \A e \in told' \cup ids' : status'[e] = status[e]
      BY <3>1, <3>3, <3>9
    <3>13. \A n \in DOMAIN queue' : ahead'[queue'[n]] = ahead[queue[n]]
      BY <3>1, <3>2, <3>10
    <3>14. \A n \in DOMAIN queue : \A e \in ahead[queue[n]] : status'[e] = status[e]
      BY <3>1, <3>10, <3>12 DEF Ordered
    <3>. QED
      BY <2>2, <3>1, <3>8, <3>11, <3>12, <3>13, <3>14 DEF Ordered, Serving
  <2>. QED
    BY <2>3, <2>4
<1>4. ASSUME NEW q \in Request, Put(q) PROVE Ordered'
  <2>1. q[1] \in Report
    BY RequestParts
  <2>2. Serving /\ (status[q[1]] = "received" \/ q[1] \in ids)
    BY <1>4, <2>1, IngressAssumption DEF Put, Lined, Serving, Rest
  <2>3. Enqueue(q[1]) /\ told' = told \cup {q[1]} /\ UNCHANGED <<ledger, status, ahead,
       cur, displaced, up>>
    BY <1>4 DEF Put, Accept
  <2>. QED
    BY <2>1, <2>2, <2>3, OrderedEnqueue
<1>5. CASE Take
  <2>1. GetNext /\ ids' \subseteq ids /\ wk \in {"new", "wait", "flush"}
        /\ UNCHANGED <<ledger, status, told, ahead, up>>
    BY <1>5 DEF Take
  <2>2. CASE Serving
    BY <2>1, <2>2, OrderedNext
  <2>3. CASE ~Serving
    BY <2>1, <2>3 DEF Ordered, Lined, Serving, Rest
  <2>. QED
    BY <2>2, <2>3
<1>6. CASE Answered
  <2>1. GetNext /\ ids' \subseteq ids /\ wk \in {"new", "wait", "flush"}
        /\ UNCHANGED <<ledger, status, told, ahead, up>>
    BY <1>6 DEF Answered
  <2>2. CASE Serving
    BY <2>1, <2>2, OrderedNext
  <2>3. CASE ~Serving
    BY <2>1, <2>3 DEF Ordered, Lined, Serving, Rest
  <2>. QED
    BY <2>2, <2>3
<1>7. CASE Undo
  <2>1. told \subseteq Report
    BY Elements DEF Rows
  <2>2. wk = "undo" /\ status' = [status EXCEPT ![cur] = "cancelled"] /\ wk' = "restore"
        /\ UNCHANGED <<ledger, queue, ids, cur, up, told, ahead, displaced>>
    BY <1>7 DEF Undo
  <2>3. \A e \in Report : status'[e] \in {status[e], "cancelled"}
    BY <2>2 DEF Rest
  <2>. QED
    BY <2>1, <2>2, <2>3, OrderedQuiet DEF Serving, Runs, Ordered
<1>8. CASE Restore
  <2>1. told \subseteq Report
    BY Elements DEF Rows
  <2>2. wk = "restore" /\ status' = [status EXCEPT ![cur] = "received"] /\ wk' = "leave"
        /\ UNCHANGED <<ledger, queue, ids, cur, up, told, ahead, displaced>>
    BY <1>8 DEF Restore
  <2>3. \A e \in Report : status'[e] = status[e] \/ (e = cur /\ status'[e] = "received")
    BY <2>2 DEF Rest
  <2>. QED
    BY <2>1, <2>2, <2>3, OrderedQuiet DEF Serving, Runs, Ordered
<1>9. CASE WorkerLeaves
  <2>1. told \subseteq Report
    BY Elements DEF Rows
  <2>2. wk = "leave" /\ wk' \in {"new", "off"} /\ ids' \subseteq ids
        /\ (up \in {"stopping", "ending"} => wk' = "off")
        /\ UNCHANGED <<ledger, status, queue, up, told, ahead, displaced>>
    BY <1>9 DEF WorkerLeaves, Leave
  <2>. QED
    BY <2>1, <2>2, OrderedQuiet DEF Serving, Runs, Ordered
<1>10. ASSUME NEW as \in {"finalized", "error"}, Finalize(as) PROVE Ordered'
  <2>1. told \subseteq Report
    BY Elements DEF Rows
  <2>2. wk = "run" /\ status' = [status EXCEPT ![cur] = as] /\ wk' = "flush"
        /\ UNCHANGED <<ledger, queue, ids, cur, up, told, ahead, displaced>>
    BY <1>10 DEF Finalize
  <2>3. \A e \in Report : status'[e] = IF e = cur THEN as ELSE status[e]
    BY <2>2 DEF Rest
  <2>. QED
    BY <2>1, <2>2, <2>3, OrderedQuiet DEF Serving, Runs, Ordered
<1>11. CASE Idle
  <2>1. told \subseteq Report
    BY Elements DEF Rows
  <2>2. wk = "wait" /\ wk' \in {"new", "off"} /\ (up \in {"stopping", "ending"} => wk' = "off")
        /\ UNCHANGED <<ledger, status, queue, ids, cur, up, told, ahead, displaced>>
    BY <1>11 DEF Idle, Leave
  <2>. QED
    BY <2>1, <2>2, OrderedQuiet DEF Serving, Runs, Ordered
<1>12. ASSUME NEW t \in Task, Fire(t) PROVE Ordered'
  <2>1. told \subseteq Report
    BY Elements DEF Rows
  <2>2. UNCHANGED <<ledger, status, queue, ids, cur, up, told, ahead>>
    BY <1>12 DEF Fire
  <2>3. CASE tracked
    <3>1. WorkerCancelled /\ displaced \subseteq displaced' /\ (wk = "run" => cur \in displaced')
      BY <1>12, <2>3 DEF Fire
    <3>2. wk' \in {"off", "leave", "undo", "restore"} /\ (wk' \in {"undo", "restore"} => wk = "run")
      BY <2>3, <3>1 DEF Lined, WorkerCancelled
    <3>. QED
      BY <2>1, <2>2, <3>1, <3>2, OrderedQuiet DEF Serving, Runs
  <2>4. CASE ~tracked
    BY <1>12, <1>1, <2>2, <2>4 DEF Fire
  <2>. QED
    BY <2>3, <2>4
<1>13. CASE Close
  <2>1. told \subseteq Report
    BY Elements DEF Rows
  <2>2. up = "up" /\ up' = "closing" /\ UNCHANGED <<ledger, status, queue, ids, wk, cur,
       told, ahead, displaced>>
    BY <1>13 DEF Close
  <2>. QED
    BY <2>1, <2>2, OrderedQuiet DEF Serving, Runs, Ordered
<1>14. CASE Shutdown
  <2>1. told \subseteq Report
    BY Elements DEF Rows
  <2>2. up = "closing" /\ up' = "stopping" /\ UNCHANGED <<ledger, status, queue, ids, cur,
       told, ahead, displaced>>
    BY <1>14 DEF Shutdown
  <2>3. CASE \E t \in Task : sched[t] = "await"
    <3>1. WorkerCancelled /\ wk \in {"leave", "undo", "restore"}
      BY <1>14, <2>3 DEF Shutdown, Hands
    <3>2. wk' \in {"undo", "restore"} => wk \in {"undo", "restore"}
      BY <3>1 DEF WorkerCancelled
    <3>. QED
      BY <2>1, <2>2, <3>1, <3>2, OrderedQuiet DEF Serving, Runs, Ordered
  <2>4. CASE ~\E t \in Task : sched[t] = "await"
    <3>1. UNCHANGED wk
      BY <1>14, <2>4 DEF Shutdown
    <3>. QED
      BY <2>1, <2>2, <3>1, OrderedQuiet DEF Serving, Runs, Ordered
  <2>. QED
    BY <2>3, <2>4
<1>15. CASE StopWorker
  <2>1. up' = "ending" /\ UNCHANGED <<ledger, told, ahead>> /\ tracked /\ WorkerCancelled
    BY <1>15 DEF StopWorker
  <2>2. wk' \in {"off", "leave", "undo", "restore"}
    BY <2>1, CancelHands
  <2>. QED
    BY <2>1, <2>2 DEF Ordered, Serving, Before
<1>16. CASE Exit
  BY <1>16 DEF Exit, Forget, Ordered, Serving, Before
<1>17. CASE Crash
  BY <1>17 DEF Crash, Forget, Ordered, Serving, Before
<1>18. CASE Start
  <2>1. up = "down" /\ up' = "up" /\ queue' \in PendingEvents /\ ids' = ToSet(queue')
        /\ UNCHANGED <<ledger, status, told, ahead, cur, displaced>>
    BY <1>18 DEF Start
  <2>2. wk' \in {"off", "new"}
    BY <1>18 DEF Start, Lined
  <2>3. (\A m, n \in DOMAIN ledger : ledger[m] = ledger[n] => m = n) /\ DOMAIN ledger \subseteq Nat
    BY DEF Rows, IsInjective
  <2>4. /\ queue' \in Seq(Report)
        /\ \A n \in DOMAIN queue' : queue'[n] \in Report /\ status[queue'[n]] = "received"
        /\ \A e \in Report : status[e] = "received" => \E n \in DOMAIN queue' : queue'[n] = e
        /\ \A m, n \in DOMAIN queue' : Before(queue'[m], queue'[n]) => m < n
    BY <2>1, <2>3, Recovered
  <2>5. \A r \in Report : \A e \in ahead'[r] : e \in told' /\ Before(e, r)' /\ Before(e, r)
    BY <2>1 DEF Ordered, Before
  <2>6. told \cup ids' \subseteq Report
    BY <2>1, <2>4, Elements DEF Rows
  <2>7. \A e \in ids' : status[e] = "received"
    BY <2>1, <2>4 DEF ToSet
  <2>8. \A e \in told' \cup ids' : status'[e] = "received" => Queued(e)'
    BY <2>1, <2>4, <2>6 DEF Queued
  <2>9. ASSUME NEW n \in DOMAIN queue', NEW e \in ahead'[queue'[n]], status'[e] = "received"
        PROVE  \E m \in DOMAIN queue' : m < n /\ queue'[m] = e
    <3>1. e \in told /\ Before(e, queue'[n])
      BY <2>1, <2>4, <2>5
    <3>2. PICK m \in DOMAIN queue' : queue'[m] = e
      BY <2>1, <2>4, <2>6, <2>9, <3>1
    <3>. QED
      BY <2>4, <3>1, <3>2
  <2>. QED
    BY <2>1, <2>2, <2>5, <2>7, <2>8, <2>9 DEF Ordered
<1>19. CASE (\E q \in Request : Arrive(q)) \/ (\E q \in Request : Refuse(q)) \/ (\E t
     \in Task, as \in {"done", "error"} : TaskEnds(t, as)) \/ (\E t \in Task : Schedule(t))
     \/ (\E t \in Task : Due(t))
  BY <1>1, <1>19 DEF Arrive, Refuse, TaskEnds, Schedule, Due
<1>20. CASE UNCHANGED vars
  BY <1>1, <1>20 DEF vars
<1>. QED
  BY <1>2, <1>3, <1>4, <1>5, <1>6, <1>7, <1>8, <1>9, <1>10, <1>11, <1>12, <1>13, <1>14,
       <1>15, <1>16, <1>17, <1>18, <1>19, <1>20 DEF Next, Serve, Work, Fires, Stop

-----------------------------------------------------------------------------
(* The theorems. *)

Kept == Hands /\ Rest /\ Lined /\ Rows /\ Ordered

(* The invariants hold of every state of the ingress and the worker.       *)
LEMMA Keeps == Spec => []Kept
<1>1. Init => Kept
  BY Begun DEF Kept
<1>2. Kept /\ [Next]_vars => Kept'
  BY HandsStep, RestStep, LinedStep, RowsStep, OrderedStep DEF Kept
<1>. QED
  BY <1>1, <1>2, PTL DEF Spec

(* Every variable keeps its type, whatever the number of reports, requests *)
(* and tasks.                                                              *)
THEOREM TypeCorrect == Spec => []TypeOK
<1>1. Kept => TypeOK
  BY DEF Kept, Hands, Rest, Rows, TypeOK
<1>. QED
  BY <1>1, Keeps, PTL

(* Where a turn begins: in the worker, with the first of the queue. *)
LEMMA Beginning ==
  ASSUME Kept, [Next]_vars, NEW r \in Report, Begins(r)
  PROVE  Serving /\ queue # <<>> /\ r = queue[1] /\ 1 \in DOMAIN queue /\ status[r] = "received"
<1>. USE DEF Begins
<1>1. CASE Take \/ Answered
  <2>1. GetNext /\ wk \in {"new", "wait", "flush"}
    BY <1>1 DEF Take, Answered
  <2>2. queue # <<>> /\ cur' = Head(queue)
    BY <2>1 DEF GetNext
  <2>3. r = queue[1] /\ 1 \in DOMAIN queue
    BY <2>2, Taken DEF Kept, Hands
  <2>4. Serving
    BY <2>1 DEF Kept, Ordered, Lined, Rest, Serving
  <2>. QED
    BY <2>2, <2>3, <2>4 DEF Kept, Lined
<1>2. CASE ~(Take \/ Answered)
  <2>1. ~(wk # "run" /\ wk' = "run")
    <3>1. ASSUME NEW q \in Request, Look(q) \/ Store(q) \/ Put(q) PROVE wk' = wk \/ wk' = "new"
      BY <3>1 DEF Look, Store, Put, Retry, Enqueue
    <3>2. WorkerCancelled => wk' # "run" \/ wk' = wk
      BY DEF WorkerCancelled
    <3>. QED
      BY <1>2, <3>1, <3>2 DEF Next, Serve, Work, Fires, Stop, Arrive, Refuse, Undo, Restore,
           WorkerLeaves,
        Leave, Finalize, Idle, Fire, TaskEnds, Schedule, Due, Close, Shutdown, StopWorker, Exit, Crash,
        Forget, Start, vars
  <2>. QED
    BY <2>1
<1>. QED
  BY <1>1, <1>2

(* No turn begins for a report that has been answered, however often it is *)
(* sent and whatever restarts in between.                                  *)
THEOREM NeverAnsweredAgain == Spec => AnsweredOnce
<1>1. Kept /\ [Next]_vars =>
        [\A r \in Report : Begins(r) => status[r] = "received"]_vars
  BY Beginning
<1>. QED
  BY <1>1, Keeps, PTL DEF Spec, AnsweredOnce

(* Reports are answered in the order in which their senders were told that *)
(* they are accepted, across workers and restarts, but for those that a    *)
(* scheduled task took away.                                               *)
THEOREM AnsweredInOrder == Spec => FirstComeFirst
<1>1. ASSUME Kept, [Next]_vars, NEW r \in Report, Begins(r), NEW e \in ahead[r], status[e] = "received"
      PROVE  e \in displaced
  <2>1. Serving /\ r = queue[1] /\ 1 \in DOMAIN queue
    BY <1>1, Beginning
  <2>2. ~Runs(e)
    BY <1>1 DEF Begins, Runs
  <2>3. \A m \in DOMAIN queue : ~(m < 1)
    BY <1>1 DEF Kept, Hands
  <2>. QED
    BY <1>1, <2>1, <2>2, <2>3 DEF Kept, Ordered
<1>2. Kept /\ [Next]_vars =>
        [\A r \in Report : Begins(r) => \A e \in ahead[r] : status[e] = "received" => e \in
             displaced]_vars
  BY <1>1
<1>. QED
  BY <1>2, Keeps, PTL DEF Spec, FirstComeFirst

-----------------------------------------------------------------------------
(* Nobody waits for nothing. *)

(* Requests are taken, or still being answered.                            *)
Open == up \in {"up", "closing"}

(* A handler has stored the report and has yet to queue it.                *)
Awaits(r) == \E k \in 1..MaxTry : req[<<r, k>>] = "put"

(* While requests are taken, a report that is received is being answered,  *)
(* or queued for a worker that is alive, or was taken away by a task, or   *)
(* its handler has yet to queue it.                                        *)
WithinReach ==
  Open => \A r \in Report : status[r] = "received" =>
            r \in displaced \/ Runs(r) \/ (wk # "off" /\ Queued(r)) \/ Awaits(r)

(* What is queued while no worker is alive was taken away by a task.       *)
Stranded == Open /\ wk = "off" => \A n \in DOMAIN queue : queue[n] \in displaced

(* A step that queues nothing.                                             *)
LEMMA ReachQuiet ==
  ASSUME WithinReach, Stranded, Open' => Open, UNCHANGED queue, displaced \subseteq displaced',
         \A e \in Report : status'[e] = "received" =>
           \/ e \in displaced'
           \/ status[e] = "received" /\ (Runs(e) => Runs(e)') /\ (Awaits(e) => Awaits(e)'),
         Open' /\ wk' = "off" => \A n \in DOMAIN queue : queue[n] \in displaced'
  PROVE  WithinReach' /\ Stranded'
<1>1. \A e : Queued(e)' <=> Queued(e)
  BY DEF Queued
<1>2. ASSUME Open', wk' = "off", NEW e, Queued(e) PROVE e \in displaced'
  BY <1>2 DEF Queued
<1>. QED
  BY <1>1, <1>2 DEF WithinReach, Stranded, Open

(* A request that has done its part leaves its report queued.              *)
LEMMA ReachEnqueue ==
  ASSUME Hands, Rest, Lined, Ordered, WithinReach, Stranded, NEW q \in Request, Enqueue(q[1]),
         UNCHANGED <<status, cur, up, displaced>>, Open, req' = [req EXCEPT ![q] = "over"]
  PROVE  WithinReach' /\ Stranded'
<1>. DEFINE r == q[1]
<1>1. r \in Report /\ \A e \in Report, k \in 1..MaxTry : <<e, k>> \in Request
  BY RequestParts DEF Request
<1>2. wk' = wk \/ (wk = "off" /\ wk' = "new")
  BY <1>1, EnqueueHands
<1>3. \A e \in Report : e # r => (Awaits(e)' <=> Awaits(e))
  BY <1>1 DEF Awaits, Rest
<1>4. \A e : Runs(e) <=> Runs(e)'
  BY <1>2 DEF Runs
<1>5. Serving
  BY DEF Open, Serving
<1>6. CASE r \in ids
  <2>1. UNCHANGED <<queue, wk>>
    BY <1>6 DEF Enqueue
  <2>2. \A e : Queued(e)' <=> Queued(e)
    BY <2>1 DEF Queued
  <2>3. status[r] = "received" => r \in displaced \/ Runs(r) \/ Queued(r)
    BY <1>5, <1>6 DEF Ordered
  <2>4. wk = "off" /\ Queued(r) => r \in displaced
    BY DEF Stranded, Queued
  <2>. QED
    BY <1>1, <1>3, <1>4, <2>1, <2>2, <2>3, <2>4 DEF WithinReach, Stranded, Open
<1>7. CASE r \notin ids
  <2>1. queue' = Append(queue, r)
    BY <1>7 DEF Enqueue
  <2>2. /\ DOMAIN queue' = 1..Len(queue) + 1 /\ DOMAIN queue = 1..Len(queue) /\ Len(queue) \in Nat
        /\ \A n \in DOMAIN queue : queue'[n] = queue[n] /\ n \in DOMAIN queue'
        /\ queue'[Len(queue) + 1] = r
    <3>1. queue \in Seq(Report)
      BY DEF Hands
    <3>. QED
      BY <1>1, <2>1, <3>1, Appended
  <2>3. Queued(r)' /\ \A e : Queued(e) => Queued(e)'
    BY <2>2 DEF Queued
  <2>4. wk' # "off"
    BY <1>7, <1>2 DEF Enqueue
  <2>. QED
    BY <1>1, <1>3, <1>4, <2>3, <2>4 DEF WithinReach, Stranded, Open
<1>. QED
  BY <1>6, <1>7

(* What is taken from the queue is answered, the rest stays queued.        *)
LEMMA ReachNext ==
  ASSUME Hands, WithinReach, Stranded, GetNext, wk \in {"new", "wait", "flush"},
         UNCHANGED <<status, up, req>>
  PROVE  WithinReach' /\ Stranded'
<1>1. wk' \in {"wait", "run"}
  BY NextHands
<1>2. \A e : ~Runs(e) /\ (Awaits(e)' <=> Awaits(e))
  BY DEF Runs, Awaits
<1>3. CASE queue = <<>>
  <2>1. UNCHANGED <<queue, displaced>>
    BY <1>3 DEF GetNext
  <2>2. \A e : Queued(e)' <=> Queued(e)
    BY <2>1 DEF Queued
  <2>. QED
    BY <1>1, <1>2, <2>1, <2>2 DEF WithinReach, Stranded, Open
<1>4. CASE queue # <<>>
  <2>1. queue' = Tail(queue) /\ cur' = Head(queue) /\ wk' = "run" /\ displaced' = displaced \ {cur'}
    BY <1>4 DEF GetNext
  <2>2. /\ 1 \in DOMAIN queue /\ cur' = queue[1]
        /\ DOMAIN queue = 1..Len(queue) /\ Len(queue) \in Nat /\ DOMAIN queue' = 1..Len(queue) - 1
        /\ \A n \in DOMAIN queue' : n + 1 \in DOMAIN queue /\ queue'[n] = queue[n + 1]
    BY <1>4, <2>1, Taken DEF Hands
  <2>3. \A n \in DOMAIN queue : n = 1 \/ (n - 1 \in DOMAIN queue' /\ queue'[n - 1] = queue[n])
    BY <2>2
  <2>4. \A e : e \in displaced => e \in displaced' \/ Runs(e)'
    BY <2>1 DEF Runs
  <2>5. \A e : Queued(e) => Queued(e)' \/ Runs(e)'
    BY <2>1, <2>2, <2>3 DEF Queued, Runs
  <2>. QED
    BY <1>1, <1>2, <2>1, <2>4, <2>5 DEF WithinReach, Stranded, Open
<1>. QED
  BY <1>3, <1>4

(* The steps. *)

LEMMA ReachStep ==
  Hands /\ Rest /\ Lined /\ Rows /\ Ordered /\ WithinReach /\ Stranded /\ [Next]_vars
    => WithinReach' /\ Stranded'
<1>. SUFFICES ASSUME Hands, Rest, Lined, Rows, Ordered, WithinReach, Stranded, [Next]_vars
              PROVE  WithinReach' /\ Stranded'
  OBVIOUS
<1>. USE IngressAssumption
<1>0. \A e \in Report, k \in 1..MaxTry : <<e, k>> \in Request
  BY DEF Request
<1>1. CASE ~Open'
  BY <1>1 DEF WithinReach, Stranded
<1>2. ASSUME UNCHANGED <<queue, status, wk, cur, displaced>>, Open' => Open,
             \A e \in Report : Awaits(e) => Awaits(e)'
      PROVE  WithinReach' /\ Stranded'
  BY <1>2, ReachQuiet DEF Runs, Stranded, Open
<1>3. ASSUME NEW q \in Request, Look(q) PROVE WithinReach' /\ Stranded'
  <2>1. q[1] \in Report /\ Open
    BY <1>3, RequestParts DEF Look, Lined, Rest, Open
  <2>2. CASE status[q[1]] = "received"
    BY <1>3, <2>1, <2>2, ReachEnqueue DEF Look, Retry, Accept
  <2>3. CASE status[q[1]] # "received"
    <3>1. UNCHANGED <<queue, status, wk, cur, displaced, up>> /\ req[q] = "look"
          /\ \E s \in {"over", "append"} : req' = [req EXCEPT ![q] = s]
      BY <1>3, <2>3 DEF Look, Retry, Accept
    <3>2. \A e \in Report : Awaits(e) => Awaits(e)'
      BY <1>0, <3>1 DEF Awaits, Rest
    <3>. QED
      BY <1>2, <3>1, <3>2 DEF Open
  <2>. QED
    BY <2>2, <2>3
<1>4. ASSUME NEW q \in Request, Store(q) PROVE WithinReach' /\ Stranded'
  <2>1. q[1] \in Report /\ Open /\ q[2] \in 1..MaxTry /\ q = <<q[1], q[2]>>
    BY <1>4, RequestParts DEF Store, Lined, Rest, Open
  <2>2. CASE status[q[1]] = "received"
    BY <1>4, <2>1, <2>2, ReachEnqueue DEF Store, Retry, Accept
  <2>3. CASE status[q[1]] \notin {"none", "received"}
    <3>1. UNCHANGED <<queue, status, wk, cur, displaced, up>> /\ req[q] = "append"
          /\ req' = [req EXCEPT ![q] = "over"]
      BY <1>4, <2>3 DEF Store, Retry, Accept
    <3>2. \A e \in Report : Awaits(e) => Awaits(e)'
      BY <1>0, <3>1 DEF Awaits, Rest
    <3>. QED
      BY <1>2, <3>1, <3>2 DEF Open
  <2>4. CASE status[q[1]] = "none"
    <3>1. /\ status' = [status EXCEPT ![q[1]] = "received"]
          /\ req' = [req EXCEPT ![q] = "put"]
          /\ UNCHANGED <<queue, wk, cur, displaced, up>>
      BY <1>4, <2>4 DEF Store, Insert
    <3>2. Awaits(q[1])' /\ \A e \in Report : Awaits(e) => Awaits(e)'
      BY <1>0, <2>1, <3>1 DEF Awaits, Rest
    <3>3. \A e \in Report : e # q[1] => status'[e] = status[e]
      BY <2>1, <3>1 DEF Rest
    <3>4. \A e : (Runs(e) <=> Runs(e)') /\ (Queued(e) <=> Queued(e)')
      BY <3>1 DEF Runs, Queued
    <3>. QED
      BY <3>1, <3>2, <3>3, <3>4 DEF WithinReach, Stranded, Open
  <2>. QED
    BY <2>2, <2>3, <2>4
<1>5. ASSUME NEW q \in Request, Put(q) PROVE WithinReach' /\ Stranded'
  <2>1. Open
    BY <1>5 DEF Put, Lined, Rest, Open
  <2>. QED
    BY <1>5, <2>1, ReachEnqueue DEF Put, Accept
<1>6. CASE Take \/ Answered
  BY <1>6, ReachNext DEF Take, Answered
<1>7. CASE Undo
  <2>1. wk = "undo" /\ status' = [status EXCEPT ![cur] = "cancelled"] /\ wk' = "restore"
        /\ UNCHANGED <<queue, cur, up, displaced, req>>
    BY <1>7 DEF Undo
  <2>2. \A e \in Report : status'[e] \in {status[e], "cancelled"}
    BY <2>1 DEF Rest
  <2>. QED
    BY <2>1, <2>2, ReachQuiet DEF Runs, Awaits, Open
<1>8. CASE Restore
  <2>1. wk = "restore" /\ status' = [status EXCEPT ![cur] = "received"] /\ wk' = "leave"
        /\ UNCHANGED <<queue, cur, up, displaced, req>>
    BY <1>8 DEF Restore
  <2>2. \A e \in Report : status'[e] = status[e] \/ e = cur
    BY <2>1 DEF Rest
  <2>3. Open => cur \in displaced
    BY <2>1 DEF Ordered, Serving, Open
  <2>. QED
    BY <1>1, <2>1, <2>2, <2>3, ReachQuiet DEF Runs, Awaits, Open
<1>9. CASE WorkerLeaves \/ Idle
  <2>1. wk \in {"leave", "wait"} /\ UNCHANGED <<queue, status, up, displaced, req>>
        /\ (wk' = "off" => queue = <<>> \/ up \in {"stopping", "ending"})
    BY <1>9 DEF WorkerLeaves, Idle, Leave
  <2>. QED
    BY <2>1, ReachQuiet DEF Runs, Awaits, Open
<1>10. ASSUME NEW as \in {"finalized", "error"}, Finalize(as) PROVE WithinReach' /\ Stranded'
  <2>1. wk = "run" /\ status' = [status EXCEPT ![cur] = as] /\ wk' = "flush"
        /\ UNCHANGED <<queue, cur, up, displaced, req>>
    BY <1>10 DEF Finalize
  <2>2. \A e \in Report : status'[e] = IF e = cur THEN as ELSE status[e]
    BY <2>1 DEF Rest
  <2>. QED
    BY <2>1, <2>2, ReachQuiet DEF Runs, Awaits, Open
<1>11. ASSUME NEW t \in Task, Fire(t) PROVE WithinReach' /\ Stranded'
  <2>1. UNCHANGED <<queue, status, cur, up, req>>
    BY <1>11 DEF Fire
  <2>2. CASE tracked
    <3>1. WorkerCancelled /\ displaced \subseteq displaced' /\ (wk = "run" => cur \in displaced')
          /\ (wk = "new" => ToSet(queue) \subseteq displaced')
      BY <1>11, <2>2 DEF Fire
    <3>2. wk' = "off" => wk = "new"
      BY <2>2, <3>1, CancelHands DEF Hands
    <3>3. wk = "new" => \A n \in DOMAIN queue : queue[n] \in displaced'
      BY <3>1 DEF ToSet
    <3>. QED
      BY <2>1, <3>1, <3>2, <3>3, ReachQuiet DEF Runs, Awaits, Open
  <2>3. CASE ~tracked
    BY <1>11, <1>2, <2>1, <2>3 DEF Fire, Open, Awaits
  <2>. QED
    BY <2>2, <2>3
<1>12. CASE Start
  <2>1. up = "down" /\ queue' \in PendingEvents
        /\ UNCHANGED <<ledger, status, cur, displaced>>
        /\ (queue' = <<>> \/ wk' = "new") /\ (queue' = <<>> => wk' = wk)
    BY <1>12 DEF Start
  <2>2. (\A m, n \in DOMAIN ledger : ledger[m] = ledger[n] => m = n) /\ DOMAIN ledger \subseteq Nat
    BY DEF Rows, IsInjective
  <2>3. \A e \in Report : status[e] = "received" => \E n \in DOMAIN queue' : queue'[n] = e
    BY <2>1, <2>2, Recovered
  <2>4. \A n \in DOMAIN queue' : wk' = "new"
    BY <2>1
  <2>. QED
    BY <2>1, <2>3, <2>4 DEF WithinReach, Stranded, Queued
<1>13. CASE Close
  BY <1>2, <1>13 DEF Close, Open, Awaits
<1>14. CASE Shutdown \/ StopWorker \/ Exit \/ Crash
  BY <1>1, <1>14 DEF Shutdown, StopWorker, Exit, Crash, Forget, Open
<1>15. ASSUME NEW q \in Request, Arrive(q) \/ Refuse(q) PROVE WithinReach' /\ Stranded'
  <2>1. UNCHANGED <<queue, status, wk, cur, displaced, up>> /\ req[q] # "put"
        /\ \E s \in {"over", "look"} : req' = [req EXCEPT ![q] = s]
    BY <1>15 DEF Arrive, Refuse
  <2>2. \A e \in Report : Awaits(e) => Awaits(e)'
    BY <1>0, <2>1 DEF Awaits, Rest
  <2>. QED
    BY <1>2, <2>1, <2>2 DEF Open
<1>16. CASE \E t \in Task : Schedule(t) \/ Due(t) \/ \E as \in {"done", "error"} : TaskEnds(t, as)
  BY <1>2, <1>16 DEF Schedule, Due, TaskEnds, Open, Awaits
<1>17. CASE UNCHANGED vars
  BY <1>2, <1>17 DEF vars, Open, Awaits
<1>. QED
  BY <1>3, <1>4, <1>5, <1>6, <1>7, <1>8, <1>9, <1>10, <1>11, <1>12, <1>13, <1>14, <1>15, <1>16,
     <1>17 DEF Next, Serve, Work, Fires, Stop

(* A report that is cancelled will be received again, unless the           *)
(* restoration of its status was cut off (_run_service_queue).             *)
CancelledIsUndone ==
  \A r \in Report : status[r] = "cancelled" => r \in lost \/ (wk = "restore" /\ cur = r)

(* Only the pipeline's handler cancels a report, and only its worker is    *)
(* then restoring it.                                                      *)
LEMMA UndoneStep == Hands /\ Rest /\ Lined /\ CancelledIsUndone /\ [Next]_vars => CancelledIsUndone'
<1>. SUFFICES ASSUME Hands, Rest, Lined, CancelledIsUndone, [Next]_vars PROVE CancelledIsUndone'
  OBVIOUS
<1>1. ASSUME UNCHANGED <<status, wk, cur, lost>> PROVE CancelledIsUndone'
  BY <1>1 DEF CancelledIsUndone
<1>2. ASSUME wk # "restore", UNCHANGED <<status, lost>> PROVE CancelledIsUndone'
  BY <1>2 DEF CancelledIsUndone
<1>3. ASSUME WorkerCancelled, UNCHANGED <<status, cur>> PROVE CancelledIsUndone'
  <2>1. wk = "restore" => wk' \in {"restore", "leave"}
    BY <1>3 DEF WorkerCancelled
  <2>2. lost \subseteq lost' /\ (wk = "restore" /\ wk' = "leave" => cur \in lost')
    BY <1>3 DEF WorkerCancelled
  <2>. QED
    BY <1>3, <2>1, <2>2 DEF CancelledIsUndone
<1>4. ASSUME NEW q \in Request, Look(q) \/ Store(q) \/ Put(q) PROVE CancelledIsUndone'
  <2>1. UNCHANGED <<cur, lost>>
    BY <1>4 DEF Look, Store, Put
  <2>2. wk = "restore" => wk' = "restore"
    BY <1>4 DEF Look, Store, Put, Retry, Enqueue
  <2>3. q[1] \in Report
    BY RequestParts
  <2>4. UNCHANGED status \/ status' = [status EXCEPT ![q[1]] = "received"]
    BY <1>4 DEF Look, Store, Put, Insert
  <2>5. \A e \in Report : status'[e] = "cancelled" => status[e] = "cancelled"
    BY <2>3, <2>4 DEF Rest
  <2>. QED
    BY <2>1, <2>2, <2>5 DEF CancelledIsUndone
<1>5. CASE Take \/ Answered
  BY <1>2, <1>5 DEF Take, Answered
<1>6. CASE Idle \/ WorkerLeaves
  BY <1>2, <1>6 DEF Idle, WorkerLeaves
<1>7. CASE Undo
  <2>1. \A e \in Report : e # cur => status'[e] = status[e]
    BY <1>7 DEF Undo, Rest
  <2>. QED
    BY <1>7, <2>1 DEF Undo, CancelledIsUndone
<1>8. CASE Restore
  <2>1. \A e \in Report : status'[e] = IF e = cur THEN "received" ELSE status[e]
    BY <1>8 DEF Restore, Rest
  <2>. QED
    BY <1>8, <2>1 DEF Restore, CancelledIsUndone
<1>9. ASSUME NEW as \in {"finalized", "error"}, Finalize(as) PROVE CancelledIsUndone'
  <2>1. \A e \in Report : status'[e] = IF e = cur THEN as ELSE status[e]
    BY <1>9 DEF Finalize, Rest
  <2>. QED
    BY <1>9, <2>1 DEF Finalize, CancelledIsUndone
<1>10. ASSUME NEW t \in Task, Fire(t) PROVE CancelledIsUndone'
  <2>1. CASE tracked
    BY <1>3, <1>10, <2>1 DEF Fire
  <2>2. CASE ~tracked
    BY <1>1, <1>10, <2>2 DEF Fire
  <2>. QED
    BY <2>1, <2>2
<1>11. CASE Shutdown
  <2>1. CASE \E t \in Task : sched[t] = "await"
    BY <1>3, <1>11, <2>1 DEF Shutdown
  <2>2. CASE ~\E t \in Task : sched[t] = "await"
    BY <1>1, <1>11, <2>2 DEF Shutdown
  <2>. QED
    BY <2>1, <2>2
<1>12. CASE StopWorker
  BY <1>3, <1>12 DEF StopWorker
<1>13. CASE Exit \/ Crash
  <2>1. UNCHANGED status /\ lost \subseteq lost' /\ (wk = "restore" => cur \in lost')
    BY <1>13 DEF Exit, Crash, Forget
  <2>. QED
    BY <2>1 DEF CancelledIsUndone
<1>14. CASE Start
  <2>1. UNCHANGED <<status, lost>> /\ wk # "restore"
    BY <1>14 DEF Start, Lined
  <2>. QED
    BY <1>2, <2>1 DEF CancelledIsUndone
<1>15. CASE \/ \E q \in Request : Arrive(q) \/ Refuse(q)
            \/ \E t \in Task : Schedule(t) \/ Due(t) \/ \E as \in {"done", "error"} : TaskEnds(t, as)
            \/ Close \/ UNCHANGED vars
  BY <1>1, <1>15 DEF Arrive, Refuse, Schedule, Due, TaskEnds, Close, vars
<1>. QED
  BY <1>4, <1>5, <1>6, <1>7, <1>8, <1>9, <1>10, <1>11, <1>12, <1>13, <1>14, <1>15
     DEF Next, Serve, Work, Fires, Stop

(* No report is received without a queue, nor queued without a worker,     *)
(* over retries, idle workers, cancellations and restarts: what Attended   *)
(* needs of the state (dispatch_service_event, _run_service_queue).        *)
THEOREM ReceivedIsReached == Spec => []WithinReach
<1>1. Init => WithinReach /\ Stranded
  BY DEF Init, WithinReach, Stranded
<1>2. Kept /\ WithinReach /\ Stranded /\ [Next]_vars => (WithinReach /\ Stranded)'
  BY ReachStep DEF Kept
<1>. QED
  BY <1>1, <1>2, Keeps, PTL DEF Spec

(* No report stays cancelled but for a restoration that was cut off        *)
(* (_run_service_event, _run_service_queue).                               *)
THEOREM CancelledIsRestored == Spec => []CancelledIsUndone
<1>1. Init => CancelledIsUndone
  BY DEF Init, CancelledIsUndone
<1>2. Kept /\ CancelledIsUndone /\ [Next]_vars => CancelledIsUndone'
  BY UndoneStep DEF Kept
<1>. QED
  BY <1>1, <1>2, Keeps, PTL DEF Spec

=============================================================================
