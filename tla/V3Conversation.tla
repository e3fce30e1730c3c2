---------------------------- MODULE V3Conversation ----------------------------
(***************************************************************************)
(* One private conversation of the V3 archive: the scheduler               *)
(* (scheduler.py) starts a turn for each input and cancels the turn        *)
(* before, and the turns share what is remembered: the rows of the         *)
(* database, the working window (window.py), and the summaries that        *)
(* compaction puts in its place (pipeline.py, store.py).  A restart        *)
(* rebuilds the window from the rows no summary covers.                    *)
(*                                                                         *)
(* What a turn does is in V3Pipeline; here it is the steps that touch the  *)
(* memory.  An action is the code between two awaits, and the effect of an *)
(* awaited write is a step of its own, so that cancel() and a crash may    *)
(* come before or after it.                                                *)
(***************************************************************************)
EXTENDS Naturals, Sequences, FiniteSets, SequencesExt

CONSTANTS
  MaxTurn,                 \* bound: turns
  MaxLive,                 \* bound: turns and dispatchers at the same time
  MaxRestore,              \* the rows startup restores (200)
  MaxSummaries,            \* summaries_max_count
  MinSummaries,            \* summaries_min_count
  MaxCrash                 \* bound: crashes

ASSUME ConversationAssumption ==
  /\ MaxTurn \in Nat /\ MaxLive \in Nat /\ MaxRestore \in Nat \ {0} /\ MaxCrash \in Nat
  /\ MaxSummaries \in Nat /\ MinSummaries \in 0..MaxSummaries

Turn == 1..MaxTurn
Item == [turn : Turn, id : 0..MaxTurn]

VARIABLES
  up, crashes,
  \* the database
  rows,                    \* messages: the turn of each row; its id is its place
  status,                  \* the status in the row of a turn: "responded", or any other
  summaries,               \* in the order of seq: covered_through_message_id, 0 for none
  task,                    \* the status of a scheduled task
  \* the scheduler
  pending,                 \* _pending_events: texts wait for the debounce timer
  used, kind,              \* the turns there have been, and what started those that run
  st,                      \* where each turn, or its dispatcher, is
  for,                     \* the turn a dispatcher waits for
  tracked,                 \* _tasks[key], 0 for none that runs
  \* the window
  window,                  \* the turns in it; id is record_id, 0 for none
  trusted,                 \* coverage_trusted
  snap,                    \* the window a compaction looked at, and how much of it goes
  \* history
  summarised,              \* the turns a compaction summary was written for
  overlapped,              \* the turns that ran while another one ran
  cutoff                   \* the turns startup left out

database == <<rows, status, summaries, task>>
scheduler == <<pending, used, kind, st, for, tracked>>
vars == <<up, crashes, rows, status, summaries, task, pending, used, kind, st, for, tracked,
          window, trusted, snap, summarised, overlapped, cutoff>>

NoSnap == [items |-> <<>>, cut |-> 0]

(* The record ids of items are those of the rows of their turns, or none.  *)
OfRows(items) ==
  \A k \in DOMAIN items :
    items[k].id # 0 => items[k].id \in DOMAIN rows /\ rows[items[k].id] = items[k].turn

(* A turn has one row and one place in the window at most, and what names  *)
(* a row - an item of a window, a summary - names one that is there.       *)
TypeOK ==
  /\ up \in BOOLEAN /\ crashes \in 0..MaxCrash
  /\ rows \in Seq(Turn) /\ IsInjective(rows)
  /\ status \in [Turn -> {"none", "other", "responded"}]
  /\ \A t \in Turn : status[t] # "none" <=> t \in ToSet(rows)
  /\ summaries \in Seq(0..Len(rows))
  /\ task \in {"none", "pending", "running", "done"}
  /\ pending \in BOOLEAN /\ used \in 0..MaxTurn
  /\ kind \in [Turn -> {"none", "chat", "schedule", "beat"}]
  /\ st \in [Turn -> {"none", "hush", "waits", "new", "save", "ready", "compact", "trim", "think",
                      "kept", "store", "archive", "undo", "over"}]
  /\ for \in [Turn -> 0..MaxTurn] /\ tracked \in 0..MaxTurn
  /\ window \in Seq(Item) /\ OfRows(window)
  /\ IsInjective([n \in DOMAIN window |-> window[n].turn])
  /\ trusted \in BOOLEAN
  /\ snap \in [Turn -> [items : Seq(Item), cut : Nat]]
  /\ \A t \in Turn : OfRows(snap[t].items)
  /\ summarised \subseteq Turn /\ overlapped \subseteq Turn /\ cutoff \subseteq Turn

Init ==
  /\ up = TRUE /\ crashes = 0
  /\ rows = <<>> /\ status = [t \in Turn |-> "none"] /\ summaries = <<>> /\ task = "none"
  /\ pending = FALSE /\ used = 0 /\ kind = [t \in Turn |-> "none"]
  /\ st = [t \in Turn |-> "none"] /\ for = [t \in Turn |-> 0] /\ tracked = 0
  /\ window = <<>> /\ trusted = TRUE /\ snap = [t \in Turn |-> NoSnap]
  /\ summarised = {} /\ overlapped = {} /\ cutoff = {}

Running(t) ==
  st[t] \in {"save", "ready", "compact", "trim", "think", "kept", "store", "archive", "undo"}
Active == {t \in Turn : Running(t)}

(* The turn t enters pipeline(); whoever is there already overlaps it.     *)
Enters(t) ==
  overlapped' = IF Active = {} THEN overlapped ELSE overlapped \cup Active \cup {t}

-----------------------------------------------------------------------------
(* The scheduler. *)

(* What cancel() makes of a turn: one that was not started never starts,   *)
(* one that is stored is not undone.                                       *)
Cancelled(t) == IF st[t] \in {"new", "archive", "over"} THEN "over" ELSE "undo"

(* A chat turn gets a task; a scheduled one runs in its own. *)
Begin(t) ==
  IF kind'[t] = "chat"
  THEN /\ st' = [st EXCEPT ![t] = "new"] /\ tracked' = t
       /\ UNCHANGED overlapped
  ELSE /\ st' = [st EXCEPT ![t] = "save"] /\ UNCHANGED tracked
       /\ Enters(t)

(* cancel_user: the task is taken out of _tasks, cancelled and waited for. *)
PopTask(t) ==
  IF tracked = 0
  THEN Begin(t) /\ UNCHANGED for
  ELSE /\ st' = [st EXCEPT ![tracked] = Cancelled(tracked), ![t] = "waits"]
       /\ for' = [for EXCEPT ![t] = tracked]
       /\ tracked' = 0
       /\ UNCHANGED overlapped

Beats == {t \in Turn : kind[t] = "beat" /\ Running(t)}

(* cancel_user: first the heartbeats, of which there is one at most. *)
CancelUser(t) ==
  IF Beats = {} THEN PopTask(t)
  ELSE \E b \in Beats :
         /\ st' = [st EXCEPT ![b] = Cancelled(b), ![t] = "hush"]
         /\ for' = [for EXCEPT ![t] = b]
         /\ UNCHANGED <<tracked, overlapped>>

(* A turn is about to be started. *)
Comes(what) ==
  /\ up /\ used < MaxTurn
  /\ Cardinality({t \in Turn : st[t] \notin {"none", "over"}}) < MaxLive
  /\ used' = used + 1
  /\ kind' = [kind EXCEPT ![used'] = what]

(* dispatch: a text waits for others. *)
Text ==
  /\ up /\ used < MaxTurn
  /\ pending' = TRUE
  /\ UNCHANGED <<up, crashes, database, used, kind, st, for, tracked, window, trusted, snap,
                 summarised, overlapped, cutoff>>

(* _debounce_expire: no other came. *)
Expire ==
  /\ pending /\ Comes("chat")
  /\ pending' = FALSE
  /\ CancelUser(used')
  /\ UNCHANGED <<up, crashes, database, window, trusted, snap, summarised, cutoff>>

(* _dispatch_direct: an image does not wait, and the texts that do are     *)
(* dropped.                                                                *)
Image ==
  /\ Comes("chat")
  /\ pending' = FALSE
  /\ CancelUser(used')
  /\ UNCHANGED <<up, crashes, database, window, trusted, snap, summarised, cutoff>>

(* _fire_scheduled_task. *)
Fire ==
  /\ task = "pending" /\ Comes("schedule")
  /\ task' = "running"
  /\ pending' = FALSE
  /\ CancelUser(used')
  /\ UNCHANGED <<up, crashes, rows, status, summaries, window, trusted, snap, summarised, cutoff>>

(* run_heartbeat_once: one at a time, and while no task is known. *)
Heartbeat ==
  /\ Beats = {} /\ tracked = 0
  /\ rows # <<>> /\ Comes("beat")
  /\ st' = [st EXCEPT ![used'] = "ready"]
  /\ Enters(used')
  /\ UNCHANGED <<up, crashes, database, pending, for, tracked, window, trusted, snap, summarised,
                 cutoff>>

(* What a dispatcher waits for is over. *)
Resume(t) ==
  /\ st[t] \in {"hush", "waits"} /\ st[for[t]] = "over"
  /\ UNCHANGED kind
  /\ IF st[t] = "hush" THEN PopTask(t) ELSE Begin(t) /\ for' = [for EXCEPT ![t] = 0]
  /\ UNCHANGED <<up, crashes, database, pending, used, window, trusted, snap, summarised, cutoff>>

-----------------------------------------------------------------------------
(* A turn. *)

Goes(t, from, to) == st[t] \in from /\ st' = [st EXCEPT ![t] = to]

(* The task of a chat turn starts. *)
Start(t) ==
  /\ Goes(t, {"new"}, "save")
  /\ Enters(t)
  /\ UNCHANGED <<up, crashes, database, pending, used, kind, for, tracked, window, trusted, snap,
                 summarised, cutoff>>

(* _save_inbound_msg. *)
Save(t) ==
  /\ Goes(t, {"save"}, "ready")
  /\ rows' = Append(rows, t)
  /\ status' = [status EXCEPT ![t] = "other"]
  /\ UNCHANGED <<up, crashes, summaries, task, pending, used, kind, for, tracked, window, trusted,
                 snap, summarised, overlapped, cutoff>>

(* Where the request does not fit the budget,                              *)
(* _compact_context_for_request summarises the oldest turns of the window, *)
(* never the last, and never a part of one.  Items without a record id     *)
(* that follow each other are one.                                         *)
Compact(t) ==
  /\ Goes(t, {"ready"}, "compact")
  /\ \E n \in 1..Len(window) - 1 :
       /\ window[n].id # 0 \/ window[n + 1].id # 0
       /\ snap' = [snap EXCEPT ![t] = [items |-> window, cut |-> n]]
  /\ UNCHANGED <<up, crashes, database, pending, used, kind, for, tracked, window, trusted,
                 summarised, overlapped, cutoff>>

Archived(t) == SubSeq(snap[t].items, 1, snap[t].cut)
Kept(t) == SubSeq(snap[t].items, snap[t].cut + 1, Len(snap[t].items))
Largest(S) == IF S = {} THEN 0 ELSE CHOOSE n \in S : \A m \in S : m <= n

(* Mutant: a window that lacks rows covers them all the same.              *)
ThroughAnyway(t) == Largest({item.id : item \in ToSet(Archived(t))})

(* covered_through: the newest row among what is summarised, unless the    *)
(* window lacks older ones.                                                *)
Through(t) == IF trusted THEN Largest({item.id : item \in ToSet(Archived(t))}) ELSE 0

(* _generate_and_save_summary: add_summary. *)
Summarise(t) ==
  /\ Goes(t, {"compact"}, "trim")
  /\ summaries' = Append(summaries, Through(t))
  /\ summarised' = summarised \cup {item.turn : item \in ToSet(Archived(t))}
  /\ UNCHANGED <<up, crashes, rows, status, task, pending, used, kind, for, tracked, window, trusted,
                 snap, overlapped, cutoff>>

(* Mutant: the window is cut although there is no summary.                 *)
SummaryFailsCut(t) ==
  /\ Goes(t, {"compact"}, "think")
  /\ window' = Kept(t)
  /\ snap' = [snap EXCEPT ![t] = NoSnap]
  /\ UNCHANGED <<up, crashes, database, pending, used, kind, for, tracked, trusted, summarised,
                 overlapped, cutoff>>

(* There is no summary: the window stays. *)
SummaryFails(t) ==
  /\ Goes(t, {"compact"}, "think")
  /\ snap' = [snap EXCEPT ![t] = NoSnap]
  /\ UNCHANGED <<up, crashes, database, pending, used, kind, for, tracked, window, trusted, summarised,
                 overlapped, cutoff>>

(* trim_summaries: too many are cut down to the newest few. *)
Trimmed(s) == IF Len(s) <= MaxSummaries THEN s ELSE SubSeq(s, Len(s) - MinSummaries + 1, Len(s))

(* Mutant: replace does not clear the window.                              *)
ReplaceAdds(t) ==
  /\ Goes(t, {"trim"}, "think")
  /\ summaries' = Trimmed(summaries)
  /\ window' = window \o Kept(t)
  /\ snap' = [snap EXCEPT ![t] = NoSnap]
  /\ UNCHANGED <<up, crashes, rows, status, task, pending, used, kind, for, tracked, trusted, summarised,
                 overlapped, cutoff>>

(* Then the window becomes what was kept of it. *)
Replace(t) ==
  /\ Goes(t, {"trim"}, "think")
  /\ summaries' = Trimmed(summaries)
  /\ window' = Kept(t)
  /\ snap' = [snap EXCEPT ![t] = NoSnap]
  /\ UNCHANGED <<up, crashes, rows, status, task, pending, used, kind, for, tracked, trusted, summarised,
                 overlapped, cutoff>>

(* schedule_once: the scheduler tool runs at once, in a tool round of a    *)
(* chat turn, before there is an answer.                                   *)
Schedule(t) ==
  /\ kind[t] = "chat" /\ task = "none"
  /\ Goes(t, {"ready", "think"}, "think")
  /\ task' = "pending"
  /\ UNCHANGED <<up, crashes, rows, status, summaries, pending, used, kind, for, tracked, window,
                 trusted, snap, summarised, overlapped, cutoff>>

(* The answer is sent, and the row takes it. *)
Keep(t) ==
  /\ Goes(t, {"ready", "think"}, "kept")
  /\ status' = IF kind[t] = "beat" THEN status ELSE [status EXCEPT ![t] = "responded"]
  /\ UNCHANGED <<up, crashes, rows, summaries, task, pending, used, kind, for, tracked, window,
                 trusted, snap, summarised, overlapped, cutoff>>

IdOf(t) == IF t \in ToSet(rows) THEN CHOOSE n \in DOMAIN rows : rows[n] = t ELSE 0

(* window.add: a heartbeat's message has no row yet. *)
Remember(t) ==
  /\ Goes(t, {"kept"}, "store")
  /\ window' = Append(window, [turn |-> t, id |-> IdOf(t)])
  /\ UNCHANGED <<up, crashes, database, pending, used, kind, for, tracked, trusted, snap, summarised,
                 overlapped, cutoff>>

(* A heartbeat's message gets its row; the row of a turn whose last text   *)
(* failed, or whose event could not be settled, says so.                   *)
Stored(t) ==
  /\ Goes(t, {"store"}, "archive")
  /\ IF kind[t] = "beat"
     THEN rows' = Append(rows, t) /\ status' = [status EXCEPT ![t] = "responded"]
     ELSE /\ \E as \in {"responded", "other"} : status' = [status EXCEPT ![t] = as]
          /\ UNCHANGED rows
  /\ UNCHANGED <<up, crashes, summaries, task, pending, used, kind, for, tracked, window, trusted,
                 snap, summarised, overlapped, cutoff>>

(* No reply, an empty answer, an error. *)
GiveUp(t) ==
  /\ Goes(t, {"ready", "think"}, "archive")
  /\ status' = IF kind[t] = "beat" THEN status ELSE [status EXCEPT ![t] = "other"]
  /\ UNCHANGED <<up, crashes, rows, summaries, task, pending, used, kind, for, tracked, window,
                 trusted, snap, summarised, overlapped, cutoff>>

(* A turn is over.  A task that is done is as good as none, and a turn     *)
(* without an answer has nothing to lose.                                  *)
Leaves(t, without) ==
  /\ kind' = [kind EXCEPT ![t] = "none"]
  /\ tracked' = IF tracked = t THEN 0 ELSE tracked
  /\ overlapped' = overlapped \ without

(* _archive_if_needed: a long message gets a summary, which covers no row. *)
(* A scheduled task is done.                                               *)
Archive(t) ==
  /\ Goes(t, {"archive"}, "over")
  /\ summaries' \in {summaries, Trimmed(Append(summaries, 0))}
  /\ task' = IF kind[t] = "schedule" THEN "done" ELSE task
  /\ Leaves(t, IF status[t] = "responded" THEN {} ELSE {t})
  /\ UNCHANGED <<up, crashes, rows, status, pending, used, for, window, trusted, snap, summarised,
                 cutoff>>

(* The cleanup of a turn that was cancelled. *)
Undo(t) ==
  /\ Goes(t, {"undo"}, "over")
  /\ status' = IF status[t] = "none" THEN status ELSE [status EXCEPT ![t] = "other"]
  /\ snap' = [snap EXCEPT ![t] = NoSnap]
  /\ Leaves(t, {t})
  /\ UNCHANGED <<up, crashes, rows, summaries, task, pending, used, for, window, trusted, summarised,
                 cutoff>>

-----------------------------------------------------------------------------
(* The process. *)

Crash ==
  /\ up /\ crashes < MaxCrash
  /\ up' = FALSE /\ crashes' = crashes + 1
  /\ st' = [t \in Turn |-> IF st[t] = "none" THEN "none" ELSE "over"]
  /\ kind' = [t \in Turn |-> "none"]
  /\ for' = [t \in Turn |-> 0] /\ tracked' = 0 /\ pending' = FALSE
  /\ window' = <<>> /\ snap' = [t \in Turn |-> NoSnap]
  /\ UNCHANGED <<database, used, trusted, summarised, overlapped, cutoff>>

(* get_newest_compaction_summary. *)
Boundary == Largest(ToSet(summaries))

(* get_restorable_messages: the rows of answered turns behind the boundary.*)
Restorable == {n \in DOMAIN rows : n > Boundary /\ status[rows[n]] = "responded"}

(* The newest of them, up to the limit. *)
Restored == {n \in Restorable : Cardinality({m \in Restorable : m >= n}) <= MaxRestore}

(* Those rows as items of a window, oldest first: there is one such window.*)
InOrder(ids) ==
  {s \in [1..Cardinality(ids) -> {[turn |-> rows[n], id |-> n] : n \in ids}] :
     /\ \A i, j \in DOMAIN s : i < j => s[i].id < s[j].id
     /\ \A n \in ids : \E i \in DOMAIN s : s[i].id = n}

(* startup: what is restored makes the window, which lacks rows if there   *)
(* are more.                                                               *)
Startup ==
  /\ ~up
  /\ up' = TRUE
  /\ window' \in InOrder(Restored)
  /\ trusted' = (Restored = Restorable)
  /\ cutoff' = cutoff \cup {rows[n] : n \in Restorable \ Restored}
  /\ task' = IF task = "running" THEN "pending" ELSE task
  /\ UNCHANGED <<crashes, rows, status, summaries, scheduler, snap, summarised, overlapped>>

-----------------------------------------------------------------------------
Dispatch == Text \/ Expire \/ Image \/ Fire \/ Heartbeat \/ \E t \in Turn : Resume(t)

Step(t) ==
  \/ Start(t) \/ Save(t) \/ Compact(t) \/ Summarise(t) \/ SummaryFails(t) \/ Replace(t)
  \/ Schedule(t) \/ Keep(t) \/ Remember(t) \/ Stored(t) \/ GiveUp(t) \/ Archive(t) \/ Undo(t)

Next == Dispatch \/ (\E t \in Turn : Step(t)) \/ Crash \/ Startup

Spec == Init /\ [][Next]_vars
-----------------------------------------------------------------------------
(* What must hold. *)

(* A summary claims no row that was not summarised: what startup skips as  *)
(* covered is in a summary, over heartbeats, cancelled compactions, rows   *)
(* that were left out at an earlier start, and trimmed summaries; except   *)
(* rows of turns that overlapped (current-design.md: repeated restoration  *)
(* is preferable to claiming history that was never summarized).           *)
ClaimedIsSummarised ==
  \A n \in DOMAIN rows :
    n <= Boundary /\ status[rows[n]] = "responded" => rows[n] \in summarised \cup overlapped

(* While the process is up, an answered turn that is over is in the        *)
(* window, or in a summary, or was left out at a start: no compaction that *)
(* fails or is cancelled loses it.                                         *)
NothingForgotten ==
  up => \A t \in Turn : st[t] = "over" /\ status[t] = "responded" =>
          \/ \E item \in ToSet(window) : item.turn = t
          \/ t \in summarised \cup cutoff \cup overlapped

(* A newer input cancels the turn before it and waits for its cleanup      *)
(* (current-design.md): no two turns of users run at the same time.        *)
OneAtATime == \A t, u \in Active : kind[t] = "chat" /\ kind[u] = "chat" => t = u
=============================================================================
