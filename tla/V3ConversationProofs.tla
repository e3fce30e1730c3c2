------------------------ MODULE V3ConversationProofs ------------------------
(***************************************************************************)
(* Proofs about V3Conversation for any number of turns, any number of them *)
(* at the same time, any limits of restoration and of summaries and any    *)
(* number of crashes.  A summary stands for all rows up to the one it      *)
(* names, though a compaction only sees a window: the invariant says that  *)
(* a window holds every answered row that no summary tells of, and holds   *)
(* them in the order of the rows.  Turns that overlap may break both, so   *)
(* the invariant also says what else a turn that overlapped nobody knows.  *)
(***************************************************************************)
EXTENDS V3Conversation, FiniteSetTheorems, SequenceTheorems, WellFoundedInduction, TLAPS

Entry == [turn : Turn, id : Nat]
Place == {"none", "hush", "waits", "new", "save", "ready", "compact", "trim", "think",
          "kept", "store", "archive", "undo", "over"}
Early == {"none", "hush", "waits", "new", "save"}
Asking == {"ready", "compact", "trim", "think"}
Late == {"store", "archive", "undo", "over"}

Typed ==
  /\ up \in BOOLEAN /\ trusted \in BOOLEAN /\ pending \in BOOLEAN
  /\ rows \in Seq(Turn)
  /\ status \in [Turn -> {"none", "other", "responded"}]
  /\ summaries \in Seq(Nat)
  /\ used \in 0..MaxTurn
  /\ kind \in [Turn -> {"none", "chat", "schedule", "beat"}]
  /\ st \in [Turn -> Place]
  /\ for \in [Turn -> 0..MaxTurn] /\ tracked \in 0..MaxTurn
  /\ window \in Seq(Entry)
  /\ snap \in [Turn -> [items : Seq(Entry), cut : Nat]]
  /\ summarised \subseteq Turn /\ overlapped \subseteq Turn /\ cutoff \subseteq Turn

(* What the position of a turn says of its row.                            *)
Placed(t) ==
  /\ t > used => st[t] = "none"
  /\ ~ up => st[t] \in {"none", "over"}
  /\ tracked = t => st[t] \notin {"none", "hush", "waits"}
  /\ st[t] \in Early => status[t] = "none"
  /\ st[t] \in Asking => status[t] # "responded"
  /\ kind[t] = "beat" => st[t] \notin {"hush", "waits", "new", "save"}
  /\ kind[t] = "beat" /\ st[t] \in Asking \cup {"kept", "store"} => status[t] = "none"
  /\ kind[t] # "beat" /\ st[t] \in Asking => status[t] # "none"
  /\ kind[t] # "beat" /\ st[t] \in {"kept", "store"} => status[t] = "responded"

Places == \A t \in Turn : Placed(t)

(* A turn has a row if it has a status, and one row only.                  *)
Rows ==
  /\ \A t \in Turn : status[t] # "none" <=> \E n \in DOMAIN rows : rows[n] = t
  /\ \A m, n \in DOMAIN rows : rows[m] = rows[n] => m = n

(* Two turns that run at the same time are known to overlap; the row of a  *)
(* turn that runs alone is the last.                                       *)
Apart ==
  /\ \A t, u \in Turn : Running(t) /\ Running(u) /\ t # u => t \in overlapped
  /\ \A n \in DOMAIN rows :
       Running(rows[n]) /\ rows[n] \notin overlapped => n = Len(rows)

(* The items of a window are turns that have been answered, with the id of *)
(* the row they had then.                                                  *)
Items(s) ==
  \A k \in DOMAIN s :
    /\ st[s[k].turn] \in Late
    /\ s[k].id # 0 => s[k].id \in DOMAIN rows /\ rows[s[k].id] = s[k].turn

(* An answered turn that overlapped nobody stands in a window before all   *)
(* the items with a later row.                                             *)
Sorted(s) ==
  \A p, q \in DOMAIN s, n \in DOMAIN rows :
    /\ s[p].turn = rows[n] /\ s[q].id > n
    /\ status[rows[n]] = "responded" /\ rows[n] \notin overlapped
    => p < q

Known == summarised \cup overlapped \cup (IF trusted THEN {} ELSE cutoff)
Done(t) == status[t] = "responded" /\ st[t] \in {"store", "archive", "over"}

(* Behind the first few items, a window has all the answered turns that    *)
(* are not known from elsewhere.                                           *)
Holds(s, few) ==
  \A t \in Turn : Done(t) /\ t \notin Known => \E k \in DOMAIN s : k > few /\ s[k].turn = t

Memory ==
  /\ Items(window) /\ Sorted(window)
  /\ up => Holds(window, 0)
  /\ \A t \in Turn : st[t] = "store" /\ t \notin overlapped
                       => \E k \in DOMAIN window : window[k].turn = t
  /\ \A t \in Turn :
       /\ Items(snap[t].items) /\ Sorted(snap[t].items)
       /\ snap[t].cut \in 0..Len(snap[t].items)
       /\ st[t] = "compact" => Holds(snap[t].items, 0)
       /\ st[t] = "trim" => Holds(snap[t].items, snap[t].cut)

(* A summary reaches no further than the rows do, behind the row of a turn *)
(* that still asks, and over nothing it does not tell of.                  *)
Claims ==
  \A k \in DOMAIN summaries :
    /\ summaries[k] <= Len(rows)
    /\ \A n \in DOMAIN rows :
         /\ st[rows[n]] \in Asking /\ rows[n] \notin overlapped => summaries[k] < n
         /\ n <= summaries[k] /\ status[rows[n]] = "responded"
              => rows[n] \in summarised \cup overlapped

ConvInv == Typed /\ Places /\ Rows /\ Apart /\ Memory /\ Claims

-----------------------------------------------------------------------------
(* The greatest of some numbers that are bounded is one of them.           *)
LEMMA LargestIsOne ==
  ASSUME NEW N \in Nat, NEW S \in SUBSET (0..N), S # {}
  PROVE  Largest(S) \in S /\ \A m \in S : m <= Largest(S)
<1> DEFINE T == {N - m : m \in S}
<1>1. T \subseteq Nat /\ T # {}
  <2>1. \A m \in S : N - m \in Nat
    OBVIOUS
  <2>2. PICK m \in S : TRUE
    OBVIOUS
  <2>3. N - m \in T
    BY <2>2
  <2> QED
    BY <2>1, <2>3
<1>2. PICK x \in T : \A y \in T : ~ (<<y, x>> \in OpToRel(<, Nat))
  BY <1>1, NatLessThanWellFounded, WFMin
<1>3. \A y \in T : ~ (y < x)
  BY <1>1, <1>2 DEF OpToRel
<1>4. PICK n \in S : x = N - n
  OBVIOUS
<1>5. \A m \in S : m <= n
  <2> TAKE m \in S
  <2>1. N - m \in T
    OBVIOUS
  <2>2. ~ (N - m < N - n)
    BY <2>1, <1>3, <1>4
  <2> QED
    BY <2>2
<1> QED
  BY <1>5 DEF Largest

(* The summaries that trim_summaries keeps are some of those there were.   *)
LEMMA TrimmedKeeps ==
  ASSUME NEW s \in Seq(Nat)
  PROVE  /\ Trimmed(s) \in Seq(Nat)
         /\ \A k \in DOMAIN Trimmed(s) : \E j \in DOMAIN s : Trimmed(s)[k] = s[j]
<1>1. CASE Len(s) <= MaxSummaries
  BY <1>1 DEF Trimmed
<1>2. CASE ~ (Len(s) <= MaxSummaries)
  <2> DEFINE m == Len(s) - MinSummaries + 1
  <2>1. m \in Nat \ {0} /\ Len(s) \in Nat
    BY <1>2, ConversationAssumption, LenProperties
  <2>2. \A i \in m..Len(s) : i \in DOMAIN s /\ s[i] \in Nat
    BY <2>1, LenProperties, ElementOfSeq
  <2>3. /\ SubSeq(s, m, Len(s)) \in Seq(Nat)
        /\ Len(SubSeq(s, m, Len(s))) = IF m <= Len(s) THEN Len(s) - m + 1 ELSE 0
        /\ \A i \in 1..Len(s) - m + 1 : SubSeq(s, m, Len(s))[i] = s[m + i - 1]
    BY <2>1, <2>2, SubSeqProperties
  <2>4. Trimmed(s) = SubSeq(s, m, Len(s))
    BY <1>2 DEF Trimmed
  <2>5. ASSUME NEW k \in DOMAIN Trimmed(s)
        PROVE  \E j \in DOMAIN s : Trimmed(s)[k] = s[j]
    <3>1. k \in 1..Len(s) - m + 1
      BY <2>1, <2>3, <2>4, LenProperties
    <3>2. m + k - 1 \in m..Len(s)
      BY <2>1, <3>1
    <3> QED
      BY <2>2, <2>3, <2>4, <3>1, <3>2
  <2> QED
    BY <2>3, <2>4, <2>5
<1> QED
  BY <1>1, <1>2

(* What a compaction takes and what it leaves of the window it looked at.  *)
LEMMA ArchivedAndKept ==
  ASSUME NEW t \in Turn, snap[t].items \in Seq(Entry), snap[t].cut \in 0..Len(snap[t].items)
  PROVE  /\ Archived(t) \in Seq(Entry) /\ Kept(t) \in Seq(Entry)
         /\ Len(Archived(t)) = snap[t].cut
         /\ Len(Kept(t)) = Len(snap[t].items) - snap[t].cut
         /\ \A k \in 1..Len(Archived(t)) : Archived(t)[k] = snap[t].items[k]
         /\ \A k \in 1..Len(Kept(t)) : Kept(t)[k] = snap[t].items[k + snap[t].cut]
<1> DEFINE s == snap[t].items
           c == snap[t].cut
<1>1. Len(s) \in Nat /\ c \in 0..Len(s) /\ \A i \in 1..Len(s) : s[i] \in Entry
  BY LenProperties, ElementOfSeq
<1>2. /\ SubSeq(s, 1, c) \in Seq(Entry)
      /\ Len(SubSeq(s, 1, c)) = IF 1 <= c THEN c - 1 + 1 ELSE 0
      /\ \A i \in 1..c - 1 + 1 : SubSeq(s, 1, c)[i] = s[1 + i - 1]
  <2>1. 1 \in Int /\ c \in Int /\ \A i \in 1..c : s[i] \in Entry
    BY <1>1
  <2> HIDE DEF s, c
  <2> QED
    BY <2>1, SubSeqProperties
<1>3. /\ SubSeq(s, c + 1, Len(s)) \in Seq(Entry)
      /\ Len(SubSeq(s, c + 1, Len(s))) = IF c + 1 <= Len(s) THEN Len(s) - (c + 1) + 1 ELSE 0
      /\ \A i \in 1..Len(s) - (c + 1) + 1 : SubSeq(s, c + 1, Len(s))[i] = s[c + 1 + i - 1]
  <2>1. c + 1 \in Int /\ Len(s) \in Int /\ \A i \in c + 1..Len(s) : s[i] \in Entry
    BY <1>1
  <2> HIDE DEF s, c
  <2> QED
    BY <2>1, SubSeqProperties
<1> HIDE DEF s, c
<1>4. Archived(t) = SubSeq(s, 1, c) /\ Kept(t) = SubSeq(s, c + 1, Len(s))
  BY DEF Archived, Kept, s, c
<1>5. /\ Len(Archived(t)) = c
      /\ \A k \in 1..Len(Archived(t)) : Archived(t)[k] = s[k]
  BY <1>1, <1>2, <1>4
<1>6. /\ Len(Kept(t)) = Len(s) - c
      /\ \A k \in 1..Len(Kept(t)) : Kept(t)[k] = s[k + c]
  <2>1. Len(Kept(t)) = Len(s) - c
    BY <1>1, <1>3, <1>4
  <2>2. \A k \in 1..Len(Kept(t)) : k \in 1..Len(s) - (c + 1) + 1 /\ c + 1 + k - 1 = k + c
    BY <1>1, <2>1
  <2> QED
    BY <2>1, <2>2, <1>3, <1>4
<1> QED
  BY <1>2, <1>3, <1>4, <1>5, <1>6 DEF s, c

-----------------------------------------------------------------------------
(* The scheduler.                                                          *)

(* What a dispatcher does to the places of turns: it moves on itself, and  *)
(* it cancels.                                                             *)
Dispatched ==
  /\ kind' \in [Turn -> {"none", "chat", "schedule", "beat"}]
  /\ st' \in [Turn -> Place] /\ for' \in [Turn -> 0..MaxTurn] /\ tracked' \in 0..MaxTurn
  /\ \A t \in Turn :
       \/ st'[t] = st[t] /\ kind'[t] = kind[t]
       \/ /\ st[t] \in {"none", "hush", "waits"} /\ kind'[t] # "beat"
          /\ st'[t] \in {"hush", "waits", "new", "save"}
       \/ st[t] = "none" /\ st'[t] = "ready" /\ kind'[t] = "beat"
       \/ st[t] \in {"new", "archive"} /\ st'[t] = "over" /\ kind'[t] = kind[t]
       \/ Running(t) /\ st'[t] = "undo" /\ kind'[t] = kind[t]
  /\ overlapped \subseteq overlapped' /\ overlapped' \subseteq Turn
  /\ \A t, u \in Turn : Running(t)' /\ Running(u)' /\ t # u => t \in overlapped'
  /\ \A t \in Turn : tracked' = t => st'[t] \notin {"none", "hush", "waits"}

LEMMA BeginShape ==
  ASSUME Typed, Places, Apart, NEW t \in Turn, st[t] \in {"none", "hush", "waits"},
         kind' \in [Turn -> {"none", "chat", "schedule", "beat"}],
         \A u \in Turn \ {t} : kind'[u] = kind[u], kind'[t] # "beat",
         for' \in [Turn -> 0..MaxTurn], Begin(t)
  PROVE  Dispatched
<1> USE DEF Typed, Place
<1>1. CASE kind'[t] = "chat"
  <2>1. /\ st' = [st EXCEPT ![t] = "new"] /\ tracked' = t /\ overlapped' = overlapped
    BY <1>1 DEF Begin
  <2>2. t \in 0..MaxTurn
    BY DEF Turn
  <2>3. \A u, v \in Turn : Running(u)' /\ Running(v)' /\ u # v => u \in overlapped'
    BY <2>1 DEF Running, Apart
  <2> QED
    BY <2>1, <2>2, <2>3 DEF Dispatched
<1>2. CASE kind'[t] # "chat"
  <2>1. /\ st' = [st EXCEPT ![t] = "save"] /\ tracked' = tracked
        /\ overlapped' = IF Active = {} THEN overlapped ELSE overlapped \cup Active \cup {t}
    BY <1>2 DEF Begin, Enters
  <2>2. Active \subseteq Turn
    BY DEF Active
  <2>3. ASSUME NEW u \in Turn, NEW v \in Turn, Running(u)', Running(v)', u # v
        PROVE  u \in overlapped'
    <3>1. u = t \/ u \in Active
      BY <2>1, <2>3 DEF Running, Active
    <3>2. v = t \/ v \in Active
      BY <2>1, <2>3 DEF Running, Active
    <3>3. Active # {}
      BY <2>3, <3>1, <3>2
    <3> QED
      BY <2>1, <3>1, <3>3
  <2>4. \A u \in Turn : tracked' = u => st'[u] \notin {"none", "hush", "waits"}
    BY <2>1 DEF Places, Placed
  <2> QED
    BY <2>1, <2>2, <2>3, <2>4 DEF Dispatched
<1> QED
  BY <1>1, <1>2

LEMMA PopShape ==
  ASSUME Typed, Places, Apart, NEW t \in Turn, st[t] \in {"none", "hush", "waits"},
         kind' \in [Turn -> {"none", "chat", "schedule", "beat"}],
         \A u \in Turn \ {t} : kind'[u] = kind[u], kind'[t] # "beat",
         PopTask(t)
  PROVE  Dispatched
<1>1. CASE tracked = 0
  BY <1>1, BeginShape DEF PopTask, Typed
<1>2. CASE tracked # 0
  <2> USE DEF Typed, Place
  <2>1. tracked \in Turn /\ tracked # t
    BY <1>2 DEF Turn, Places, Placed
  <2>2. /\ st' = [st EXCEPT ![tracked] = Cancelled(tracked), ![t] = "waits"]
        /\ for' = [for EXCEPT ![t] = tracked]
        /\ tracked' = 0 /\ overlapped' = overlapped
    BY <1>2 DEF PopTask
  <2>3. st[tracked] \notin {"none", "hush", "waits"}
    BY <2>1 DEF Places, Placed
  <2>4. /\ st[tracked] \in {"new", "archive"} => Cancelled(tracked) = "over"
        /\ st[tracked] = "over" => Cancelled(tracked) = st[tracked]
        /\ st[tracked] \notin {"new", "archive", "over"} =>
             Running(tracked) /\ Cancelled(tracked) = "undo"
    BY <2>1, <2>3 DEF Cancelled, Running
  <2>5. Cancelled(tracked) \in Place /\ tracked \in 0..MaxTurn
    BY DEF Cancelled
  <2>6. \A u, v \in Turn : Running(u)' /\ Running(v)' /\ u # v => u \in overlapped'
    <3>1. \A u \in Turn : Running(u)' => Running(u)
      BY <2>1, <2>2, <2>4 DEF Running
    <3> QED
      BY <2>2, <3>1 DEF Apart
  <2>7. (\A u \in Turn : u # 0) /\ 0 \in 0..MaxTurn
    BY ConversationAssumption DEF Turn
  <2> QED
    BY <2>1, <2>2, <2>4, <2>5, <2>6, <2>7 DEF Dispatched
<1> QED
  BY <1>1, <1>2

LEMMA CancelShape ==
  ASSUME Typed, Places, Apart, NEW t \in Turn, st[t] = "none",
         kind' \in [Turn -> {"none", "chat", "schedule", "beat"}],
         \A u \in Turn \ {t} : kind'[u] = kind[u], kind'[t] # "beat",
         CancelUser(t)
  PROVE  Dispatched
<1>1. CASE Beats = {}
  BY <1>1, PopShape DEF CancelUser
<1>2. CASE Beats # {}
  <2> USE DEF Typed, Place
  <2>1. PICK b \in Beats :
          /\ st' = [st EXCEPT ![b] = Cancelled(b), ![t] = "hush"]
          /\ for' = [for EXCEPT ![t] = b]
          /\ UNCHANGED <<tracked, overlapped>>
    BY <1>2 DEF CancelUser
  <2>2. b \in Turn /\ Running(b) /\ b # t /\ b \in 0..MaxTurn
    BY DEF Beats, Running, Turn
  <2>3. /\ st[b] = "archive" => Cancelled(b) = "over"
        /\ st[b] # "archive" => Cancelled(b) = "undo"
        /\ Cancelled(b) \in {"over", "undo"}
    BY <2>2 DEF Cancelled, Running
  <2>4. \A u, v \in Turn : Running(u)' /\ Running(v)' /\ u # v => u \in overlapped'
    <3>1. \A u \in Turn : Running(u)' => Running(u)
      BY <2>1, <2>2, <2>3 DEF Running
    <3> QED
      BY <2>1, <3>1 DEF Apart
  <2>5. \A u \in Turn : tracked' = u => st'[u] \notin {"none", "hush", "waits"}
    BY <2>1, <2>2, <2>3 DEF Places, Placed
  <2> QED
    BY <2>1, <2>2, <2>3, <2>4, <2>5 DEF Dispatched
<1> QED
  BY <1>1, <1>2

-----------------------------------------------------------------------------
(* Windows.                                                                *)

(* A step that takes no turn out of the windows, gives no row another      *)
(* place and answers no turn that is in a window leaves windows in order.  *)
LEMMA WindowStays ==
  ASSUME Typed, NEW s \in Seq(Entry), Items(s), Sorted(s),
         Len(rows') \in Nat, Len(rows) <= Len(rows'),
         DOMAIN rows' = 1..Len(rows'), \A n \in DOMAIN rows : rows'[n] = rows[n],
         \A t \in Turn : st[t] \in Late => st'[t] \in Late,
         \A n \in DOMAIN rows :
           /\ st[rows[n]] \in Late
           /\ status'[rows[n]] = "responded" /\ rows[n] \notin overlapped'
           => status[rows[n]] = "responded" /\ rows[n] \notin overlapped
  PROVE  Items(s)' /\ Sorted(s)'
<1>1. /\ DOMAIN s = 1..Len(s) /\ Len(s) \in Nat
      /\ \A k \in DOMAIN s : s[k] \in Entry /\ s[k].turn \in Turn /\ s[k].id \in Nat
  <2>1. DOMAIN s = 1..Len(s) /\ Len(s) \in Nat
    BY LenProperties
  <2>2. \A k \in DOMAIN s : s[k] \in Entry
    BY <2>1, ElementOfSeq
  <2> QED
    BY <2>1, <2>2 DEF Entry
<1>2. DOMAIN rows = 1..Len(rows) /\ Len(rows) \in Nat
  BY LenProperties DEF Typed
<1>3. DOMAIN rows \subseteq DOMAIN rows'
  BY <1>2
<1>4. ASSUME NEW k \in DOMAIN s
      PROVE  /\ st'[s[k].turn] \in Late
             /\ s[k].id # 0 => s[k].id \in DOMAIN rows' /\ rows'[s[k].id] = s[k].turn
  BY <1>1, <1>3, <1>4 DEF Items
<1>5. ASSUME NEW p \in DOMAIN s, NEW q \in DOMAIN s, NEW n \in DOMAIN rows',
             s[p].turn = rows'[n], s[q].id > n,
             status'[rows'[n]] = "responded", rows'[n] \notin overlapped'
      PROVE  p < q
  <2>1. n \in Nat \ {0} /\ s[q].id \in Nat
    BY <1>1
  <2>2. s[q].id \in DOMAIN rows
    BY <1>5, <2>1 DEF Items
  <2>3. n \in DOMAIN rows
    BY <1>2, <1>5, <2>1, <2>2
  <2>4. rows'[n] = rows[n] /\ st[rows[n]] \in Late
    BY <1>5, <2>3 DEF Items
  <2> QED
    BY <1>5, <2>3, <2>4 DEF Sorted
<1> QED
  BY <1>4, <1>5 DEF Items, Sorted

(* A window that has all the answered turns not known from elsewhere still *)
(* has them when no other turn becomes one of these.                       *)
LEMMA HoldsStays ==
  ASSUME NEW s, NEW few, Holds(s, few),
         \A t \in Turn : Done(t)' /\ t \notin Known' => Done(t) /\ t \notin Known
  PROVE  Holds(s, few)'
BY DEF Holds

(* What a dispatcher does leaves all that is remembered as it is.          *)
LEMMA DispatchKeeps ==
  ASSUME ConvInv, Typed', Dispatched, up,
         used' \in {used, used + 1}, \A t \in Turn : t > used' => st'[t] = st[t],
         UNCHANGED <<up, rows, status, summaries, window, trusted, snap, summarised, cutoff>>
  PROVE  ConvInv'
<1> USE DEF ConvInv
<1>1. /\ DOMAIN rows = 1..Len(rows) /\ Len(rows) \in Nat
      /\ \A n \in DOMAIN rows : rows[n] \in Turn
      /\ \A t \in Turn : st[t] \in Place
  BY LenProperties, ElementOfSeq DEF Typed
<1>2. \A t \in Turn : status[t] = "none" => ~ \E n \in DOMAIN rows : rows[n] = t
  BY DEF Rows
<1>3. \A t \in Turn :
        /\ st[t] \in Late => st'[t] \in Late
        /\ st'[t] \in Asking => \/ st'[t] = st[t] /\ kind'[t] = kind[t]
                                \/ status[t] = "none" /\ kind'[t] = "beat"
        /\ st'[t] \in {"kept", "store"} => st'[t] = st[t] /\ kind'[t] = kind[t]
        /\ st'[t] \in Early => status[t] = "none"
        /\ Running(t)' => Running(t) \/ status[t] = "none"
        /\ kind'[t] = "beat" => st'[t] \notin {"hush", "waits", "new", "save"}
  BY <1>1 DEF Dispatched, Places, Placed, Late, Asking, Early, Running
<1>4. Places'
  <2> SUFFICES ASSUME NEW t \in Turn
               PROVE  /\ t > used' => st'[t] = "none"
                      /\ tracked' = t => st'[t] \notin {"none", "hush", "waits"}
                      /\ st'[t] \in Early => status[t] = "none"
                      /\ st'[t] \in Asking => status[t] # "responded"
                      /\ kind'[t] = "beat" => st'[t] \notin {"hush", "waits", "new", "save"}
                      /\ kind'[t] = "beat" /\ st'[t] \in Asking \cup {"kept", "store"}
                           => status[t] = "none"
                      /\ kind'[t] # "beat" /\ st'[t] \in Asking => status[t] # "none"
                      /\ kind'[t] # "beat" /\ st'[t] \in {"kept", "store"}
                           => status[t] = "responded"
    BY DEF Places, Placed
  <2>1. t > used' => st'[t] = "none"
    <3>1. t > used' => t > used
      BY DEF Typed, Turn
    <3> QED
      BY <3>1 DEF Places, Placed
  <2>2. tracked' = t => st'[t] \notin {"none", "hush", "waits"}
    BY DEF Dispatched
  <2> QED
    BY <1>3, <2>1, <2>2 DEF Places, Placed
<1>5. Rows'
  BY DEF Rows
<1>6. Apart'
  <2>1. \A t, u \in Turn : Running(t)' /\ Running(u)' /\ t # u => t \in overlapped'
    BY DEF Dispatched
  <2>2. ASSUME NEW n \in DOMAIN rows, Running(rows[n])', rows[n] \notin overlapped'
        PROVE  n = Len(rows)
    <3>1. Running(rows[n]) /\ rows[n] \notin overlapped
      BY <1>1, <1>2, <1>3, <2>2 DEF Dispatched
    <3> QED
      BY <3>1 DEF Apart
  <2> QED
    BY <2>1, <2>2 DEF Apart
<1>7. \A t \in Turn : Done(t)' /\ t \notin Known' => Done(t) /\ t \notin Known
  <2> TAKE t \in Turn
  <2>1. Done(t)' => Done(t)
    BY <1>1 DEF Done, Dispatched, Places, Placed, Asking, Early
  <2>2. Known \subseteq Known'
    BY DEF Known, Dispatched
  <2> QED
    BY <2>1, <2>2
<1>8. \A s \in Seq(Entry) : Items(s) /\ Sorted(s) => Items(s)' /\ Sorted(s)'
  <2> TAKE s \in Seq(Entry)
  <2>1. overlapped \subseteq overlapped'
    BY DEF Dispatched
  <2> QED
    BY <1>1, <1>3, <2>1, WindowStays
<1>9. Memory'
  <2>1. window \in Seq(Entry) /\ \A t \in Turn : snap[t].items \in Seq(Entry)
    BY DEF Typed
  <2>2. Items(window)' /\ Sorted(window)'
    BY <1>8, <2>1 DEF Memory, Items, Sorted
  <2>3. (up => Holds(window, 0))'
    BY <1>7, HoldsStays DEF Memory, Holds
  <2>4. (\A t \in Turn : st[t] = "store" /\ t \notin overlapped
                           => \E k \in DOMAIN window : window[k].turn = t)'
    BY <1>3 DEF Memory, Dispatched
  <2>5. ASSUME NEW t \in Turn
        PROVE  (/\ Items(snap[t].items) /\ Sorted(snap[t].items)
                /\ snap[t].cut \in 0..Len(snap[t].items)
                /\ st[t] = "compact" => Holds(snap[t].items, 0)
                /\ st[t] = "trim" => Holds(snap[t].items, snap[t].cut))'
    <3>1. Items(snap[t].items)' /\ Sorted(snap[t].items)'
      BY <1>8, <2>1 DEF Memory, Items, Sorted
    <3>2. st'[t] \in {"compact", "trim"} => st'[t] = st[t]
      BY <1>1 DEF Dispatched
    <3>3. (st[t] = "compact" => Holds(snap[t].items, 0))'
      BY <1>7, <3>2 DEF Memory, Holds
    <3>4. (st[t] = "trim" => Holds(snap[t].items, snap[t].cut))'
      BY <1>7, <3>2 DEF Memory, Holds
    <3> QED
      BY <3>1, <3>3, <3>4 DEF Memory
  <2> QED
    BY <2>2, <2>3, <2>4, <2>5 DEF Memory
<1>10. Claims'
  <2>1. \A n \in DOMAIN rows :
          st'[rows[n]] \in Asking /\ rows[n] \notin overlapped'
            => st[rows[n]] \in Asking /\ rows[n] \notin overlapped
    BY <1>1, <1>2, <1>3 DEF Dispatched
  <2>2. summarised \cup overlapped \subseteq summarised' \cup overlapped'
    BY DEF Dispatched
  <2> QED
    BY <2>1, <2>2 DEF Claims
<1> QED
  BY <1>4, <1>5, <1>6, <1>9, <1>10

(* Somebody comes: the turn is a new one.                                  *)
LEMMA ComesNew ==
  ASSUME Typed, Places, NEW what \in {"chat", "schedule", "beat"}, Comes(what)
  PROVE  /\ used' \in Turn /\ used' = used + 1 /\ st[used'] = "none" /\ up
         /\ kind' = [kind EXCEPT ![used'] = what]
         /\ kind' \in [Turn -> {"none", "chat", "schedule", "beat"}]
         /\ used' \in 0..MaxTurn
<1>1. used' \in Turn /\ used' = used + 1 /\ used' > used
  BY ConversationAssumption DEF Typed, Comes, Turn
<1>2. kind' = [kind EXCEPT ![used'] = what]
  BY DEF Comes
<1>3. kind' \in [Turn -> {"none", "chat", "schedule", "beat"}]
  BY <1>1, <1>2 DEF Typed
<1> QED
  BY <1>1, <1>2, <1>3, ConversationAssumption DEF Comes, Places, Placed, Turn

LEMMA DispatchStep ==
  ASSUME ConvInv, Dispatch
  PROVE  ConvInv'
<1> USE DEF ConvInv
<1>1. ASSUME NEW what \in {"chat", "schedule"}, Comes(what), CancelUser(used'),
             pending' \in BOOLEAN,
             UNCHANGED <<up, rows, status, summaries, window, trusted, snap, summarised, cutoff>>
      PROVE  ConvInv'
  <2>1. /\ used' \in Turn /\ used' = used + 1 /\ st[used'] = "none" /\ up
        /\ \A u \in Turn \ {used'} : kind'[u] = kind[u]
        /\ kind'[used'] # "beat"
        /\ kind' \in [Turn -> {"none", "chat", "schedule", "beat"}]
        /\ used' \in 0..MaxTurn
    BY <1>1, ComesNew DEF Typed
  <2>2. Dispatched
    BY <1>1, <2>1, CancelShape
  <2>3. Typed'
    BY <1>1, <2>1, <2>2 DEF Typed, Dispatched
  <2>4. \A t \in Turn : t > used' => st'[t] = st[t]
    <3>1. \A t \in Turn : t > used' => t # used' /\ st[t] = "none" /\ ~ Running(t) /\ t # tracked
      BY <2>1 DEF Places, Placed, Running, Typed, Turn
    <3>2. \A t \in Turn : t # used' /\ ~ Running(t) /\ t # tracked => st'[t] = st[t]
      <4>1. CASE Beats = {}
        BY <1>1, <2>1, <4>1, ConversationAssumption
           DEF CancelUser, PopTask, Begin, Typed, Turn
      <4>2. CASE Beats # {}
        BY <1>1, <2>1, <4>2 DEF CancelUser, Beats, Typed
      <4> QED
        BY <4>1, <4>2
    <3> QED
      BY <3>1, <3>2
  <2> QED
    BY <1>1, <2>1, <2>2, <2>3, <2>4, DispatchKeeps
<1>2. CASE Text
  <2>1. Dispatched
    BY <1>2 DEF Text, Dispatched, Typed, Apart, Places, Placed, database, Running
  <2>2. Typed'
    BY <1>2 DEF Text, Typed, database
  <2> QED
    BY <1>2, <2>1, <2>2, DispatchKeeps DEF Text, database
<1>3. CASE Expire \/ Image
  BY <1>1, <1>3 DEF Expire, Image, database
<1>4. CASE Fire
  BY <1>1, <1>4 DEF Fire
<1>5. CASE Heartbeat
  <2>1. /\ used' \in Turn /\ used' = used + 1 /\ st[used'] = "none" /\ up
        /\ kind' = [kind EXCEPT ![used'] = "beat"]
        /\ kind' \in [Turn -> {"none", "chat", "schedule", "beat"}]
        /\ used' \in 0..MaxTurn
    BY <1>5, ComesNew DEF Heartbeat
  <2>2. /\ st' = [st EXCEPT ![used'] = "ready"] /\ tracked' = tracked /\ for' = for
        /\ overlapped' = IF Active = {} THEN overlapped ELSE overlapped \cup Active \cup {used'}
    BY <1>5 DEF Heartbeat, Enters
  <2>3. Dispatched
    <3>1. Active \subseteq Turn
      BY DEF Active
    <3>2. \A u, v \in Turn : Running(u)' /\ Running(v)' /\ u # v => u \in overlapped'
      BY <2>1, <2>2 DEF Running, Active, Typed
    <3>3. \A u \in Turn : tracked' = u => st'[u] \notin {"none", "hush", "waits"}
      BY <2>1, <2>2 DEF Places, Placed, Typed
    <3> QED
      BY <2>1, <2>2, <3>1, <3>2, <3>3 DEF Dispatched, Typed, Place
  <2>4. Typed'
    BY <1>5, <2>1, <2>3 DEF Typed, Heartbeat, Dispatched, database
  <2>5. \A t \in Turn : t > used' => st'[t] = st[t]
    BY <2>1, <2>2 DEF Typed, Turn
  <2> QED
    BY <1>5, <2>1, <2>3, <2>4, <2>5, DispatchKeeps DEF Heartbeat, database
<1>6. ASSUME NEW t \in Turn, Resume(t)
      PROVE  ConvInv'
  <2>1. /\ st[t] \in {"hush", "waits"} /\ kind' = kind /\ used' = used /\ up
        /\ kind[t] # "beat"
        /\ t <= used
    BY <1>6 DEF Resume, Places, Placed, Typed, Turn
  <2>2. CASE st[t] = "hush"
    <3>1. PopTask(t)
      BY <1>6, <2>2 DEF Resume
    <3>2. Dispatched
      BY <2>1, <3>1, PopShape DEF Typed
    <3>3. Typed'
      BY <1>6, <2>1, <3>2 DEF Typed, Dispatched, Resume, database
    <3>4. \A u \in Turn : u > used' => st'[u] = st[u]
      <4>1. \A u \in Turn : u > used => u # t /\ u # tracked
        BY <2>1 DEF Typed, Turn, Places, Placed
      <4>2. \A u \in Turn : u # t /\ u # tracked => st'[u] = st[u]
        BY <3>1, ConversationAssumption DEF PopTask, Begin, Typed, Turn
      <4> QED
        BY <2>1, <4>1, <4>2
    <3> QED
      BY <1>6, <2>1, <3>2, <3>3, <3>4, DispatchKeeps DEF Resume, database
  <2>3. CASE st[t] # "hush"
    <3>1. Begin(t) /\ for' = [for EXCEPT ![t] = 0]
      BY <1>6, <2>3 DEF Resume
    <3>2. for' \in [Turn -> 0..MaxTurn]
      BY <3>1, ConversationAssumption DEF Typed
    <3>3. Dispatched
      BY <2>1, <3>1, <3>2, BeginShape DEF Typed
    <3>4. Typed'
      BY <1>6, <2>1, <3>3 DEF Typed, Dispatched, Resume, database
    <3>5. \A u \in Turn : u > used' => st'[u] = st[u]
      <4>1. \A u \in Turn : u > used' => u # t
        BY <2>1 DEF Typed, Turn
      <4>2. \A u \in Turn : u # t => st'[u] = st[u]
        BY <3>1 DEF Begin, Typed
      <4> QED
        BY <4>1, <4>2
    <3> QED
      BY <1>6, <2>1, <3>3, <3>4, <3>5, DispatchKeeps DEF Resume, database
  <2> QED
    BY <2>2, <2>3
<1> QED
  BY <1>2, <1>3, <1>4, <1>5, <1>6 DEF Dispatch

-----------------------------------------------------------------------------
(* The steps of a turn.                                                    *)

(* What a turn may do without touching the rows and the window: end a      *)
(* compaction, answer, give up, be over.                                   *)
LEMMA TurnKeeps ==
  ASSUME ConvInv, Typed', NEW t \in Turn, Placed(t)',
         \A u \in Turn \ {t} : /\ st'[u] = st[u] /\ status'[u] = status[u]
                               /\ kind'[u] = kind[u] /\ snap'[u] = snap[u],
         snap'[t] \in {snap[t], NoSnap}, tracked' \in {tracked, 0},
         status'[t] = "none" <=> status[t] = "none",
         status'[t] = "responded" /\ status[t] # "responded" => st[t] \in Asking,
         st[t] \in Late => st'[t] \in Late,
         st'[t] \in Asking => st[t] \in Asking /\ st'[t] \notin {"compact", "trim"},
         st'[t] = "store" => st[t] = "store",
         Running(t)' => Running(t) \/ status[t] = "none",
         Done(t)' => Done(t),
         overlapped \ {t} \subseteq overlapped',
         t \in overlapped \ overlapped' => st'[t] = "over" /\ status'[t] # "responded",
         \A u, v \in Turn : Running(u)' /\ Running(v)' /\ u # v => u \in overlapped',
         \A k \in DOMAIN summaries' :
           summaries'[k] = 0 \/ \E j \in DOMAIN summaries : summaries'[k] = summaries[j],
         UNCHANGED <<up, used, rows, window, trusted, summarised, cutoff>>
  PROVE  ConvInv'
<1> USE DEF ConvInv
<1>1. /\ DOMAIN rows = 1..Len(rows) /\ Len(rows) \in Nat
      /\ \A n \in DOMAIN rows : rows[n] \in Turn
      /\ window \in Seq(Entry) /\ \A u \in Turn : snap[u].items \in Seq(Entry)
  BY LenProperties, ElementOfSeq DEF Typed
<1>2. Places'
  <2> SUFFICES ASSUME NEW u \in Turn, u # t
               PROVE  Placed(u)'
    BY DEF Places
  <2>1. tracked' = u => tracked = u
    BY DEF Turn
  <2> QED
    BY <2>1 DEF Places, Placed
<1>3. Rows'
  BY DEF Rows
<1>4. Apart'
  <2>1. ASSUME NEW n \in DOMAIN rows, Running(rows[n])', rows[n] \notin overlapped'
        PROVE  n = Len(rows)
    <3>1. CASE rows[n] = t
      <4>1. status[t] # "none"
        BY <3>1 DEF Rows
      <4>2. Running(t) /\ t \notin overlapped
        BY <2>1, <3>1, <4>1 DEF Running
      <4> QED
        BY <3>1, <4>2 DEF Apart
    <3>2. CASE rows[n] # t
      <4>1. Running(rows[n]) /\ rows[n] \notin overlapped
        BY <1>1, <2>1, <3>2 DEF Running
      <4> QED
        BY <4>1 DEF Apart
    <3> QED
      BY <3>1, <3>2
  <2> QED
    BY <2>1 DEF Apart
<1>5. \A u \in Turn : Done(u)' /\ u \notin Known' => Done(u) /\ u \notin Known
  <2> SUFFICES ASSUME NEW u \in Turn, Done(u)', u \notin Known'
               PROVE  Done(u) /\ u \notin Known
    OBVIOUS
  <2>1. Done(u)
    BY DEF Done
  <2>2. u \in overlapped => u \in overlapped'
    BY DEF Done
  <2> QED
    BY <2>1, <2>2 DEF Known
<1>6. \A s \in Seq(Entry) : Items(s) /\ Sorted(s) => Items(s)' /\ Sorted(s)'
  <2> TAKE s \in Seq(Entry)
  <2>1. \A n \in DOMAIN rows :
          /\ st[rows[n]] \in Late
          /\ status'[rows[n]] = "responded" /\ rows[n] \notin overlapped'
          => status[rows[n]] = "responded" /\ rows[n] \notin overlapped
    BY <1>1 DEF Late, Asking
  <2>2. \A u \in Turn : st[u] \in Late => st'[u] \in Late
    OBVIOUS
  <2> QED
    BY <1>1, <2>1, <2>2, WindowStays
<1>7. Memory'
  <2>1. Items(window)' /\ Sorted(window)'
    BY <1>1, <1>6 DEF Memory, Items, Sorted
  <2>2. (up => Holds(window, 0))'
    BY <1>5 DEF Memory, Holds
  <2>3. (\A u \in Turn : st[u] = "store" /\ u \notin overlapped
                           => \E k \in DOMAIN window : window[k].turn = u)'
    BY DEF Memory
  <2>4. ASSUME NEW u \in Turn
        PROVE  (/\ Items(snap[u].items) /\ Sorted(snap[u].items)
                /\ snap[u].cut \in 0..Len(snap[u].items)
                /\ st[u] = "compact" => Holds(snap[u].items, 0)
                /\ st[u] = "trim" => Holds(snap[u].items, snap[u].cut))'
    <3>1. CASE snap'[u] = snap[u]
      <4>1. Items(snap[u].items)' /\ Sorted(snap[u].items)'
        <5>1. PICK s \in Seq(Entry) : s = snap[u].items /\ s = snap'[u].items
          BY <1>1, <3>1
        <5>2. Items(s) /\ Sorted(s)
          BY <5>1 DEF Memory
        <5>3. Items(s)' /\ Sorted(s)'
          BY <1>6, <5>2
        <5> QED
          BY <5>1, <5>3 DEF Items, Sorted
      <4>2. st'[u] \in {"compact", "trim"} => st'[u] = st[u]
        BY DEF Asking
      <4>3. (st[u] = "compact" => Holds(snap[u].items, 0))'
        BY <1>5, <3>1, <4>2 DEF Memory, Holds
      <4>4. (st[u] = "trim" => Holds(snap[u].items, snap[u].cut))'
        BY <1>5, <3>1, <4>2 DEF Memory, Holds
      <4> QED
        BY <3>1, <4>1, <4>3, <4>4 DEF Memory
    <3>2. CASE u = t /\ snap'[u] = NoSnap
      <4>1. snap'[u].items = <<>> /\ snap'[u].cut = 0
        BY <3>2 DEF NoSnap
      <4>2. st'[u] \notin {"compact", "trim"}
        BY <3>2 DEF Asking
      <4> QED
        BY <4>1, <4>2 DEF Items, Sorted
    <3> QED
      BY <3>1, <3>2
  <2> QED
    BY <2>1, <2>2, <2>3, <2>4 DEF Memory
<1>8. Claims'
  <2> SUFFICES ASSUME NEW k \in DOMAIN summaries'
               PROVE  /\ summaries'[k] <= Len(rows)
                      /\ \A n \in DOMAIN rows :
                           /\ st'[rows[n]] \in Asking /\ rows[n] \notin overlapped'
                                => summaries'[k] < n
                           /\ n <= summaries'[k] /\ status'[rows[n]] = "responded"
                                => rows[n] \in summarised \cup overlapped'
    BY DEF Claims
  <2>1. CASE summaries'[k] = 0
    BY <1>1, <2>1
  <2>2. ASSUME NEW j \in DOMAIN summaries, summaries'[k] = summaries[j]
        PROVE  /\ summaries'[k] <= Len(rows)
               /\ \A n \in DOMAIN rows :
                    /\ st'[rows[n]] \in Asking /\ rows[n] \notin overlapped'
                         => summaries'[k] < n
                    /\ n <= summaries'[k] /\ status'[rows[n]] = "responded"
                         => rows[n] \in summarised \cup overlapped'
    <3>0. summaries[j] \in Nat
      <4>1. summaries \in Seq(Nat)
        BY DEF Typed
      <4> QED
        BY <4>1, LenProperties, ElementOfSeq
    <3>1. summaries'[k] <= Len(rows)
      BY <2>2 DEF Claims
    <3>2. ASSUME NEW n \in DOMAIN rows, st'[rows[n]] \in Asking, rows[n] \notin overlapped'
          PROVE  summaries'[k] < n
      <4>1. st[rows[n]] \in Asking /\ rows[n] \notin overlapped
        BY <1>1, <3>2 DEF Asking
      <4> QED
        BY <2>2, <4>1 DEF Claims
    <3>3. ASSUME NEW n \in DOMAIN rows, n <= summaries'[k], status'[rows[n]] = "responded"
          PROVE  rows[n] \in summarised \cup overlapped'
      <4>1. rows[n] \in overlapped => rows[n] \in overlapped'
        BY <1>1, <3>3
      <4>2. CASE status[rows[n]] = "responded"
        BY <2>2, <3>3, <4>1, <4>2 DEF Claims
      <4>3. CASE status[rows[n]] # "responded"
        <5>1. st[rows[n]] \in Asking
          BY <1>1, <3>3, <4>3
        <5>2. rows[n] \notin overlapped => summaries[j] < n
          BY <5>1 DEF Claims
        <5>3. ~ (summaries[j] < n)
          BY <1>1, <2>2, <3>0, <3>3
        <5> QED
          BY <4>1, <5>2, <5>3
      <4> QED
        BY <4>2, <4>3
    <3> QED
      BY <3>1, <3>2, <3>3
  <2> QED
    BY <2>1, <2>2
<1> QED
  BY <1>2, <1>3, <1>4, <1>7, <1>8

(* Most steps of a turn are of that kind.                                  *)
LEMMA PlainStep ==
  ASSUME ConvInv, NEW t \in Turn,
         \/ Start(t) \/ SummaryFails(t) \/ Schedule(t) \/ Keep(t) \/ GiveUp(t) \/ Archive(t)
         \/ Undo(t)
         \/ Stored(t) /\ kind[t] # "beat"
  PROVE  ConvInv'
<1> USE DEF ConvInv, database, scheduler, Goes
<1>1. /\ Placed(t) /\ st[t] \in Place /\ \A u \in Turn \ {t} : u # t
      /\ DOMAIN st = Turn /\ DOMAIN status = Turn /\ DOMAIN kind = Turn /\ DOMAIN snap = Turn
  BY DEF Places, Typed
<1>2. NoSnap \in [items : Seq(Entry), cut : Nat]
  <2>1. <<>> \in Seq(Entry)
    BY EmptySeq
  <2> QED
    BY <2>1 DEF NoSnap
<1>3. \A u, v \in Turn : Running(u) /\ Running(v) /\ u # v => u \in overlapped
  BY DEF Apart
<1>4. CASE Start(t)
  <2>1. /\ st[t] = "new" /\ st' = [st EXCEPT ![t] = "save"]
        /\ overlapped' = IF Active = {} THEN overlapped ELSE overlapped \cup Active \cup {t}
    BY <1>4 DEF Start, Enters
  <2>2. \A u, v \in Turn : Running(u)' /\ Running(v)' /\ u # v => u \in overlapped'
    BY <2>1 DEF Running, Active, Typed
  <2>3. Typed'
    BY <1>4, <2>1 DEF Typed, Start, Place, Active
  <2>4. Placed(t)'
    BY <1>1, <1>4, <2>1 DEF Placed, Start, Early, Asking
  <2>5. overlapped \subseteq overlapped' /\ status[t] = "none"
    BY <1>1, <2>1 DEF Placed, Early
  <2>6. /\ UNCHANGED <<status, kind, snap, tracked, summaries, up, used, rows, window, trusted,
                       summarised, cutoff>>
        /\ st'[t] = "save" /\ \A u \in Turn \ {t} : st'[u] = st[u]
    BY <1>1, <1>4, <2>1 DEF Start
  <2>7. /\ st[t] \in Late => st'[t] \in Late
        /\ ~ (st'[t] \in Asking) /\ ~ Done(t)'
    BY <2>1, <2>6 DEF Late, Asking, Done
  <2> QED
    BY <2>2, <2>3, <2>4, <2>5, <2>6, <2>7, TurnKeeps
<1>5. CASE SummaryFails(t)
  <2>1. st[t] = "compact" /\ st' = [st EXCEPT ![t] = "think"] /\ snap' = [snap EXCEPT ![t] = NoSnap]
    BY <1>5 DEF SummaryFails
  <2>2. Typed'
    BY <1>2, <1>5, <2>1 DEF Typed, SummaryFails, Place
  <2>3. Placed(t)'
    BY <1>1, <1>5, <2>1 DEF Placed, SummaryFails, Early, Asking
  <2>4. \A u, v \in Turn : Running(u)' /\ Running(v)' /\ u # v => u \in overlapped'
    BY <1>1, <1>3, <1>5, <2>1 DEF SummaryFails, Running
  <2> QED
    BY <1>1, <1>5, <2>1, <2>2, <2>3, <2>4, TurnKeeps
       DEF SummaryFails, Running, Done, Asking, Late
<1>6. CASE Schedule(t)
  <2>1. st[t] \in {"ready", "think"} /\ st' = [st EXCEPT ![t] = "think"]
    BY <1>6 DEF Schedule
  <2>2. Typed'
    BY <1>6, <2>1 DEF Typed, Schedule, Place
  <2>3. Placed(t)'
    BY <1>1, <1>6, <2>1 DEF Placed, Schedule, Early, Asking
  <2>4. \A u, v \in Turn : Running(u)' /\ Running(v)' /\ u # v => u \in overlapped'
    BY <1>1, <1>3, <1>6, <2>1 DEF Schedule, Running
  <2> QED
    BY <1>1, <1>6, <2>1, <2>2, <2>3, <2>4, TurnKeeps
       DEF Schedule, Running, Done, Asking, Late
<1>7. CASE Keep(t)
  <2>1. /\ st[t] \in {"ready", "think"} /\ st' = [st EXCEPT ![t] = "kept"]
        /\ status' = IF kind[t] = "beat" THEN status ELSE [status EXCEPT ![t] = "responded"]
    BY <1>7 DEF Keep
  <2>2. Typed'
    BY <1>7, <2>1 DEF Typed, Keep, Place
  <2>3. Placed(t)'
    BY <1>1, <1>7, <2>1 DEF Placed, Keep, Early, Asking
  <2>4. \A u, v \in Turn : Running(u)' /\ Running(v)' /\ u # v => u \in overlapped'
    BY <1>1, <1>3, <1>7, <2>1 DEF Keep, Running
  <2>5. status'[t] = "none" <=> status[t] = "none"
    BY <1>1, <2>1 DEF Placed, Asking
  <2> QED
    BY <1>1, <1>7, <2>1, <2>2, <2>3, <2>4, <2>5, TurnKeeps
       DEF Keep, Running, Done, Asking, Late
<1>8. CASE Stored(t) /\ kind[t] # "beat"
  <2>1. PICK as \in {"responded", "other"} :
          /\ st[t] = "store" /\ st' = [st EXCEPT ![t] = "archive"]
          /\ status' = [status EXCEPT ![t] = as] /\ rows' = rows
    BY <1>8 DEF Stored
  <2>2. Typed'
    BY <1>8, <2>1 DEF Typed, Stored, Place
  <2>3. status[t] = "responded"
    BY <1>1, <1>8, <2>1 DEF Placed
  <2>4. Placed(t)'
    BY <1>1, <1>8, <2>1 DEF Placed, Stored, Early, Asking
  <2>5. \A u, v \in Turn : Running(u)' /\ Running(v)' /\ u # v => u \in overlapped'
    BY <1>1, <1>3, <1>8, <2>1 DEF Stored, Running
  <2> QED
    BY <1>1, <1>8, <2>1, <2>2, <2>3, <2>4, <2>5, TurnKeeps
       DEF Stored, Running, Done, Asking, Late
<1>9. CASE GiveUp(t)
  <2>1. /\ st[t] \in {"ready", "think"} /\ st' = [st EXCEPT ![t] = "archive"]
        /\ status' = IF kind[t] = "beat" THEN status ELSE [status EXCEPT ![t] = "other"]
    BY <1>9 DEF GiveUp
  <2>2. Typed'
    BY <1>9, <2>1 DEF Typed, GiveUp, Place
  <2>3. Placed(t)'
    BY <1>1, <1>9, <2>1 DEF Placed, GiveUp, Early, Asking
  <2>4. \A u, v \in Turn : Running(u)' /\ Running(v)' /\ u # v => u \in overlapped'
    BY <1>1, <1>3, <1>9, <2>1 DEF GiveUp, Running
  <2>5. /\ status'[t] = "none" <=> status[t] = "none"
        /\ status'[t] # "responded"
    BY <1>1, <2>1 DEF Placed, Asking
  <2> QED
    BY <1>1, <1>9, <2>1, <2>2, <2>3, <2>4, <2>5, TurnKeeps
       DEF GiveUp, Running, Done, Asking, Late
<1>10. CASE Archive(t)
  <2>1. /\ st[t] = "archive" /\ st' = [st EXCEPT ![t] = "over"]
        /\ kind' = [kind EXCEPT ![t] = "none"] /\ tracked' \in {tracked, 0}
        /\ overlapped' = overlapped \ (IF status[t] = "responded" THEN {} ELSE {t})
        /\ summaries' \in {summaries, Trimmed(Append(summaries, 0))}
    BY <1>10 DEF Archive, Leaves
  <2>2. /\ summaries' \in Seq(Nat)
        /\ \A k \in DOMAIN summaries' :
             summaries'[k] = 0 \/ \E j \in DOMAIN summaries : summaries'[k] = summaries[j]
    <3>0. summaries \in Seq(Nat)
      BY DEF Typed
    <3>1. CASE summaries' = summaries
      BY <3>0, <3>1
    <3>2. CASE summaries' = Trimmed(Append(summaries, 0))
      <4> DEFINE a == Append(summaries, 0)
      <4>1. /\ a \in Seq(Nat) /\ DOMAIN a = 1..Len(summaries) + 1
            /\ \A i \in 1..Len(summaries) : a[i] = summaries[i]
            /\ a[Len(summaries) + 1] = 0 /\ Len(summaries) \in Nat
            /\ DOMAIN summaries = 1..Len(summaries)
        BY <3>0, AppendProperties, LenProperties
      <4>2. /\ summaries' \in Seq(Nat)
            /\ \A k \in DOMAIN summaries' : \E j \in DOMAIN a : summaries'[k] = a[j]
        BY <3>2, <4>1, TrimmedKeeps
      <4> HIDE DEF a
      <4>3. \A j \in DOMAIN a : a[j] = 0 \/ \E i \in DOMAIN summaries : a[j] = summaries[i]
        BY <4>1
      <4> QED
        BY <4>2, <4>3
    <3> QED
      BY <2>1, <3>1, <3>2
  <2>3. Typed'
    <3>1. tracked' \in 0..MaxTurn
      BY <2>1, ConversationAssumption DEF Typed
    <3> QED
      BY <1>10, <2>1, <2>2, <3>1 DEF Typed, Archive, Place
  <2>4. Placed(t)'
    BY <1>1, <1>10, <2>1 DEF Placed, Archive, Early, Asking
  <2>5. \A u, v \in Turn : Running(u)' /\ Running(v)' /\ u # v => u \in overlapped'
    <3>1. \A u \in Turn : Running(u)' => Running(u) /\ u # t
      BY <1>1, <2>1 DEF Running
    <3> QED
      BY <1>3, <2>1, <3>1
  <2> QED
    BY <1>1, <1>10, <2>1, <2>2, <2>3, <2>4, <2>5, TurnKeeps
       DEF Archive, Running, Done, Asking, Late
<1>11. CASE Undo(t)
  <2>1. /\ st[t] = "undo" /\ st' = [st EXCEPT ![t] = "over"]
        /\ kind' = [kind EXCEPT ![t] = "none"] /\ tracked' \in {tracked, 0}
        /\ overlapped' = overlapped \ {t} /\ snap' = [snap EXCEPT ![t] = NoSnap]
        /\ status' = IF status[t] = "none" THEN status ELSE [status EXCEPT ![t] = "other"]
    BY <1>11 DEF Undo, Leaves
  <2>2. Typed'
    <3>1. tracked' \in 0..MaxTurn
      BY <2>1, ConversationAssumption DEF Typed
    <3> QED
      BY <1>2, <1>11, <2>1, <3>1 DEF Typed, Undo, Place
  <2>3. Placed(t)'
    BY <1>1, <1>11, <2>1 DEF Placed, Undo, Early, Asking
  <2>4. \A u, v \in Turn : Running(u)' /\ Running(v)' /\ u # v => u \in overlapped'
    <3>1. \A u \in Turn : Running(u)' => Running(u) /\ u # t
      BY <1>1, <2>1 DEF Running
    <3> QED
      BY <1>3, <2>1, <3>1
  <2>5. status'[t] # "responded" /\ (status'[t] = "none" <=> status[t] = "none")
    BY <1>1, <2>1
  <2> QED
    BY <1>1, <1>11, <2>1, <2>2, <2>3, <2>4, <2>5, TurnKeeps
       DEF Undo, Running, Done, Asking, Late
<1> QED
  BY <1>4, <1>5, <1>6, <1>7, <1>8, <1>9, <1>10, <1>11

(* A turn gets its row: of the rows that run alone it is the last, and no  *)
(* summary reaches it.                                                     *)
LEMMA RowStep ==
  ASSUME ConvInv, NEW t \in Turn, Save(t) \/ (Stored(t) /\ kind[t] = "beat")
  PROVE  ConvInv'
<1> USE DEF ConvInv, database, scheduler, Goes
<1>1. /\ status[t] = "none" /\ rows' = Append(rows, t) /\ kind' = kind
      /\ \/ st[t] = "save" /\ st' = [st EXCEPT ![t] = "ready"]
            /\ status' = [status EXCEPT ![t] = "other"]
         \/ st[t] = "store" /\ st' = [st EXCEPT ![t] = "archive"]
            /\ status' = [status EXCEPT ![t] = "responded"]
      /\ UNCHANGED <<up, used, tracked, overlapped, summaries, window, trusted, snap,
                     summarised, cutoff>>
  BY DEF Save, Stored, Places, Placed, Early, Asking
<1>2. /\ rows' \in Seq(Turn) /\ DOMAIN rows = 1..Len(rows) /\ Len(rows) \in Nat
      /\ Len(rows') = Len(rows) + 1 /\ DOMAIN rows' = 1..Len(rows')
      /\ \A n \in DOMAIN rows : rows'[n] = rows[n] /\ rows[n] \in Turn /\ rows[n] # t
      /\ rows'[Len(rows) + 1] = t
  <2>1. rows \in Seq(Turn)
    BY DEF Typed
  <2>2. /\ rows' \in Seq(Turn) /\ DOMAIN rows = 1..Len(rows) /\ Len(rows) \in Nat
        /\ Len(rows') = Len(rows) + 1 /\ DOMAIN rows' = 1..Len(rows')
        /\ \A n \in DOMAIN rows : rows'[n] = rows[n]
        /\ rows'[Len(rows) + 1] = t
    BY <1>1, <2>1, AppendProperties, LenProperties
  <2>3. \A n \in DOMAIN rows : rows[n] \in Turn
    BY <2>1, <2>2, ElementOfSeq
  <2>4. \A n \in DOMAIN rows : rows[n] # t
    BY <1>1 DEF Rows
  <2> QED
    BY <2>2, <2>3, <2>4
<1>3. \A n \in DOMAIN rows' : n \in DOMAIN rows \/ (n = Len(rows) + 1 /\ rows'[n] = t)
  BY <1>2
<1>4. /\ DOMAIN st = Turn /\ DOMAIN status = Turn
      /\ st'[t] \in {"ready", "archive"} /\ status'[t] # "none"
      /\ \A u \in Turn \ {t} : st'[u] = st[u] /\ status'[u] = status[u]
  BY <1>1 DEF Typed
<1>5. Typed'
  BY <1>1, <1>2 DEF Typed, Place, Save, Stored
<1>6. Places'
  <2>1. \A u \in Turn \ {t} : Placed(u)'
    BY <1>1, <1>4 DEF Places, Placed
  <2>2. Placed(t)'
    <3>1. Placed(t) /\ (st[t] = "save" => Save(t)) /\ (st[t] = "save" \/ kind[t] = "beat")
      BY <1>1 DEF Places, Save, Stored
    <3> QED
      BY <1>1, <1>4, <3>1 DEF Placed, Early, Asking
  <2> QED
    BY <2>1, <2>2 DEF Places
<1>7. Rows'
  <2>1. ASSUME NEW u \in Turn
        PROVE  status'[u] # "none" <=> \E n \in DOMAIN rows' : rows'[n] = u
    <3>1. CASE u = t
      BY <1>2, <1>4, <3>1
    <3>2. CASE u # t
      <4>1. status'[u] = status[u]
        BY <1>4, <3>2
      <4>2. (\E n \in DOMAIN rows' : rows'[n] = u) <=> (\E n \in DOMAIN rows : rows[n] = u)
        BY <1>2, <1>3, <3>2
      <4> QED
        BY <4>1, <4>2 DEF Rows
    <3> QED
      BY <3>1, <3>2
  <2>2. \A m, n \in DOMAIN rows' : rows'[m] = rows'[n] => m = n
    BY <1>2, <1>3 DEF Rows
  <2> QED
    BY <2>1, <2>2 DEF Rows
<1>8. Running(t)
  BY <1>1 DEF Running
<1>9. Apart'
  <2>1. \A u \in Turn : Running(u)' => Running(u)
    BY <1>4, <1>8 DEF Running
  <2>2. ASSUME NEW n \in DOMAIN rows', Running(rows[n])', rows'[n] \notin overlapped'
        PROVE  n = Len(rows')
    <3>1. CASE n \in DOMAIN rows
      <4>1. Running(rows[n]) /\ rows[n] \notin overlapped /\ rows[n] # t /\ rows[n] \in Turn
        BY <1>1, <1>2, <1>4, <2>2, <3>1 DEF Running
      <4> QED
        BY <1>8, <4>1 DEF Apart
    <3> QED
      BY <1>2, <1>3, <3>1
  <2> QED
    BY <1>1, <2>1, <2>2 DEF Apart
<1>10. \A s \in Seq(Entry) : Items(s) /\ Sorted(s) => Items(s)' /\ Sorted(s)'
  <2> TAKE s \in Seq(Entry)
  <2>1. \A n \in DOMAIN rows :
          /\ st[rows[n]] \in Late
          /\ status'[rows[n]] = "responded" /\ rows[n] \notin overlapped'
          => status[rows[n]] = "responded" /\ rows[n] \notin overlapped
    BY <1>1, <1>2, <1>4
  <2>2. \A u \in Turn : st[u] \in Late => st'[u] \in Late
    BY <1>1, <1>4 DEF Late
  <2>3. Len(rows') \in Nat /\ Len(rows) <= Len(rows')
    BY <1>2
  <2> QED
    BY <1>2, <2>1, <2>2, <2>3, WindowStays
<1>11. Known' = Known
  BY <1>1 DEF Known
<1>12. \A u \in Turn \ {t} : Done(u)' => Done(u)
  BY <1>4 DEF Done
<1>13. st'[t] = "archive" /\ t \notin Known => \E k \in DOMAIN window : k > 0 /\ window[k].turn = t
  <2>1. DOMAIN window = 1..Len(window)
    BY LenProperties DEF Typed
  <2> QED
    BY <1>1, <1>4, <2>1 DEF Memory, Known
<1>14. Memory'
  <2>1. /\ window \in Seq(Entry) /\ window' = window /\ snap' = snap
        /\ \A u \in Turn : snap[u].items \in Seq(Entry)
    BY <1>1 DEF Typed
  <2>2. Items(window)' /\ Sorted(window)'
    BY <1>10, <2>1 DEF Memory, Items, Sorted
  <2>3. (up => Holds(window, 0))'
    <3> SUFFICES ASSUME up, NEW u \in Turn, Done(u)', u \notin Known
                 PROVE  \E k \in DOMAIN window : k > 0 /\ window[k].turn = u
      BY <1>1, <1>11 DEF Holds
    <3>1. CASE u = t
      BY <1>4, <1>13, <3>1 DEF Done
    <3>2. CASE u # t
      BY <1>12, <3>2 DEF Memory, Holds
    <3> QED
      BY <3>1, <3>2
  <2>4. (\A u \in Turn : st[u] = "store" /\ u \notin overlapped
                           => \E k \in DOMAIN window : window[k].turn = u)'
    BY <1>1, <1>4 DEF Memory
  <2>5. ASSUME NEW u \in Turn
        PROVE  (/\ Items(snap[u].items) /\ Sorted(snap[u].items)
                /\ snap[u].cut \in 0..Len(snap[u].items)
                /\ st[u] = "compact" => Holds(snap[u].items, 0)
                /\ st[u] = "trim" => Holds(snap[u].items, snap[u].cut))'
    <3>1. Items(snap[u].items)' /\ Sorted(snap[u].items)'
      <4>1. PICK s \in Seq(Entry) : s = snap[u].items /\ s = snap'[u].items
        BY <2>1
      <4>2. Items(s) /\ Sorted(s)
        BY <4>1 DEF Memory
      <4>3. Items(s)' /\ Sorted(s)'
        BY <1>10, <4>2
      <4> QED
        BY <4>1, <4>3 DEF Items, Sorted
    <3>2. ASSUME st'[u] \in {"compact", "trim"}
          PROVE  st'[u] = st[u] /\ t \in Known
      <4>1. u # t /\ st'[u] = st[u]
        BY <1>4, <3>2
      <4>2. Running(u)
        BY <3>2, <4>1 DEF Running
      <4> QED
        BY <1>8, <4>1, <4>2 DEF Apart, Known
    <3>3. (st[u] = "compact" => Holds(snap[u].items, 0))'
      BY <1>11, <1>12, <2>1, <3>2 DEF Memory, Holds
    <3>4. (st[u] = "trim" => Holds(snap[u].items, snap[u].cut))'
      BY <1>11, <1>12, <2>1, <3>2 DEF Memory, Holds
    <3> QED
      BY <2>1, <3>1, <3>3, <3>4 DEF Memory
  <2> QED
    BY <2>2, <2>3, <2>4, <2>5 DEF Memory
<1>15. Claims'
  <2> SUFFICES ASSUME NEW k \in DOMAIN summaries
               PROVE  /\ summaries[k] <= Len(rows')
                      /\ \A n \in DOMAIN rows' :
                           /\ st'[rows'[n]] \in Asking /\ rows'[n] \notin overlapped
                                => summaries[k] < n
                           /\ n <= summaries[k] /\ status'[rows'[n]] = "responded"
                                => rows'[n] \in summarised \cup overlapped
    BY <1>1 DEF Claims
  <2>1. summaries[k] \in Nat /\ summaries[k] <= Len(rows)
    <3>1. summaries \in Seq(Nat)
      BY DEF Typed
    <3> QED
      BY <3>1, LenProperties, ElementOfSeq DEF Claims
  <2>2. ASSUME NEW n \in DOMAIN rows'
        PROVE  /\ st'[rows'[n]] \in Asking /\ rows'[n] \notin overlapped
                    => summaries[k] < n
               /\ n <= summaries[k] /\ status'[rows'[n]] = "responded"
                    => rows'[n] \in summarised \cup overlapped
    <3>1. CASE n \in DOMAIN rows
      <4>1. /\ rows'[n] = rows[n] /\ st'[rows[n]] = st[rows[n]]
            /\ status'[rows[n]] = status[rows[n]]
        BY <1>2, <1>4, <3>1
      <4> QED
        BY <3>1, <4>1 DEF Claims
    <3>2. CASE n = Len(rows) + 1
      BY <1>2, <2>1, <3>2
    <3> QED
      BY <1>3, <3>1, <3>2
  <2> QED
    BY <1>2, <2>1, <2>2
<1> QED
  BY <1>5, <1>6, <1>7, <1>9, <1>14, <1>15

(* The steps of a turn that runs on and leaves rows and answers alone.     *)
LEMMA RunsOn ==
  ASSUME ConvInv, NEW t \in Turn, Running(t), Running(t)', st' \in [Turn -> Place],
         \A u \in Turn \ {t} : st'[u] = st[u], Placed(t)', st[t] \in Late => st'[t] \in Late,
         UNCHANGED <<up, used, kind, tracked, rows, status, overlapped>>
  PROVE  /\ Places' /\ Rows' /\ Apart'
         /\ \A s \in Seq(Entry) : Items(s) /\ Sorted(s) => Items(s)' /\ Sorted(s)'
<1> USE DEF ConvInv
<1>1. /\ DOMAIN rows = 1..Len(rows) /\ Len(rows) \in Nat
      /\ \A n \in DOMAIN rows : rows[n] \in Turn
  BY LenProperties, ElementOfSeq DEF Typed
<1>2. Places'
  BY DEF Places, Placed
<1>3. Rows'
  BY DEF Rows
<1>4. \A u \in Turn : Running(u)' <=> Running(u)
  BY DEF Running
<1>5. Apart'
  <2>1. \A n \in DOMAIN rows : Running(rows[n])' <=> Running(rows[n])
    BY <1>1, <1>4
  <2> QED
    BY <1>4, <2>1 DEF Apart
<1>6. ASSUME NEW s \in Seq(Entry), Items(s), Sorted(s)
      PROVE  Items(s)' /\ Sorted(s)'
  <2>1. \A u \in Turn : st[u] \in Late => st'[u] \in Late
    OBVIOUS
  <2> QED
    BY <1>1, <1>6, <2>1, WindowStays
<1> QED
  BY <1>2, <1>3, <1>5, <1>6

(* A compaction looks at the window: what it sees is all there is.         *)
LEMMA CompactStep ==
  ASSUME ConvInv, NEW t \in Turn, Compact(t)
  PROVE  ConvInv'
<1> USE DEF ConvInv, database, Goes
<1>1. PICK n \in 1..Len(window) - 1 :
        snap' = [snap EXCEPT ![t] = [items |-> window, cut |-> n]]
  BY DEF Compact
<1>2. /\ st[t] = "ready" /\ st' = [st EXCEPT ![t] = "compact"]
      /\ UNCHANGED <<up, used, kind, tracked, rows, status, overlapped, summaries, window,
                     trusted, summarised, cutoff>>
  BY DEF Compact
<1>3. window \in Seq(Entry) /\ Len(window) \in Nat /\ DOMAIN window = 1..Len(window)
  BY LenProperties DEF Typed
<1>4. Typed'
  BY <1>1, <1>2, <1>3 DEF Typed, Compact, Place
<1>5. Placed(t) /\ Running(t) /\ Running(t)' /\ up /\ status[t] # "responded"
  BY <1>2 DEF Places, Placed, Running, Typed, Asking
<1>6. Placed(t)'
  BY <1>2, <1>5 DEF Placed, Early, Asking, Typed
<1>7. /\ Places' /\ Rows' /\ Apart'
      /\ \A s \in Seq(Entry) : Items(s) /\ Sorted(s) => Items(s)' /\ Sorted(s)'
  <2>1. \A u \in Turn \ {t} : st'[u] = st[u]
    BY <1>2
  <2>2. st' \in [Turn -> Place] /\ st[t] \notin Late
    BY <1>2, <1>4 DEF Typed, Late
  <2> QED
    BY <1>2, <1>5, <1>6, <2>1, <2>2, RunsOn
<1>8. \A u \in Turn : Done(u)' /\ u \notin Known' => Done(u) /\ u \notin Known
  BY <1>2, <1>5 DEF Done, Known, Typed
<1>9. Memory'
  <2>1. Items(window)' /\ Sorted(window)'
    BY <1>2, <1>3, <1>7 DEF Memory, Items, Sorted
  <2>2. (up => Holds(window, 0))'
    BY <1>2, <1>8 DEF Memory, Holds
  <2>3. (\A u \in Turn : st[u] = "store" /\ u \notin overlapped
                           => \E k \in DOMAIN window : window[k].turn = u)'
    BY <1>2 DEF Memory, Typed
  <2>4. ASSUME NEW u \in Turn
        PROVE  (/\ Items(snap[u].items) /\ Sorted(snap[u].items)
                /\ snap[u].cut \in 0..Len(snap[u].items)
                /\ st[u] = "compact" => Holds(snap[u].items, 0)
                /\ st[u] = "trim" => Holds(snap[u].items, snap[u].cut))'
    <3>1. CASE u = t
      <4>1. snap'[u].items = window /\ snap'[u].cut = n /\ st'[u] = "compact"
        BY <1>1, <1>2, <3>1 DEF Typed
      <4>2. Items(snap[u].items)' /\ Sorted(snap[u].items)'
        BY <1>2, <2>1, <4>1 DEF Items, Sorted
      <4>3. Holds(snap[u].items, 0)'
        BY <1>2, <1>5, <2>2, <4>1 DEF Holds
      <4> QED
        BY <1>3, <4>1, <4>2, <4>3
    <3>2. CASE u # t
      <4>1. snap'[u] = snap[u] /\ st'[u] = st[u]
        BY <1>1, <1>2, <3>2 DEF Typed
      <4>2. Items(snap[u].items)' /\ Sorted(snap[u].items)'
        <5>1. PICK s \in Seq(Entry) : s = snap[u].items /\ s = snap'[u].items
          BY <4>1 DEF Typed
        <5>2. Items(s)' /\ Sorted(s)'
          BY <1>7, <5>1 DEF Memory
        <5> QED
          BY <5>1, <5>2 DEF Items, Sorted
      <4>3. (st[u] = "compact" => Holds(snap[u].items, 0))'
        <5> SUFFICES ASSUME st[u] = "compact"
                     PROVE  Holds(snap[u].items, 0)'
          BY <4>1
        <5>1. Holds(snap[u].items, 0)
          BY DEF Memory
        <5> QED
          BY <1>8, <4>1, <5>1 DEF Holds
      <4>4. (st[u] = "trim" => Holds(snap[u].items, snap[u].cut))'
        <5> SUFFICES ASSUME st[u] = "trim"
                     PROVE  Holds(snap[u].items, snap[u].cut)'
          BY <4>1
        <5>1. Holds(snap[u].items, snap[u].cut)
          BY DEF Memory
        <5> QED
          BY <1>8, <4>1, <5>1 DEF Holds
      <4> QED
        BY <4>1, <4>2, <4>3, <4>4 DEF Memory
    <3> QED
      BY <3>1, <3>2
  <2> QED
    BY <2>1, <2>2, <2>3, <2>4 DEF Memory
<1>10. Claims'
  <2>1. \A m \in DOMAIN rows : st'[rows[m]] \in Asking => st[rows[m]] \in Asking
    BY <1>2 DEF Asking, Typed
  <2> QED
    BY <1>2, <2>1 DEF Claims
<1> QED
  BY <1>4, <1>7, <1>9, <1>10

(* The message of a turn joins the window: of those that ran alone it has  *)
(* the last row.                                                           *)
LEMMA RememberStep ==
  ASSUME ConvInv, NEW t \in Turn, Remember(t)
  PROVE  ConvInv'
<1> USE DEF ConvInv, database, Goes
<1>1. /\ st[t] = "kept" /\ st' = [st EXCEPT ![t] = "store"]
      /\ window' = Append(window, [turn |-> t, id |-> IdOf(t)])
      /\ UNCHANGED <<up, used, kind, tracked, rows, status, overlapped, summaries, snap,
                     trusted, summarised, cutoff>>
  BY DEF Remember
<1>2. /\ DOMAIN rows = 1..Len(rows) /\ Len(rows) \in Nat
      /\ \A n \in DOMAIN rows : rows[n] \in Turn
  BY LenProperties, ElementOfSeq DEF Typed
<1>3. IdOf(t) \in Nat /\ (IdOf(t) # 0 => IdOf(t) \in DOMAIN rows /\ rows[IdOf(t)] = t)
  <2>1. CASE t \in ToSet(rows)
    <3>1. \E n \in DOMAIN rows : rows[n] = t
      BY <2>1 DEF ToSet
    <3> QED
      BY <1>2, <2>1, <3>1 DEF IdOf
  <2>2. CASE t \notin ToSet(rows)
    BY <2>2 DEF IdOf
  <2> QED
    BY <2>1, <2>2
<1> DEFINE e == [turn |-> t, id |-> IdOf(t)]
<1>4. /\ window' \in Seq(Entry) /\ Len(window) \in Nat /\ Len(window') = Len(window) + 1
      /\ DOMAIN window = 1..Len(window) /\ DOMAIN window' = 1..Len(window')
      /\ \A k \in DOMAIN window : window'[k] = window[k]
      /\ window'[Len(window) + 1] = e
  <2>1. window \in Seq(Entry) /\ e \in Entry /\ window' = Append(window, e)
    BY <1>1, <1>3 DEF Typed, Entry
  <2> HIDE DEF e
  <2> QED
    BY <2>1, AppendProperties, LenProperties
<1>5. \A k \in DOMAIN window' : k \in DOMAIN window \/ (k = Len(window) + 1 /\ window'[k] = e)
  BY <1>4
<1>6. Typed'
  BY <1>1, <1>4 DEF Typed, Remember, Place
<1>7. Placed(t) /\ Running(t) /\ Running(t)' /\ up
  BY <1>1 DEF Places, Placed, Running, Typed
<1>8. Placed(t)'
  BY <1>1, <1>7 DEF Placed, Early, Asking, Typed
<1>9. /\ Places' /\ Rows' /\ Apart'
      /\ \A s \in Seq(Entry) : Items(s) /\ Sorted(s) => Items(s)' /\ Sorted(s)'
  <2>1. \A u \in Turn \ {t} : st'[u] = st[u]
    BY <1>1
  <2>2. st' \in [Turn -> Place] /\ st[t] \notin Late
    BY <1>1, <1>6 DEF Typed, Late
  <2> QED
    BY <1>1, <1>7, <1>8, <2>1, <2>2, RunsOn
<1>10. \A u \in Turn \ {t} : Done(u)' /\ u \notin Known' => Done(u) /\ u \notin Known
  BY <1>1 DEF Done, Known, Typed
<1>11. Items(window) /\ Sorted(window)
  BY DEF Memory
<1>12. \A k \in DOMAIN window : window[k].id \in Nat /\ window[k].id <= Len(rows)
  <2> TAKE k \in DOMAIN window
  <2>1. window \in Seq(Entry) /\ k \in 1..Len(window)
    BY <1>4 DEF Typed
  <2>2. window[k] \in Entry
    BY <2>1, ElementOfSeq
  <2>3. window[k].id \in Nat
    BY <2>2 DEF Entry
  <2> QED
    BY <1>2, <1>11, <2>3 DEF Items
<1>13. Items(window)'
  <2> SUFFICES ASSUME NEW k \in DOMAIN window'
               PROVE  /\ st'[window'[k].turn] \in Late
                      /\ window'[k].id # 0 =>
                           window'[k].id \in DOMAIN rows /\ rows[window'[k].id] = window'[k].turn
    BY <1>1 DEF Items
  <2>1. CASE k \in DOMAIN window
    <3>1. st[window[k].turn] \in Late
      BY <1>11, <2>1 DEF Items
    <3>2. window[k].turn # t /\ window[k].turn \in Turn
      <4>1. window \in Seq(Entry) /\ k \in 1..Len(window)
        BY <1>4, <2>1 DEF Typed
      <4>2. window[k] \in Entry
        BY <4>1, ElementOfSeq
      <4>3. window[k].turn \in Turn
        BY <4>2 DEF Entry
      <4> QED
        BY <1>1, <3>1, <4>3 DEF Late
    <3> QED
      BY <1>1, <1>4, <1>11, <2>1, <3>1, <3>2 DEF Items, Typed
  <2>2. CASE window'[k] = e
    <3>1. st'[t] = "store"
      BY <1>1 DEF Typed
    <3> QED
      BY <1>3, <2>2, <3>1 DEF Late
  <2> QED
    BY <1>5, <2>1, <2>2
<1>14. Sorted(window)'
  <2> SUFFICES ASSUME NEW p \in DOMAIN window', NEW q \in DOMAIN window', NEW n \in DOMAIN rows,
                      window'[p].turn = rows[n], window'[q].id > n,
                      status[rows[n]] = "responded", rows[n] \notin overlapped
               PROVE  p < q
    BY <1>1 DEF Sorted
  <2>1. CASE q = Len(window) + 1 /\ p \in DOMAIN window
    BY <1>4, <2>1
  <2>2. CASE p \in DOMAIN window /\ q \in DOMAIN window
    BY <1>4, <1>11, <2>2 DEF Sorted
  <2>3. CASE p = Len(window) + 1
    <3>1. rows[n] = t
      BY <1>4, <2>3
    <3>2. n = Len(rows)
      BY <1>7, <3>1 DEF Apart
    <3>3. window'[q].id <= Len(rows)
      <4>1. CASE q \in DOMAIN window
        BY <1>4, <1>12, <4>1
      <4>2. CASE window'[q] = e
        BY <1>2, <1>3, <4>2
      <4> QED
        BY <1>5, <4>1, <4>2
    <3>4. window'[q].id \in Nat
      <4>1. CASE q \in DOMAIN window
        BY <1>4, <1>12, <4>1
      <4>2. CASE window'[q] = e
        BY <1>3, <4>2
      <4> QED
        BY <1>5, <4>1, <4>2
    <3> QED
      BY <1>2, <3>2, <3>3, <3>4
  <2> QED
    BY <1>5, <2>1, <2>2, <2>3
<1>15. Memory'
  <2>1. (up => Holds(window, 0))'
    <3> SUFFICES ASSUME NEW u \in Turn, Done(u)', u \notin Known'
                 PROVE  \E k \in DOMAIN window' : k > 0 /\ window'[k].turn = u
      BY DEF Holds
    <3>1. CASE u = t
      BY <1>4, <3>1
    <3>2. CASE u # t
      <4>1. PICK k \in DOMAIN window : k > 0 /\ window[k].turn = u
        BY <1>7, <1>10, <3>2 DEF Memory, Holds
      <4> QED
        BY <1>4, <4>1
    <3> QED
      BY <3>1, <3>2
  <2>2. (\A u \in Turn : st[u] = "store" /\ u \notin overlapped
                           => \E k \in DOMAIN window : window[k].turn = u)'
    <3> SUFFICES ASSUME NEW u \in Turn, st'[u] = "store", u \notin overlapped
                 PROVE  \E k \in DOMAIN window' : window'[k].turn = u
      BY <1>1
    <3>1. CASE u = t
      BY <1>4, <3>1
    <3>2. CASE u # t
      <4>1. PICK k \in DOMAIN window : window[k].turn = u
        BY <1>1, <3>2 DEF Memory, Typed
      <4> QED
        BY <1>4, <4>1
    <3> QED
      BY <3>1, <3>2
  <2>3. ASSUME NEW u \in Turn
        PROVE  (/\ Items(snap[u].items) /\ Sorted(snap[u].items)
                /\ snap[u].cut \in 0..Len(snap[u].items)
                /\ st[u] = "compact" => Holds(snap[u].items, 0)
                /\ st[u] = "trim" => Holds(snap[u].items, snap[u].cut))'
    <3>1. Items(snap[u].items)' /\ Sorted(snap[u].items)'
      <4>1. PICK s \in Seq(Entry) : s = snap[u].items /\ s = snap'[u].items
        BY <1>1 DEF Typed
      <4>2. Items(s)' /\ Sorted(s)'
        BY <1>9, <4>1 DEF Memory
      <4> QED
        BY <4>1, <4>2 DEF Items, Sorted
    <3>2. ASSUME st'[u] \in {"compact", "trim"}
          PROVE  st'[u] = st[u] /\ t \in Known
      <4>1. u # t /\ st'[u] = st[u]
        BY <1>1, <3>2 DEF Typed
      <4>2. Running(u)
        BY <3>2, <4>1 DEF Running
      <4> QED
        BY <1>7, <4>1, <4>2 DEF Apart, Known
    <3>3. Known' = Known
      BY <1>1 DEF Known
    <3>4. (st[u] = "compact" => Holds(snap[u].items, 0))'
      BY <1>1, <1>10, <3>2, <3>3 DEF Memory, Holds
    <3>5. (st[u] = "trim" => Holds(snap[u].items, snap[u].cut))'
      BY <1>1, <1>10, <3>2, <3>3 DEF Memory, Holds
    <3> QED
      BY <1>1, <3>1, <3>4, <3>5 DEF Memory
  <2> QED
    BY <1>13, <1>14, <2>1, <2>2, <2>3 DEF Memory
<1>16. Claims'
  <2>1. \A m \in DOMAIN rows : st'[rows[m]] \in Asking => st[rows[m]] \in Asking
    BY <1>1 DEF Asking, Typed
  <2> QED
    BY <1>1, <2>1 DEF Claims
<1> QED
  BY <1>6, <1>9, <1>15, <1>16

(* What a summary says it covers, it covers.                               *)
LEMMA ThroughIsTrue ==
  ASSUME ConvInv, NEW t \in Turn, st[t] = "compact", NEW S,
         \A k \in 1..snap[t].cut : snap[t].items[k].turn \in S
  PROVE  /\ Through(t) \in 0..Len(rows)
         /\ \A n \in DOMAIN rows :
              /\ st[rows[n]] \in Asking /\ rows[n] \notin overlapped => Through(t) < n
              /\ n <= Through(t) /\ status[rows[n]] = "responded"
                   => rows[n] \in summarised \cup S \cup overlapped
<1> USE DEF ConvInv
<1> DEFINE s == snap[t].items
           c == snap[t].cut
           I == {item.id : item \in ToSet(Archived(t))}
<1>1. /\ DOMAIN rows = 1..Len(rows) /\ Len(rows) \in Nat
      /\ \A n \in DOMAIN rows : rows[n] \in Turn
  BY LenProperties, ElementOfSeq DEF Typed
<1>2. /\ s \in Seq(Entry) /\ c \in 0..Len(s) /\ Items(s) /\ Sorted(s) /\ Holds(s, 0)
      /\ DOMAIN s = 1..Len(s) /\ Len(s) \in Nat
  BY LenProperties DEF Typed, Memory
<1>3. /\ Len(Archived(t)) = c /\ DOMAIN Archived(t) = 1..c
      /\ \A k \in 1..c : Archived(t)[k] = s[k]
  BY <1>2, ArchivedAndKept, LenProperties
<1> HIDE DEF s, c
<1>4. CASE ~ trusted \/ I = {}
  <2>1. Through(t) = IF trusted THEN Largest(I) ELSE 0
    BY DEF Through
  <2>2. Largest({}) = 0
    BY DEF Largest
  <2>3. Through(t) = 0
    BY <1>4, <2>1, <2>2
  <2> QED
    BY <1>1, <2>3
<1>5. CASE trusted /\ I # {}
  <2>1. \A i \in I : \E k \in 1..c : i = s[k].id
    BY <1>3 DEF ToSet
  <2>2. \A k \in 1..c : s[k] \in Entry /\ k \in DOMAIN s
    BY <1>2, ElementOfSeq
  <2>3. \A i \in I : i \in 0..Len(rows)
    <3> TAKE i \in I
    <3>1. PICK k \in 1..c : i = s[k].id
      BY <2>1
    <3>2. i \in Nat
      BY <2>2, <3>1 DEF Entry
    <3> QED
      BY <1>1, <1>2, <2>2, <3>1, <3>2 DEF Items
  <2>4. Through(t) = Largest(I)
    BY <1>5 DEF Through
  <2> HIDE DEF I
  <2>5. Through(t) \in I /\ Through(t) \in 0..Len(rows)
    BY <1>1, <1>5, <2>3, <2>4, LargestIsOne
  <2>6. PICK k \in 1..c : Through(t) = s[k].id
    BY <2>1, <2>5
  <2>7. ASSUME NEW n \in DOMAIN rows, st[rows[n]] \in Asking, rows[n] \notin overlapped
        PROVE  Through(t) < n
    <3>1. n = Len(rows)
      BY <2>7 DEF Apart, Running, Asking
    <3>2. Through(t) # n
      BY <1>1, <1>2, <2>2, <2>6, <2>7 DEF Items, Asking, Late
    <3> QED
      BY <1>1, <2>5, <3>1, <3>2
  <2>8. ASSUME NEW n \in DOMAIN rows, n <= Through(t), status[rows[n]] = "responded",
               rows[n] \notin overlapped, rows[n] \notin summarised
        PROVE  rows[n] \in S
    <3>1. rows[n] \in Turn
      BY <1>1
    <3>2. st[rows[n]] \in Place \ (Early \cup Asking)
      BY <2>8, <3>1 DEF Places, Placed, Typed
    <3>3. ~ Running(rows[n])
      BY <2>8, <3>1, <3>2 DEF Apart, Running, Asking
    <3>4. st[rows[n]] = "over"
      BY <3>2, <3>3 DEF Place, Early, Asking, Running
    <3>5. PICK p \in DOMAIN s : s[p].turn = rows[n]
      BY <1>2, <1>5, <2>8, <3>1, <3>4 DEF Holds, Done, Known
    <3>6. \A j \in 1..c : s[j].turn \in S
      BY DEF s, c
    <3>7. CASE n = Through(t)
      <4>1. s[k].id # 0 /\ k \in DOMAIN s
        BY <1>1, <2>2, <2>6, <3>7
      <4>2. rows[n] = s[k].turn
        BY <1>2, <2>6, <3>7, <4>1 DEF Items
      <4> QED
        BY <3>6, <4>2
    <3>8. CASE n # Through(t)
      <4>1. s[k].id > n /\ k \in DOMAIN s
        BY <1>1, <2>2, <2>5, <2>6, <2>8, <3>8
      <4>2. p < k
        BY <1>2, <2>8, <3>5, <4>1 DEF Sorted
      <4>3. p \in 1..c
        BY <1>2, <4>2
      <4> QED
        BY <3>5, <3>6, <4>3
    <3> QED
      BY <3>7, <3>8
  <2> QED
    BY <2>5, <2>7, <2>8
<1> QED
  BY <1>4, <1>5

(* A summary is written: what it was made of is known from it.             *)
LEMMA SummariseStep ==
  ASSUME ConvInv, NEW t \in Turn, Summarise(t)
  PROVE  ConvInv'
<1> USE DEF ConvInv, database, Goes
<1> DEFINE S == {item.turn : item \in ToSet(Archived(t))}
<1>1. /\ st[t] = "compact" /\ st' = [st EXCEPT ![t] = "trim"]
      /\ summaries' = Append(summaries, Through(t))
      /\ summarised' = summarised \cup S
      /\ UNCHANGED <<up, used, kind, tracked, rows, status, overlapped, window, snap,
                     trusted, cutoff>>
  BY DEF Summarise
<1>2. /\ snap[t].items \in Seq(Entry) /\ snap[t].cut \in 0..Len(snap[t].items)
      /\ Holds(snap[t].items, 0)
      /\ DOMAIN snap[t].items = 1..Len(snap[t].items) /\ Len(snap[t].items) \in Nat
  BY <1>1, LenProperties DEF Typed, Memory
<1>3. /\ Archived(t) \in Seq(Entry) /\ DOMAIN Archived(t) = 1..snap[t].cut
      /\ Len(Archived(t)) = snap[t].cut
      /\ \A k \in 1..snap[t].cut : Archived(t)[k] = snap[t].items[k]
  BY <1>2, ArchivedAndKept, LenProperties
<1>4. S \subseteq Turn /\ \A k \in 1..snap[t].cut : snap[t].items[k].turn \in S
  <2>1. \A item \in ToSet(Archived(t)) : item \in Entry
    <3>1. \A k \in 1..Len(Archived(t)) : Archived(t)[k] \in Entry
      BY <1>3, ElementOfSeq
    <3> QED
      BY <1>3, <3>1 DEF ToSet
  <2>2. \A k \in 1..snap[t].cut : snap[t].items[k] \in ToSet(Archived(t))
    BY <1>3 DEF ToSet
  <2> QED
    BY <2>1, <2>2 DEF Entry
<1> HIDE DEF S
<1>5. /\ Through(t) \in 0..Len(rows)
      /\ \A n \in DOMAIN rows :
           /\ st[rows[n]] \in Asking /\ rows[n] \notin overlapped => Through(t) < n
           /\ n <= Through(t) /\ status[rows[n]] = "responded"
                => rows[n] \in summarised \cup S \cup overlapped
  BY <1>1, <1>4, ThroughIsTrue
<1>6. /\ summaries' \in Seq(Nat) /\ Len(summaries) \in Nat
      /\ DOMAIN summaries = 1..Len(summaries)
      /\ DOMAIN summaries' = 1..Len(summaries) + 1
      /\ \A k \in DOMAIN summaries : summaries'[k] = summaries[k]
      /\ summaries'[Len(summaries) + 1] = Through(t)
  <2>1. summaries \in Seq(Nat) /\ Through(t) \in Nat
    BY <1>5 DEF Typed
  <2> QED
    BY <1>1, <2>1, AppendProperties, LenProperties
<1>7. \A k \in DOMAIN summaries' :
        (k \in DOMAIN summaries /\ summaries'[k] = summaries[k]) \/ summaries'[k] = Through(t)
  BY <1>6
<1>8. Typed'
  BY <1>1, <1>4, <1>6 DEF Typed, Summarise, Place
<1>9. Placed(t) /\ Running(t) /\ Running(t)'
  BY <1>1 DEF Places, Placed, Running, Typed
<1>10. Placed(t)'
  BY <1>1, <1>9 DEF Placed, Early, Asking, Typed
<1>11. /\ Places' /\ Rows' /\ Apart'
       /\ \A s \in Seq(Entry) : Items(s) /\ Sorted(s) => Items(s)' /\ Sorted(s)'
  <2>1. \A u \in Turn \ {t} : st'[u] = st[u]
    BY <1>1
  <2>2. st' \in [Turn -> Place] /\ st[t] \notin Late
    BY <1>1, <1>8 DEF Typed, Late
  <2> QED
    BY <1>1, <1>9, <1>10, <2>1, <2>2, RunsOn
<1>12. \A u \in Turn : Done(u)' /\ u \notin Known' => Done(u) /\ u \notin Known /\ u \notin S
  BY <1>1 DEF Done, Known, Typed
<1>13. Memory'
  <2>1. Items(window)' /\ Sorted(window)'
    <3>1. window \in Seq(Entry) /\ window' = window
      BY <1>1 DEF Typed
    <3> QED
      BY <1>11, <3>1 DEF Memory, Items, Sorted
  <2>2. (up => Holds(window, 0))'
    BY <1>1, <1>12 DEF Memory, Holds
  <2>3. (\A u \in Turn : st[u] = "store" /\ u \notin overlapped
                           => \E k \in DOMAIN window : window[k].turn = u)'
    BY <1>1 DEF Memory, Typed
  <2>4. ASSUME NEW u \in Turn
        PROVE  (/\ Items(snap[u].items) /\ Sorted(snap[u].items)
                /\ snap[u].cut \in 0..Len(snap[u].items)
                /\ st[u] = "compact" => Holds(snap[u].items, 0)
                /\ st[u] = "trim" => Holds(snap[u].items, snap[u].cut))'
    <3>1. Items(snap[u].items)' /\ Sorted(snap[u].items)'
      <4>1. PICK s \in Seq(Entry) : s = snap[u].items /\ s = snap'[u].items
        BY <1>1 DEF Typed
      <4>2. Items(s)' /\ Sorted(s)'
        BY <1>11, <4>1 DEF Memory
      <4> QED
        BY <4>1, <4>2 DEF Items, Sorted
    <3>2. (st[u] = "compact" => Holds(snap[u].items, 0))'
      <4> SUFFICES ASSUME st'[u] = "compact"
                   PROVE  Holds(snap[u].items, 0)'
        OBVIOUS
      <4>1. st[u] = "compact"
        BY <1>1 DEF Typed
      <4>2. Holds(snap[u].items, 0)
        BY <4>1 DEF Memory
      <4> QED
        BY <1>1, <1>12, <4>2 DEF Holds
    <3>3. (st[u] = "trim" => Holds(snap[u].items, snap[u].cut))'
      <4>1. CASE u = t
        <5> SUFFICES ASSUME NEW v \in Turn, Done(v)', v \notin Known'
                     PROVE  \E k \in DOMAIN snap[t].items :
                              k > snap[t].cut /\ snap[t].items[k].turn = v
          BY <1>1, <4>1 DEF Holds
        <5>1. PICK k \in DOMAIN snap[t].items : snap[t].items[k].turn = v
          BY <1>2, <1>12 DEF Holds
        <5>2. k \notin 1..snap[t].cut
          BY <1>4, <1>12, <5>1
        <5>3. k > snap[t].cut
          BY <1>2, <5>2
        <5> QED
          BY <5>1, <5>3
      <4>2. CASE u # t /\ st'[u] = "trim"
        <5>1. st[u] = "trim"
          BY <1>1, <4>2 DEF Typed
        <5>2. Holds(snap[u].items, snap[u].cut)
          BY <5>1 DEF Memory
        <5> QED
          BY <1>1, <1>12, <5>2 DEF Holds
      <4> QED
        BY <4>1, <4>2
    <3> QED
      BY <1>1, <3>1, <3>2, <3>3 DEF Memory
  <2> QED
    BY <2>1, <2>2, <2>3, <2>4 DEF Memory
<1>14. Claims'
  <2> SUFFICES ASSUME NEW k \in DOMAIN summaries'
               PROVE  /\ summaries'[k] <= Len(rows)
                      /\ \A n \in DOMAIN rows :
                           /\ st'[rows[n]] \in Asking /\ rows[n] \notin overlapped
                                => summaries'[k] < n
                           /\ n <= summaries'[k] /\ status[rows[n]] = "responded"
                                => rows[n] \in summarised \cup S \cup overlapped
    BY <1>1 DEF Claims
  <2>1. \A n \in DOMAIN rows : st'[rows[n]] \in Asking => st[rows[n]] \in Asking
    BY <1>1 DEF Asking, Typed
  <2>2. CASE k \in DOMAIN summaries /\ summaries'[k] = summaries[k]
    BY <2>1, <2>2 DEF Claims
  <2>3. CASE summaries'[k] = Through(t)
    <3>1. Through(t) <= Len(rows)
      BY <1>5
    <3> QED
      BY <1>5, <2>1, <2>3, <3>1
  <2> QED
    BY <1>7, <2>2, <2>3
<1> QED
  BY <1>8, <1>11, <1>13, <1>14

(* The window becomes what the summary left of it.                         *)
LEMMA ReplaceStep ==
  ASSUME ConvInv, NEW t \in Turn, Replace(t)
  PROVE  ConvInv'
<1> USE DEF ConvInv, database, Goes
<1> DEFINE s == snap[t].items
           c == snap[t].cut
<1>1. /\ st[t] = "trim" /\ st' = [st EXCEPT ![t] = "think"]
      /\ summaries' = Trimmed(summaries) /\ window' = Kept(t)
      /\ snap' = [snap EXCEPT ![t] = NoSnap]
      /\ UNCHANGED <<up, used, kind, tracked, rows, status, overlapped, trusted, summarised,
                     cutoff>>
  BY DEF Replace
<1>2. /\ s \in Seq(Entry) /\ c \in 0..Len(s) /\ Items(s) /\ Sorted(s) /\ Holds(s, c)
      /\ DOMAIN s = 1..Len(s) /\ Len(s) \in Nat
  BY <1>1, LenProperties DEF Typed, Memory
<1>3. /\ window' \in Seq(Entry) /\ Len(window') = Len(s) - c
      /\ DOMAIN window' = 1..Len(s) - c
      /\ \A k \in 1..Len(s) - c : window'[k] = s[k + c] /\ k + c \in DOMAIN s
  <2>1. /\ Kept(t) \in Seq(Entry) /\ Len(Kept(t)) = Len(s) - c
        /\ \A k \in 1..Len(Kept(t)) : Kept(t)[k] = s[k + c]
    BY <1>2, ArchivedAndKept
  <2>2. DOMAIN Kept(t) = 1..Len(Kept(t))
    BY <2>1, LenProperties
  <2>3. \A k \in 1..Len(s) - c : k + c \in DOMAIN s
    BY <1>2
  <2> QED
    BY <1>1, <2>1, <2>2, <2>3
<1> HIDE DEF s, c
<1>4. PICK w : w = window'
  OBVIOUS
<1>5. w \in Seq(Entry) /\ Items(w) /\ Sorted(w)
  <2>1. Items(w)
    <3>1. ASSUME NEW k \in DOMAIN w
          PROVE  /\ st[w[k].turn] \in Late
                 /\ w[k].id # 0 => w[k].id \in DOMAIN rows /\ rows[w[k].id] = w[k].turn
      <4>1. w[k] = s[k + c] /\ k + c \in DOMAIN s
        BY <1>3, <1>4
      <4> QED
        BY <1>2, <4>1 DEF Items
    <3> QED
      BY <3>1 DEF Items
  <2>2. ASSUME NEW p \in DOMAIN w, NEW q \in DOMAIN w, NEW n \in DOMAIN rows,
               w[p].turn = rows[n], w[q].id > n,
               status[rows[n]] = "responded", rows[n] \notin overlapped
        PROVE  p < q
    <3>1. p + c \in DOMAIN s /\ q + c \in DOMAIN s /\ w[p] = s[p + c] /\ w[q] = s[q + c]
      BY <1>3, <1>4
    <3>2. p + c < q + c
      BY <1>2, <2>2, <3>1 DEF Sorted
    <3> QED
      BY <1>2, <1>3, <1>4, <3>2
  <2> QED
    BY <1>3, <1>4, <2>1, <2>2 DEF Sorted
<1>6. summaries' \in Seq(Nat)
      /\ \A k \in DOMAIN summaries' : \E j \in DOMAIN summaries : summaries'[k] = summaries[j]
  <2>1. summaries \in Seq(Nat)
    BY DEF Typed
  <2> QED
    BY <1>1, <2>1, TrimmedKeeps
<1>7. Typed'
  <2>1. NoSnap \in [items : Seq(Entry), cut : Nat]
    BY EmptySeq DEF NoSnap
  <2> QED
    BY <1>1, <1>3, <1>6, <2>1 DEF Typed, Replace, Place
<1>8. Placed(t) /\ Running(t) /\ Running(t)' /\ up
  BY <1>1 DEF Places, Placed, Running, Typed
<1>9. Placed(t)'
  BY <1>1, <1>8 DEF Placed, Early, Asking, Typed
<1>10. /\ Places' /\ Rows' /\ Apart'
       /\ \A r \in Seq(Entry) : Items(r) /\ Sorted(r) => Items(r)' /\ Sorted(r)'
  <2>1. \A u \in Turn \ {t} : st'[u] = st[u]
    BY <1>1
  <2>2. st' \in [Turn -> Place] /\ st[t] \notin Late
    BY <1>1, <1>7 DEF Typed, Late
  <2> QED
    BY <1>1, <1>8, <1>9, <2>1, <2>2, RunsOn
<1>11. \A u \in Turn : Done(u)' /\ u \notin Known' => Done(u) /\ u \notin Known
  BY <1>1 DEF Done, Known, Typed
<1>12. Memory'
  <2>1. Items(window)' /\ Sorted(window)'
    <3>1. Items(w)' /\ Sorted(w)'
      BY <1>5, <1>10
    <3> QED
      BY <1>4, <3>1 DEF Items, Sorted
  <2>2. (up => Holds(window, 0))'
    <3> SUFFICES ASSUME NEW u \in Turn, Done(u)', u \notin Known'
                 PROVE  \E k \in DOMAIN window' : k > 0 /\ window'[k].turn = u
      BY DEF Holds
    <3>1. PICK j \in DOMAIN s : j > c /\ s[j].turn = u
      BY <1>2, <1>11 DEF Holds
    <3>2. j - c \in 1..Len(s) - c /\ (j - c) + c = j
      BY <1>2, <3>1
    <3> QED
      BY <1>3, <3>1, <3>2
  <2>3. (\A u \in Turn : st[u] = "store" /\ u \notin overlapped
                           => \E k \in DOMAIN window : window[k].turn = u)'
    <3> SUFFICES ASSUME NEW u \in Turn, st'[u] = "store"
                 PROVE  u \in overlapped
      BY <1>1
    <3>1. u # t /\ Running(u)
      BY <1>1 DEF Typed, Running
    <3> QED
      BY <1>8, <3>1 DEF Apart
  <2>4. ASSUME NEW u \in Turn
        PROVE  (/\ Items(snap[u].items) /\ Sorted(snap[u].items)
                /\ snap[u].cut \in 0..Len(snap[u].items)
                /\ st[u] = "compact" => Holds(snap[u].items, 0)
                /\ st[u] = "trim" => Holds(snap[u].items, snap[u].cut))'
    <3>1. CASE u = t
      <4>1. snap'[u].items = <<>> /\ snap'[u].cut = 0 /\ st'[u] = "think"
        BY <1>1, <3>1 DEF Typed, NoSnap
      <4> QED
        BY <4>1 DEF Items, Sorted
    <3>2. CASE u # t
      <4>1. snap'[u] = snap[u] /\ st'[u] = st[u]
        BY <1>1, <3>2 DEF Typed
      <4>2. Items(snap[u].items)' /\ Sorted(snap[u].items)'
        <5>1. PICK r \in Seq(Entry) : r = snap[u].items /\ r = snap'[u].items
          BY <4>1 DEF Typed
        <5>2. Items(r)' /\ Sorted(r)'
          BY <1>10, <5>1 DEF Memory
        <5> QED
          BY <5>1, <5>2 DEF Items, Sorted
      <4>3. (st[u] = "compact" => Holds(snap[u].items, 0))'
        <5> SUFFICES ASSUME st[u] = "compact"
                     PROVE  Holds(snap[u].items, 0)'
          BY <4>1
        <5>1. Holds(snap[u].items, 0)
          BY DEF Memory
        <5> QED
          BY <1>11, <4>1, <5>1 DEF Holds
      <4>4. (st[u] = "trim" => Holds(snap[u].items, snap[u].cut))'
        <5> SUFFICES ASSUME st[u] = "trim"
                     PROVE  Holds(snap[u].items, snap[u].cut)'
          BY <4>1
        <5>1. Holds(snap[u].items, snap[u].cut)
          BY DEF Memory
        <5> QED
          BY <1>11, <4>1, <5>1 DEF Holds
      <4> QED
        BY <4>1, <4>2, <4>3, <4>4 DEF Memory
    <3> QED
      BY <3>1, <3>2
  <2> QED
    BY <2>1, <2>2, <2>3, <2>4 DEF Memory
<1>13. Claims'
  <2>1. \A n \in DOMAIN rows : st'[rows[n]] \in Asking => st[rows[n]] \in Asking
    BY <1>1 DEF Asking, Typed
  <2> SUFFICES ASSUME NEW k \in DOMAIN summaries'
               PROVE  /\ summaries'[k] <= Len(rows)
                      /\ \A n \in DOMAIN rows :
                           /\ st'[rows[n]] \in Asking /\ rows[n] \notin overlapped
                                => summaries'[k] < n
                           /\ n <= summaries'[k] /\ status[rows[n]] = "responded"
                                => rows[n] \in summarised \cup overlapped
    BY <1>1 DEF Claims
  <2>2. PICK j \in DOMAIN summaries : summaries'[k] = summaries[j]
    BY <1>6
  <2> QED
    BY <2>1, <2>2 DEF Claims
<1> QED
  BY <1>7, <1>10, <1>12, <1>13

-----------------------------------------------------------------------------
(* The process.                                                            *)
LEMMA CrashStep ==
  ASSUME ConvInv, Crash
  PROVE  ConvInv'
<1> USE DEF ConvInv, database
<1>1. /\ up' = FALSE
      /\ st' = [u \in Turn |-> IF st[u] = "none" THEN "none" ELSE "over"]
      /\ kind' = [u \in Turn |-> "none"]
      /\ for' = [u \in Turn |-> 0] /\ tracked' = 0 /\ pending' = FALSE
      /\ window' = <<>> /\ snap' = [u \in Turn |-> NoSnap]
      /\ UNCHANGED <<rows, status, summaries, used, trusted, summarised, overlapped, cutoff>>
  BY DEF Crash
<1>2. \A n \in DOMAIN rows : rows[n] \in Turn
  BY LenProperties, ElementOfSeq DEF Typed
<1>3. \A u \in Turn : u # 0 /\ st'[u] \in {"none", "over"} /\ ~ Running(u)'
  BY <1>1 DEF Turn, Running
<1>4. Typed'
  <2>1. NoSnap \in [items : Seq(Entry), cut : Nat] /\ <<>> \in Seq(Entry)
    BY EmptySeq DEF NoSnap
  <2>2. /\ st' \in [Turn -> Place] /\ snap' \in [Turn -> [items : Seq(Entry), cut : Nat]]
        /\ window' \in Seq(Entry)
    BY <1>1, <2>1 DEF Place
  <2>3. kind' \in [Turn -> {"none", "chat", "schedule", "beat"}] /\ 0 \in 0..MaxTurn
    BY <1>1, ConversationAssumption
  <2>4. for' \in [Turn -> 0..MaxTurn] /\ tracked' \in 0..MaxTurn
    BY <1>1, <2>3
  <2> QED
    BY <1>1, <2>2, <2>3, <2>4 DEF Typed
<1>5. Places'
  <2> SUFFICES ASSUME NEW u \in Turn
               PROVE  Placed(u)'
    BY DEF Places
  <2>1. Placed(u)
    BY DEF Places
  <2> QED
    BY <1>1, <1>3, <2>1 DEF Placed, Early, Asking
<1>6. Rows'
  BY <1>1 DEF Rows
<1>7. Apart'
  BY <1>1, <1>2, <1>3 DEF Apart
<1>8. Memory'
  <2>1. DOMAIN window' = {} /\ ~ up'
    BY <1>1
  <2>2. Items(window)' /\ Sorted(window)'
    BY <2>1 DEF Items, Sorted
  <2>3. ASSUME NEW u \in Turn
        PROVE  (/\ Items(snap[u].items) /\ Sorted(snap[u].items)
                /\ snap[u].cut \in 0..Len(snap[u].items)
                /\ st[u] = "compact" => Holds(snap[u].items, 0)
                /\ st[u] = "trim" => Holds(snap[u].items, snap[u].cut))'
    <3>1. snap'[u].items = <<>> /\ snap'[u].cut = 0
      BY <1>1 DEF NoSnap
    <3> QED
      BY <1>3, <3>1 DEF Items, Sorted
  <2> QED
    BY <1>3, <2>1, <2>2, <2>3 DEF Memory
<1>9. Claims'
  <2>1. \A n \in DOMAIN rows : st'[rows[n]] \notin Asking
    BY <1>2, <1>3 DEF Asking
  <2> QED
    BY <1>1, <2>1 DEF Claims
<1> QED
  BY <1>4, <1>5, <1>6, <1>7, <1>8, <1>9

(* The newest summary that claims rows claims truly, as they all do.       *)
LEMMA BoundaryIsTrue ==
  ConvInv => ClaimedIsSummarised
<1> SUFFICES ASSUME ConvInv, NEW n \in DOMAIN rows, n <= Boundary,
                    status[rows[n]] = "responded"
             PROVE  rows[n] \in summarised \cup overlapped
  BY DEF ClaimedIsSummarised
<1> USE DEF ConvInv
<1>1. Len(rows) \in Nat /\ DOMAIN rows = 1..Len(rows)
  BY LenProperties DEF Typed
<1>2. /\ DOMAIN summaries = 1..Len(summaries)
      /\ \A k \in 1..Len(summaries) : summaries[k] \in Nat
  BY LenProperties, ElementOfSeq DEF Typed
<1>3. ToSet(summaries) \in SUBSET (0..Len(rows))
  BY <1>1, <1>2 DEF Claims, ToSet
<1>4. CASE ToSet(summaries) = {}
  <2>1. Boundary = 0
    BY <1>4 DEF Boundary, Largest
  <2> QED
    BY <1>1, <2>1
<1>5. CASE ToSet(summaries) # {}
  <2>1. Boundary \in ToSet(summaries)
    BY <1>1, <1>3, <1>5, LargestIsOne DEF Boundary
  <2>2. PICK k \in DOMAIN summaries : Boundary = summaries[k]
    BY <2>1 DEF ToSet
  <2> QED
    BY <2>2 DEF Claims
<1> QED
  BY <1>4, <1>5

(* Startup puts back what no summary claims, or knows that it did not.     *)
LEMMA StartupStep ==
  ASSUME ConvInv, Startup
  PROVE  ConvInv'
<1> USE DEF ConvInv, scheduler
<1>1. /\ ~ up /\ up' = TRUE /\ window' \in InOrder(Restored)
      /\ trusted' = (Restored = Restorable)
      /\ cutoff' = cutoff \cup {rows[n] : n \in Restorable \ Restored}
      /\ UNCHANGED <<rows, status, summaries, pending, used, kind, st, for, tracked, snap,
                     summarised, overlapped>>
  BY DEF Startup
<1>2. /\ DOMAIN rows = 1..Len(rows) /\ Len(rows) \in Nat
      /\ \A n \in DOMAIN rows : rows[n] \in Turn
  BY LenProperties, ElementOfSeq DEF Typed
<1>3. /\ Restored \subseteq Restorable /\ Restorable \subseteq DOMAIN rows
      /\ \A n \in Restorable : status[rows[n]] = "responded"
  BY DEF Restored, Restorable
<1>4. \A u \in Turn : /\ st[u] \in {"none", "over"} /\ ~ Running(u)
                      /\ status[u] = "responded" => st[u] = "over"
  BY <1>1 DEF Places, Placed, Running, Early
<1>5. /\ \A k \in DOMAIN window' : /\ window'[k].id \in Restored
                                   /\ window'[k].turn = rows[window'[k].id]
      /\ \A i, j \in DOMAIN window' : i < j => window'[i].id < window'[j].id
      /\ \A n \in Restored : \E i \in DOMAIN window' : window'[i].id = n
  BY <1>1 DEF InOrder
<1>6. window' \in Seq(Entry) /\ DOMAIN window' = 1..Len(window') /\ Len(window') \in Nat
  <2>1. IsFiniteSet(Restored)
    <3>1. 1 \in Int /\ Len(rows) \in Int
      BY <1>2
    <3>2. IsFiniteSet(1..Len(rows))
      BY <3>1, FS_Interval
    <3> QED
      BY <1>2, <1>3, <3>2, FS_Subset
  <2>2. Cardinality(Restored) \in Nat
    BY <2>1, FS_CardinalityType
  <2>3. {[turn |-> rows[n], id |-> n] : n \in Restored} \subseteq Entry
    BY <1>2, <1>3 DEF Entry
  <2>4. window' \in [1..Cardinality(Restored) -> Entry]
    BY <1>1, <2>3 DEF InOrder
  <2>5. window' \in Seq(Entry)
    BY <2>2, <2>4, SeqDef
  <2> QED
    BY <2>5, LenProperties
<1>7. Typed'
  <2>1. cutoff' \subseteq Turn
    BY <1>1, <1>2, <1>3 DEF Typed
  <2> QED
    BY <1>1, <1>6, <2>1 DEF Typed
<1>8. Places'
  BY <1>1 DEF Places, Placed
<1>9. Rows'
  BY <1>1 DEF Rows
<1>10. Apart'
  BY <1>1, <1>2, <1>4 DEF Apart, Running
<1>11. Memory'
  <2>1. Items(window)'
    <3> SUFFICES ASSUME NEW k \in DOMAIN window'
                 PROVE  /\ st[window'[k].turn] \in Late
                        /\ window'[k].id \in DOMAIN rows
                        /\ rows[window'[k].id] = window'[k].turn
      BY <1>1 DEF Items
    <3> QED
      BY <1>2, <1>3, <1>4, <1>5 DEF Late
  <2>2. Sorted(window)'
    <3> SUFFICES ASSUME NEW p \in DOMAIN window', NEW q \in DOMAIN window',
                        NEW n \in DOMAIN rows, window'[p].turn = rows[n], window'[q].id > n
                 PROVE  p < q
      BY <1>1 DEF Sorted
    <3>1. window'[p].id = n
      BY <1>3, <1>5 DEF Rows
    <3>2. window'[p].id \in Nat /\ window'[q].id \in Nat /\ p \in Nat /\ q \in Nat
      BY <1>2, <1>3, <1>5, <1>6
    <3>3. p # q /\ ~ (q < p)
      BY <1>5, <3>1, <3>2
    <3> QED
      BY <3>2, <3>3
  <2>3. (up => Holds(window, 0))'
    <3> SUFFICES ASSUME NEW u \in Turn, Done(u)', u \notin Known'
                 PROVE  \E k \in DOMAIN window' : k > 0 /\ window'[k].turn = u
      BY DEF Holds
    <3>1. status[u] = "responded" /\ u \notin summarised \cup overlapped
      BY <1>1 DEF Done, Known
    <3>2. PICK n \in DOMAIN rows : rows[n] = u
      BY <3>1 DEF Rows
    <3>3. ~ (n <= Boundary)
      BY <3>1, <3>2, BoundaryIsTrue DEF ClaimedIsSummarised
    <3>4. Boundary \in Nat
      <4>1. summaries \in Seq(Nat) /\ DOMAIN summaries = 1..Len(summaries)
            /\ \A k \in 1..Len(summaries) : summaries[k] \in Nat
        BY LenProperties, ElementOfSeq DEF Typed
      <4>2. ToSet(summaries) \in SUBSET (0..Len(rows))
        BY <1>2, <4>1 DEF Claims, ToSet
      <4>3. CASE ToSet(summaries) = {}
        BY <4>3 DEF Boundary, Largest
      <4>4. CASE ToSet(summaries) # {}
        <5>1. Boundary \in ToSet(summaries)
          BY <1>2, <4>2, <4>4, LargestIsOne DEF Boundary
        <5> QED
          BY <4>2, <5>1
      <4> QED
        BY <4>3, <4>4
    <3>5. n \in Restorable
      BY <1>2, <3>1, <3>2, <3>3, <3>4 DEF Restorable
    <3>6. n \in Restored
      BY <1>1, <3>2, <3>5 DEF Known
    <3>7. PICK i \in DOMAIN window' : window'[i].id = n
      BY <1>5, <3>6
    <3> QED
      BY <1>5, <1>6, <3>2, <3>7
  <2>4. (\A u \in Turn : st[u] = "store" /\ u \notin overlapped
                           => \E k \in DOMAIN window : window[k].turn = u)'
    BY <1>1, <1>4
  <2>5. ASSUME NEW u \in Turn
        PROVE  (/\ Items(snap[u].items) /\ Sorted(snap[u].items)
                /\ snap[u].cut \in 0..Len(snap[u].items)
                /\ st[u] = "compact" => Holds(snap[u].items, 0)
                /\ st[u] = "trim" => Holds(snap[u].items, snap[u].cut))'
    <3>1. Items(snap[u].items)' /\ Sorted(snap[u].items)'
      BY <1>1 DEF Memory, Items, Sorted
    <3>2. st'[u] \in {"none", "over"}
      BY <1>1, <1>4
    <3> QED
      BY <1>1, <3>1, <3>2 DEF Memory
  <2> QED
    BY <2>1, <2>2, <2>3, <2>4, <2>5 DEF Memory
<1>12. Claims'
  BY <1>1 DEF Claims
<1> QED
  BY <1>7, <1>8, <1>9, <1>10, <1>11, <1>12

-----------------------------------------------------------------------------
(* The invariant.                                                          *)
LEMMA ConvInit == Init => ConvInv
<1> SUFFICES ASSUME Init
             PROVE  ConvInv
  OBVIOUS
<1> USE DEF Init
<1>1. /\ DOMAIN rows = {} /\ DOMAIN window = {} /\ DOMAIN summaries = {}
      /\ \A u \in Turn : DOMAIN snap[u].items = {} /\ snap[u].cut = 0 /\ Len(snap[u].items) = 0
  BY DEF NoSnap
<1>2. Typed
  <2>1. NoSnap \in [items : Seq(Entry), cut : Nat] /\ <<>> \in Seq(Entry)
    BY EmptySeq DEF NoSnap
  <2>2. <<>> \in Seq(Turn) /\ <<>> \in Seq(Nat) /\ 0 \in 0..MaxTurn
    BY EmptySeq, ConversationAssumption
  <2>3. st \in [Turn -> Place] /\ kind \in [Turn -> {"none", "chat", "schedule", "beat"}]
    BY DEF Place
  <2> QED
    BY <2>1, <2>2, <2>3 DEF Typed
<1>3. Places
  BY DEF Places, Placed, Early, Asking, Turn
<1>4. Rows
  BY <1>1 DEF Rows
<1>5. Apart
  BY <1>1 DEF Apart, Running
<1>6. Memory
  <2>1. \A few : Holds(window, few)
    BY DEF Holds, Done
  <2> QED
    BY <1>1, <2>1 DEF Memory, Items, Sorted
<1>7. Claims
  BY <1>1 DEF Claims
<1> QED
  BY <1>2, <1>3, <1>4, <1>5, <1>6, <1>7 DEF ConvInv

LEMMA ConvNext == ConvInv /\ [Next]_vars => ConvInv'
<1> SUFFICES ASSUME ConvInv, [Next]_vars
             PROVE  ConvInv'
  OBVIOUS
<1>1. CASE Dispatch
  BY <1>1, DispatchStep
<1>2. ASSUME NEW t \in Turn, Step(t)
      PROVE  ConvInv'
  <2>1. CASE Save(t)
    BY <2>1, RowStep
  <2>2. CASE Compact(t)
    BY <2>2, CompactStep
  <2>3. CASE Summarise(t)
    BY <2>3, SummariseStep
  <2>4. CASE Replace(t)
    BY <2>4, ReplaceStep
  <2>5. CASE Remember(t)
    BY <2>5, RememberStep
  <2>6. CASE Stored(t)
    BY <2>6, RowStep, PlainStep
  <2>7. CASE Start(t) \/ SummaryFails(t) \/ Schedule(t) \/ Keep(t) \/ GiveUp(t) \/ Archive(t)
             \/ Undo(t)
    BY <2>7, PlainStep
  <2> QED
    BY <1>2, <2>1, <2>2, <2>3, <2>4, <2>5, <2>6, <2>7 DEF Step
<1>3. CASE Crash
  BY <1>3, CrashStep
<1>4. CASE Startup
  BY <1>4, StartupStep
<1>5. CASE UNCHANGED vars
  BY <1>5 DEF vars, ConvInv, Typed, Places, Placed, Rows, Apart, Running, Memory, Items, Sorted,
              Holds, Done, Known, Claims
<1> QED
  BY <1>1, <1>2, <1>3, <1>4, <1>5 DEF Next

-----------------------------------------------------------------------------
(* The types.                                                              *)

(* A turn is in a window once.                                             *)
Once(s) == \A p, q \in DOMAIN s : s[p].turn = s[q].turn => p = q

Counted ==
  /\ crashes \in 0..MaxCrash
  /\ task \in {"none", "pending", "running", "done"}
  /\ Once(window) /\ \A t \in Turn : Once(snap[t].items)

(* There are no more rows than turns.                                      *)
LEMMA RowsAreFew ==
  ASSUME Typed, Rows
  PROVE  Len(rows) \in 0..MaxTurn
<1>1. MaxTurn \in Nat /\ Len(rows) \in Nat /\ DOMAIN rows = 1..Len(rows)
      /\ rows \in [1..Len(rows) -> Turn]
  BY ConversationAssumption, LenProperties DEF Typed
<1>2. /\ IsFiniteSet(1..MaxTurn) /\ Cardinality(1..MaxTurn) = MaxTurn
      /\ IsFiniteSet(1..Len(rows)) /\ Cardinality(1..Len(rows)) = Len(rows)
  <2>1. 1 \in Int /\ MaxTurn \in Int /\ Len(rows) \in Int
    BY <1>1
  <2>2. /\ IsFiniteSet(1..MaxTurn)
        /\ Cardinality(1..MaxTurn) = IF 1 > MaxTurn THEN 0 ELSE MaxTurn - 1 + 1
    BY <2>1, FS_Interval
  <2>3. /\ IsFiniteSet(1..Len(rows))
        /\ Cardinality(1..Len(rows)) = IF 1 > Len(rows) THEN 0 ELSE Len(rows) - 1 + 1
    BY <2>1, FS_Interval
  <2> QED
    BY <1>1, <2>2, <2>3
<1>3. \A m, n \in 1..Len(rows) : rows[m] = rows[n] => m = n
  BY <1>1 DEF Rows
<1>4. ~ (MaxTurn < Len(rows))
  BY <1>1, <1>2, <1>3, FS_PigeonHole DEF Turn
<1> QED
  BY <1>1, <1>4

LEMMA CountedNext ==
  ASSUME ConvInv, Counted, [Next]_vars
  PROVE  Counted'
<1> USE DEF ConvInv
<1>1. CASE Dispatch
  <2>1. UNCHANGED <<crashes, window, snap>> /\ task' \in {task, "running"}
    BY <1>1 DEF Dispatch, Text, Expire, Image, Fire, Heartbeat, Resume, database
  <2> QED
    BY <2>1 DEF Counted, Once
<1>2. ASSUME NEW t \in Turn, Step(t)
      PROVE  Counted'
  <2>1. /\ \A u \in Turn : /\ snap[u].items \in Seq(Entry)
                           /\ snap[u].cut \in 0..Len(snap[u].items)
                           /\ Len(snap[u].items) \in Nat
                           /\ DOMAIN snap[u].items = 1..Len(snap[u].items)
        /\ DOMAIN window = 1..Len(window) /\ Len(window) \in Nat
    BY LenProperties DEF Typed, Memory
  <2>2. Once(NoSnap.items)
    BY DEF Once, NoSnap
  <2>3. snap \in [Turn -> [items : Seq(Entry), cut : Nat]]
    BY DEF Typed
  <2>4. CASE Compact(t)
    <3>1. /\ UNCHANGED <<crashes, task, window>>
          /\ \E n \in 1..Len(window) - 1 :
               snap' = [snap EXCEPT ![t] = [items |-> window, cut |-> n]]
      BY <2>4 DEF Compact, database
    <3>2. \A u \in Turn : snap'[u].items \in {snap[u].items, window}
      BY <2>3, <3>1
    <3> QED
      BY <3>1, <3>2 DEF Counted, Once
  <2>5. CASE SummaryFails(t) \/ Undo(t)
    <3>1. /\ UNCHANGED <<crashes, task, window>>
          /\ snap' = [snap EXCEPT ![t] = NoSnap]
      BY <2>5 DEF SummaryFails, Undo, database
    <3>2. \A u \in Turn : snap'[u].items \in {snap[u].items, NoSnap.items}
      BY <2>3, <3>1
    <3> QED
      BY <2>2, <3>1, <3>2 DEF Counted, Once
  <2>6. CASE Replace(t)
    <3>1. /\ UNCHANGED <<crashes, task>> /\ window' = Kept(t)
          /\ snap' = [snap EXCEPT ![t] = NoSnap]
      BY <2>6 DEF Replace
    <3>2. \A u \in Turn : snap'[u].items \in {snap[u].items, NoSnap.items}
      BY <2>3, <3>1
    <3>3. Once(Kept(t))
      <4>1. /\ Kept(t) \in Seq(Entry)
            /\ Len(Kept(t)) = Len(snap[t].items) - snap[t].cut
            /\ \A k \in 1..Len(Kept(t)) : Kept(t)[k] = snap[t].items[k + snap[t].cut]
        BY <2>1, ArchivedAndKept
      <4>2. DOMAIN Kept(t) = 1..Len(Kept(t))
        BY <4>1, LenProperties
      <4>3. \A k \in DOMAIN Kept(t) : k + snap[t].cut \in DOMAIN snap[t].items
        BY <2>1, <4>1, <4>2
      <4> SUFFICES ASSUME NEW p \in DOMAIN Kept(t), NEW q \in DOMAIN Kept(t),
                          Kept(t)[p].turn = Kept(t)[q].turn
                   PROVE  p = q
        BY DEF Once
      <4>4. p + snap[t].cut = q + snap[t].cut
        BY <4>1, <4>2, <4>3 DEF Counted, Once
      <4> QED
        BY <2>1, <4>1, <4>2, <4>4
    <3>4. Once(window)'
      BY <3>1, <3>3 DEF Once
    <3> QED
      BY <2>2, <3>1, <3>2, <3>4 DEF Counted, Once
  <2>7. CASE Remember(t)
    <3>1. /\ UNCHANGED <<crashes, task, snap>> /\ st[t] = "kept"
          /\ window' = Append(window, [turn |-> t, id |-> IdOf(t)])
      BY <2>7 DEF Remember, Goes, database
    <3>2. \A k \in DOMAIN window : window[k].turn # t
      BY <3>1 DEF Memory, Items, Late
    <3>3. window \in Seq(Entry)
      BY DEF Typed
    <3>4. PICK e : e = [turn |-> t, id |-> IdOf(t)]
      OBVIOUS
    <3>5. window' = Append(window, e) /\ e.turn = t
      BY <3>1, <3>4
    <3>6. /\ DOMAIN window' = 1..Len(window) + 1
          /\ window'[Len(window) + 1] = e
          /\ \A k \in 1..Len(window) : window'[k] = window[k]
      BY <2>1, <3>3, <3>5
    <3>7. Once(window)'
      <4> SUFFICES ASSUME NEW p \in 1..Len(window) + 1, NEW q \in 1..Len(window) + 1,
                          window'[p].turn = window'[q].turn
                   PROVE  p = q
        BY <3>6 DEF Once
      <4>1. p \in 1..Len(window) \/ p = Len(window) + 1
        BY <2>1
      <4>2. q \in 1..Len(window) \/ q = Len(window) + 1
        BY <2>1
      <4> QED
        BY <2>1, <3>2, <3>5, <3>6, <4>1, <4>2 DEF Counted, Once
    <3> QED
      BY <3>1, <3>7 DEF Counted, Once
  <2>8. CASE \/ Start(t) \/ Save(t) \/ Summarise(t) \/ Schedule(t) \/ Keep(t) \/ Stored(t)
             \/ GiveUp(t) \/ Archive(t)
    <3>1. UNCHANGED <<crashes, window, snap>> /\ task' \in {task, "pending", "done"}
      BY <2>8 DEF Start, Save, Summarise, Schedule, Keep, Stored, GiveUp, Archive, database
    <3> QED
      BY <3>1 DEF Counted, Once
  <2> QED
    BY <1>2, <2>4, <2>5, <2>6, <2>7, <2>8 DEF Step
<1>3. CASE Crash
  <2>1. /\ crashes < MaxCrash /\ crashes' = crashes + 1 /\ UNCHANGED task
        /\ window' = <<>> /\ snap' = [t \in Turn |-> NoSnap]
    BY <1>3 DEF Crash, database
  <2>2. crashes' \in 0..MaxCrash
    BY <2>1, ConversationAssumption DEF Counted
  <2>3. Once(<<>>)
    BY DEF Once
  <2> QED
    BY <2>1, <2>2, <2>3 DEF Counted, Once, NoSnap
<1>4. CASE Startup
  <2>1. /\ UNCHANGED <<crashes, snap>> /\ task' \in {task, "pending"}
        /\ window' \in InOrder(Restored)
    BY <1>4 DEF Startup
  <2>2. Restored \subseteq DOMAIN rows
    BY DEF Restored, Restorable
  <2>3. /\ \A k \in DOMAIN window' : /\ window'[k].id \in Restored
                                     /\ window'[k].turn = rows[window'[k].id]
        /\ \A i, j \in DOMAIN window' : i < j => window'[i].id < window'[j].id
        /\ DOMAIN window' \subseteq Int
    BY <2>1 DEF InOrder
  <2>4. ASSUME NEW p \in DOMAIN window', NEW q \in DOMAIN window',
               window'[p].turn = window'[q].turn
        PROVE  p = q
    <3>1. window'[p].id = window'[q].id /\ window'[p].id \in DOMAIN rows
      BY <2>2, <2>3, <2>4 DEF Rows
    <3>2. window'[p].id \in Nat
      BY <3>1, LenProperties DEF Typed
    <3> QED
      BY <2>3, <3>1, <3>2
  <2> QED
    BY <2>1, <2>4 DEF Counted, Once
<1>5. CASE UNCHANGED vars
  BY <1>5 DEF vars, Counted, Once
<1> QED
  BY <1>1, <1>2, <1>3, <1>4, <1>5 DEF Next

LEMMA CountedTypes == ConvInv /\ Counted => TypeOK
<1> SUFFICES ASSUME ConvInv, Counted
             PROVE  TypeOK
  OBVIOUS
<1> USE DEF ConvInv
<1>1. Len(rows) \in 0..MaxTurn /\ DOMAIN rows = 1..Len(rows) /\ MaxTurn \in Nat
  BY RowsAreFew, LenProperties, ConversationAssumption DEF Typed
<1>2. ASSUME NEW s \in Seq(Entry), Items(s)
      PROVE  s \in Seq(Item)
  <2>1. /\ Len(s) \in Nat /\ DOMAIN s = 1..Len(s) /\ s \in [1..Len(s) -> Entry]
    BY LenProperties
  <2>2. ASSUME NEW k \in 1..Len(s)
        PROVE  s[k] \in Item
    <3>1. s[k].id \in Nat /\ s[k] \in Entry
      BY <2>1 DEF Entry
    <3>2. s[k].id # 0 => s[k].id \in 1..Len(rows)
      BY <1>1, <1>2, <2>1 DEF Items
    <3>3. s[k].id \in 0..MaxTurn
      BY <1>1, <3>1, <3>2
    <3> QED
      BY <3>1, <3>3 DEF Entry, Item
  <2>3. s \in [1..Len(s) -> Item]
    BY <2>1, <2>2
  <2> QED
    BY <2>1, <2>3, SeqDef
<1>3. IsInjective(rows)
  BY DEF Rows, IsInjective
<1>4. \A t \in Turn : status[t] # "none" <=> t \in ToSet(rows)
  BY DEF Rows, ToSet
<1>5. summaries \in Seq(0..Len(rows))
  <2>1. summaries \in [1..Len(summaries) -> Nat] /\ Len(summaries) \in Nat
    BY LenProperties DEF Typed
  <2>2. \A k \in 1..Len(summaries) : summaries[k] \in 0..Len(rows)
    BY <1>1, <2>1 DEF Claims
  <2>3. summaries \in [1..Len(summaries) -> 0..Len(rows)]
    BY <2>1, <2>2
  <2> QED
    BY <2>1, <2>3, SeqDef
<1>6. window \in Seq(Item)
  BY <1>2 DEF Typed, Memory
<1>7. IsInjective([n \in DOMAIN window |-> window[n].turn])
  BY DEF IsInjective, Counted, Once
<1>8. snap \in [Turn -> [items : Seq(Item), cut : Nat]]
  <2>1. \A t \in Turn : snap[t].items \in Seq(Item)
    BY <1>2 DEF Typed, Memory
  <2> QED
    BY <2>1 DEF Typed
<1>9. OfRows(window) /\ \A t \in Turn : OfRows(snap[t].items)
  BY DEF Memory, Items, OfRows
<1> QED
  BY <1>3, <1>4, <1>5, <1>6, <1>7, <1>8, <1>9 DEF TypeOK, Typed, Counted, Place

-----------------------------------------------------------------------------
(* The theorems.                                                           *)

(* Every state of a conversation satisfies the invariant: windows have, in *)
(* the order of their rows, the answered turns no summary tells of, over   *)
(* cancellations, compactions that are cut short, crashes and restarts.    *)
THEOREM ConversationInvariant == Spec => []ConvInv
<1> QED
  BY ConvInit, ConvNext, PTL DEF Spec

(* What startup skips as covered (get_newest_compaction_summary,           *)
(* get_restorable_messages) is in a summary, or is of a turn that          *)
(* overlapped another.                                                     *)
THEOREM SummariesClaimTruly == Spec => []ClaimedIsSummarised
<1> QED
  BY ConversationInvariant, BoundaryIsTrue, PTL

(* While the process runs, an answered turn that is over is in the window, *)
(* in a summary, left out by the limit of startup, or overlapped another:  *)
(* a compaction that fails or is cancelled loses none.                     *)
THEOREM NoneIsForgotten == Spec => []NothingForgotten
<1>1. ConvInv => NothingForgotten
  <2> SUFFICES ASSUME ConvInv, up, NEW t \in Turn, st[t] = "over", status[t] = "responded",
                      t \notin summarised \cup cutoff \cup overlapped
               PROVE  \E item \in ToSet(window) : item.turn = t
    BY DEF NothingForgotten
  <2>1. Done(t) /\ t \notin Known
    BY DEF Done, Known
  <2>2. PICK k \in DOMAIN window : window[k].turn = t
    BY <2>1 DEF ConvInv, Memory, Holds
  <2> QED
    BY <2>2 DEF ToSet
<1> QED
  BY <1>1, ConversationInvariant, PTL

(* The types: a turn has one row and one place in the window at most; an   *)
(* item of a window or of a compaction's snapshot has the id of the row of *)
(* its turn, or none, and no summary names a row that is not there.        *)
THEOREM TypeCorrect == Spec => []TypeOK
<1>1. Init => Counted
  <2> SUFFICES ASSUME Init
               PROVE  Counted
    OBVIOUS
  <2> QED
    BY ConversationAssumption DEF Init, Counted, Once, NoSnap
<1>2. ConvInv /\ Counted /\ [Next]_vars => Counted'
  BY CountedNext
<1> QED
  BY ConvInit, ConvNext, CountedTypes, <1>1, <1>2, PTL DEF Spec
=============================================================================
