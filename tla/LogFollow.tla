------------------------------- MODULE LogFollow -------------------------------
(***************************************************************************)
(* The MCP server's follow tools (micromux-mcp lib.rs, tools/logs.rs,      *)
(* tools/events.rs, logproc.rs) over the pages that the control server     *)
(* serves (server/unix.rs).  A caller holds one cursor per service and     *)
(* hands back what each answer gives it; the services go on writing,       *)
(* dropping and replacing records while a call collects its pages one      *)
(* request at a time.                                                      *)
(*                                                                         *)
(* A record is the number of entries it shapes into under the caller's     *)
(* filter (none, one, or several when it embeds JSON objects) and its      *)
(* clock.  With Kind = "events" the records are lifecycle events, one      *)
(* entry each.                                                             *)
(***************************************************************************)
EXTENDS Naturals, Sequences, FiniteSets, SequencesExt

CONSTANTS
  Kind,        \* "logs" or "events"
  Services,
  Records,     \* what may be written: [marks: entries it shapes into, at: clock]
  Retained,    \* records that the ring keeps
  PageMax,     \* MAX_LOG_TAIL, or less when the page is full of bytes
  Limit,       \* merged entries per answer
  MaxRecords,  \* bound: records of all services
  MaxChanges   \* bound: clears, replacements, evictions and insertions

\* Assumed by the modules that instantiate this one.
LogFollowAssumption ==
  /\ Kind \in {"logs", "events"}
  /\ \A r \in Records : r.marks \in Nat /\ r.at \in Nat
  /\ {Retained, PageMax, Limit} \subseteq Nat \ {0}
  /\ Kind = "events" => \A r \in Records : r.marks = 1

VARIABLES
  roster,   \* services that ListServices names
  records,  \* every record of each service, by its seq: [marks, at]
  first,    \* the first seq that the service still holds
  after,    \* the caller's cursors, a function on some of the services
  call,     \* the call in progress: [tool, todo, pages]
  seen,     \* history, per service with a cursor: [from: where following
            \*  began, given: the entries answered since, told: seqs that a gap
            \*  reported, missed: seqs gone before a wait read them,
            \*  late: seqs rewritten after they were read,
            \*  reused: the id was inserted anew under the cursor]
  changes   \* bound

vars == <<roster, records, first, after, call, seen, changes>>

Idle == [tool |-> "idle", todo |-> {}, pages |-> <<>>]
Fresh(cursor) ==
  [from |-> cursor, given |-> <<>>, told |-> {}, missed |-> {}, late |-> {},
   reused |-> FALSE]

-----------------------------------------------------------------------------
(* The server's side: runs of seqs, as [lo, hi]. *)

Newest(s) == Len(records[s])
IsEmpty(s) == first[s] > Newest(s)

\* follow_logs after a cursor: the oldest records, as many as fit.
PagesAfter(s, cursor) ==
  LET lo == Max({first[s], cursor + 1})
  IN  {[lo |-> lo, hi |-> Min({Newest(s), lo + n - 1})] : n \in 1..PageMax}

\* follow_logs without a cursor: the newest records, as many as fit.
TailPages(s) ==
  {[lo |-> Max({first[s], Newest(s) + 1 - n}), hi |-> Newest(s)] : n \in 1..PageMax}

\* What the service no longer holds of the records after a cursor: follow_gap,
\* and for events the reason of `truncated`.
LostAfter(s, cursor) == IF IsEmpty(s) THEN {} ELSE (cursor + 1)..(first[s] - 1)

-----------------------------------------------------------------------------
(* logproc: shaping, merging and cutting. *)

\* shape: the entries of the records from lo to hi, in order.
Shaped(s, lo, hi) ==
  FlattenSeq([i \in 1..Max({0, hi + 1 - lo}) |->
    [part \in 1..records[s][lo + i - 1].marks |->
      [service |-> s, seq |-> lo + i - 1, part |-> part,
       at |-> records[s][lo + i - 1].at]]])

SameRecord(d, e) == d.service = e.service /\ d.seq = e.seq

\* One round of merge_preserving_service_order: the head with the least clock
\* goes first, with what else its record shaped into.
TakeBlock(m) ==
  LET waiting == {s \in DOMAIN m.queues : m.queues[s] # <<>>}
  IN  IF waiting = {} THEN m
      ELSE LET s == CHOOSE s \in waiting :
                      \A r \in waiting : m.queues[s][1].at <= m.queues[r][1].at
               IsBlock(e) == SameRecord(e, m.queues[s][1])
           IN  [queues |-> [m.queues EXCEPT ![s] = SelectSeq(@, LAMBDA e : ~IsBlock(e))],
                out |-> m.out \o SelectSeq(m.queues[s], IsBlock)]

MergePreservingServiceOrder(queues) ==
  FoldLeft(LAMBDA m, i : TakeBlock(m), [queues |-> queues, out |-> <<>>],
           [i \in 1..(Cardinality(DOMAIN queues) * PageMax) |-> i]).out

\* Mutant: a record may be cut in two.
CutAnywhere(entries) == SubSeq(entries, 1, Min({Limit, Len(entries)}))

\* truncate_preserving_record_boundaries.
TruncatePreserving(entries) ==
  IF Len(entries) <= Limit THEN entries
  ELSE SubSeq(entries, 1, Max({n \in Limit..Len(entries) :
         \A i \in Limit..n : SameRecord(entries[i], entries[Limit])}))

\* tail_preserving_record_boundaries.
TailPreserving(entries) ==
  IF Len(entries) <= Limit THEN entries
  ELSE LET kept == Len(entries) - Limit + 1
       IN  SubSeq(entries, Min({n \in 1..kept :
             \A i \in n..kept : SameRecord(entries[i], entries[kept])}), Len(entries))

SeqsOf(entries, s) == {e.seq : e \in {e \in ToSet(entries) : e.service = s}}

\* merge_follow_pages, merge_service_events: the cursor that an answer hands out.
NextCursor(s, page, kept, cut) ==
  IF ~cut \/ page.entries = <<>> THEN page.next
  ELSE IF SeqsOf(kept, s) # {} THEN Max(SeqsOf(kept, s)) ELSE page.after

-----------------------------------------------------------------------------
(* The services. *)

\* What the caller, or a call in progress, has already read of a service.
HasRead(s, q) ==
  \/ s \in DOMAIN after /\ q <= after[s]
  \/ s \in DOMAIN call.pages /\ q <= call.pages[s].next

Write(s, record) ==
  /\ s \in roster
  /\ FoldFunction(LAMBDA log, n : Len(log) + n, 0, records) < MaxRecords
  /\ records' = [records EXCEPT ![s] = Append(@, record)]
  /\ first' = [first EXCEPT ![s] = Max({@, Newest(s) + 2 - Retained})]
  /\ UNCHANGED <<roster, after, call, seen, changes>>

Change == changes < MaxChanges /\ changes' = changes + 1

\* A live screen rewrites its last record in place, under the same seq.
Rewrite(s, record) ==
  /\ Change /\ Kind = "logs" /\ s \in roster /\ ~IsEmpty(s)
  /\ records' = [records EXCEPT ![s][Newest(s)] = record]
  /\ seen' = IF HasRead(s, Newest(s))
               THEN [seen EXCEPT ![s].late = @ \cup {Newest(s)}] ELSE seen
  /\ UNCHANGED <<roster, first, after, call>>

\* A run begins with a cleared log.
Clear(s) ==
  /\ Change /\ Kind = "logs" /\ s \in roster /\ ~IsEmpty(s)
  /\ first' = [first EXCEPT ![s] = Newest(s) + 1]
  /\ UNCHANGED <<roster, records, after, call, seen>>

Evict(s) ==
  /\ s \in roster /\ changes < MaxChanges
  /\ roster' = roster \ {s}
  /\ UNCHANGED <<records, first, after, call, seen, changes>>

\* An id is inserted, again perhaps: its seqs start over.
Insert(s) ==
  /\ Change /\ s \notin roster
  /\ roster' = roster \cup {s}
  /\ records' = [records EXCEPT ![s] = <<>>]
  /\ first' = [first EXCEPT ![s] = 1]
  /\ seen' = [seen EXCEPT ![s].reused =
                @ \/ s \in DOMAIN after \cup DOMAIN call.pages]
  /\ UNCHANGED <<after, call>>

-----------------------------------------------------------------------------
(* The tools. *)

TailMode == after = <<>>

\* ListServices; "cursors" is log_cursors, "follow" is follow_all_logs or
\* get_service_events of "*", "wait" is one poll of wait_for_log of "*".  Without
\* cursors a wait takes the current ones first.
Ask(tool) ==
  /\ call = Idle
  /\ tool # "follow" => Kind = "logs"
  /\ tool = "wait" => ~TailMode \/ roster = {}
  /\ call' = [tool |-> tool, todo |-> roster, pages |-> <<>>]
  /\ seen' = IF tool = "cursors" \/ TailMode THEN [s \in Services |-> Fresh(0)]
             ELSE seen
  /\ after' = IF tool = "cursors" THEN <<>> ELSE after
  /\ UNCHANGED <<roster, records, first, changes>>

CursorOf(s) == IF s \in DOMAIN after THEN after[s] ELSE 0

\* A page with the cursor behind its last record (next_follow_cursor).
AnyPage(s) ==
  {[after |-> CursorOf(s), next |-> IF p.hi < p.lo THEN CursorOf(s) ELSE p.hi,
    gap |-> IF TailMode THEN {} ELSE LostAfter(s, CursorOf(s)),
    entries |-> Shaped(s, p.lo, p.hi)] :
     p \in IF TailMode THEN TailPages(s) ELSE PagesAfter(s, CursorOf(s))}

\* current_service_cursor: the last record in the summary of the current run's file,
\* which may be behind the log, or of before a clear; if there is none, because
\* nothing is published yet, the last record that is visible, or 0.  Which records
\* are the current run's is left open.
CurrentCursors(s) ==
  LET published == 1..Newest(s)
      visible == IF IsEmpty(s) THEN 0 ELSE Newest(s)
  IN  {[after |-> 0, next |-> cursor, gap |-> {}, entries |-> <<>>] :
         cursor \in published \cup {visible}}

\* Only what is at or before the caller's cursor stays read.
Settled(h, cursor) == [h EXCEPT !.late = {q \in @ : q <= cursor}]

\* One request of the call, in the order of the list.  A service that is gone fails the call, but for
\* events, whose merge does without it.
ReadPage(s) ==
  /\ s \in call.todo /\ s = CHOOSE r \in call.todo : TRUE
  /\ \/ /\ s \in roster
        /\ \E page \in IF call.tool = "cursors" THEN CurrentCursors(s) ELSE AnyPage(s) :
             call' = [call EXCEPT !.todo = @ \ {s},
                        !.pages = [r \in DOMAIN @ \cup {s} |-> IF r = s THEN page ELSE @[r]]]
        /\ UNCHANGED seen
     \/ /\ s \notin roster /\ Kind = "events"
        /\ call' = [call EXCEPT !.todo = @ \ {s}]
        /\ UNCHANGED seen
     \/ /\ s \notin roster /\ Kind = "logs"
        /\ call' = Idle
        /\ seen' = [r \in Services |->
                      IF r \in DOMAIN after THEN Settled(seen[r], after[r]) ELSE Fresh(0)]
  /\ UNCHANGED <<roster, records, first, after, changes>>

\* What an answer of the entries in kept adds to the history of a cursor.
Answered(s, page, kept, cursor, base, tells) ==
  LET mine == SelectSeq(kept, LAMBDA e : e.service = s)
  IN  Settled([base EXCEPT !.given = @ \o mine,
                 !.told = IF tells THEN @ \cup page.gap ELSE @,
                 !.missed = IF tells THEN @ ELSE @ \cup page.gap], cursor)

\* Where an answer in tail mode, or a cursor taken, lets following begin.
Begun(s, page, kept) ==
  [seen[s] EXCEPT !.from =
     IF SeqsOf(kept, s) = {} THEN page.next ELSE Min(SeqsOf(kept, s)) - 1]

\* The merged answer, once every page is there.
Answer ==
  /\ call.tool # "idle" /\ call.todo = {}
  /\ LET pages == call.pages
         merged == MergePreservingServiceOrder([s \in DOMAIN pages |-> pages[s].entries])
         kept == IF TailMode THEN TailPreserving(merged) ELSE TruncatePreserving(merged)
         cut == ~TailMode /\ Len(kept) < Len(merged)
         next == [s \in DOMAIN pages |-> NextCursor(s, pages[s], kept, cut)]
     IN  /\ after' = next
         /\ seen' = [s \in Services |->
              IF s \notin DOMAIN next THEN Fresh(0)
              ELSE Answered(s, pages[s], kept, next[s],
                     IF TailMode THEN Begun(s, pages[s], kept) ELSE seen[s],
                     call.tool # "wait")]
  /\ call' = Idle
  /\ UNCHANGED <<roster, records, first, changes>>

\* follow_logs, get_service_events of one service: the page as it is.
FollowOne(s) ==
  /\ call = Idle /\ s \in roster \cap DOMAIN after
  /\ \E page \in AnyPage(s) :
       /\ after' = [after EXCEPT ![s] = page.next]
       /\ seen' = [seen EXCEPT ![s] =
                     Answered(s, page, page.entries, page.next, @, TRUE)]
  /\ UNCHANGED <<roster, records, first, call, changes>>

\* A poll of wait_for_log of one service (truncate_wait_matches).
WaitOne(s) ==
  /\ Kind = "logs" /\ call = Idle /\ s \in roster \cap DOMAIN after
  /\ \E page \in AnyPage(s) :
       LET kept == TruncatePreserving(page.entries)
           cursor == IF Len(kept) < Len(page.entries) THEN Last(kept).seq ELSE page.next
       IN  /\ after' = [after EXCEPT ![s] = cursor]
           /\ seen' = [seen EXCEPT ![s] = Answered(s, page, kept, cursor, @, FALSE)]
  /\ UNCHANGED <<roster, records, first, call, changes>>

Init ==
  /\ roster = Services
  /\ records = [s \in Services |-> <<>>]
  /\ first = [s \in Services |-> 1]
  /\ after = <<>>
  /\ call = Idle
  /\ seen = [s \in Services |-> Fresh(0)]
  /\ changes = 0

Next ==
  \/ \E s \in Services :
       \/ \E r \in Records : Write(s, r) \/ Rewrite(s, r)
       \/ Clear(s) \/ Evict(s) \/ Insert(s)
       \/ ReadPage(s) \/ FollowOne(s) \/ WaitOne(s)
  \/ \E tool \in {"cursors", "follow", "wait"} : Ask(tool)
  \/ Answer

Spec == Init /\ [][Next]_vars

-----------------------------------------------------------------------------

\* Whatever tools a caller mixes, and whatever is written meanwhile, what it was
\* given up to its cursor is every entry of every record since it began, once
\* and in the service's order, but for the records that a gap told it of, those
\* that a wait, which tells of no gap, came too late for, and those rewritten
\* in place after they were read.  A gap tells of nothing that is still there.
\* An id that was inserted anew under the cursor is another service: nothing
\* is promised of it.
FollowedOnce ==
  \A s \in DOMAIN after : ~seen[s].reused =>
    LET h == seen[s]
        Due(e) == e.seq \notin h.told \cup h.missed \cup h.late
    IN  /\ SelectSeq(h.given, Due) = SelectSeq(Shaped(s, h.from + 1, after[s]), Due)
        /\ \A q \in h.told : q < first[s]
=============================================================================
