------------------------------- MODULE LogStore -------------------------------
(***************************************************************************)
(* One service's entry of the session model (model.rs, model/memory.rs):   *)
(* the visible log, the ring of retained runs, health attempts and         *)
(* lifecycle events, written by the sinks of its runs and by the scheduler *)
(* under the entry's lock.  A change is published after the lock is        *)
(* released; a TUI (micromux-tui lib.rs, render.rs) learns of it through   *)
(* the broadcast and brings its cached lines up to date when it draws.     *)
(*                                                                         *)
(* The text of a line is the number of the update that wrote it.           *)
(***************************************************************************)
EXTENDS Naturals, Sequences, FiniteSets, SequencesExt

CONSTANTS
  Retentions,    \* possible LogRetention: [lines, bytes, runs]
  Updates,       \* log updates: [live: the screen's LiveLogId or 0, size]
  EventHistory,  \* EVENT_HISTORY
  HealthHistory, \* HEALTH_HISTORY
  MaxLogRuns,    \* bound: runs begun
  MaxUpdates,    \* bound: log updates and events
  MaxBirths      \* bound: times the service's id is inserted

\* Assumed by the module that extends this one for TLC.
LogStoreAssumption ==
  /\ Retentions \subseteq [lines : Nat \ {0}, bytes : Nat \ {0}, runs : Nat \ {0}]
  /\ Updates \subseteq [live : Nat, size : Nat]
  /\ {EventHistory, HealthHistory} \subseteq Nat \ {0}

VARIABLES
  entry,     \* the ServiceEntry
  alive,     \* it is in the roster
  births,    \* bound: insertions of its id
  updates,   \* bound
  pending,   \* kinds of change that the TUI has still to receive: published,
             \* or about to be by whoever released the lock
  view,      \* [known: the TUI lists the service, lines: cached_lines,
             \*  dirty: logs_dirty]
  shown,     \* history: every line of the visible stream since it was cleared
  reused     \* history: the id was inserted anew before the TUI saw it gone

logVars == <<entry, alive, births, updates, pending, view, shown, reused>>

Kinds == {"logs", "roster"}

-----------------------------------------------------------------------------
(* MemoryLogBuffer. *)

SumOf(lines) ==
  LET sum[n \in 0..Len(lines)] == IF n = 0 THEN 0 ELSE sum[n - 1] + lines[n].size
  IN  sum[Len(lines)]

AtMost(n, m) == IF n < m THEN n ELSE m
Minus(n, m) == IF n > m THEN n - m ELSE 0
Newest(s, n) == SubSeq(s, Minus(Len(s), n) + 1, Len(s))

\* What is left when lines were taken from the front until n is one of these.
TakenUntil(lines, enough) ==
  LET n == CHOOSE n \in enough : \A m \in enough : n <= m
  IN  SubSeq(lines, n + 1, Len(lines))

\* MemoryLogBuffer::push: trim the line to the byte limit, make room for it,
\* then keep to the line limit.  A buffer is [lines, bytes].
Push(buffer, line, retention) ==
  LET l == [line EXCEPT !.size = AtMost(@, retention.bytes)]
      BytesWithout(n) == Minus(buffer.bytes, SumOf(SubSeq(buffer.lines, 1, n)))
      kept == TakenUntil(buffer.lines,
                {n \in 0..Len(buffer.lines) :
                   n = Len(buffer.lines) \/ BytesWithout(n) + l.size <= retention.bytes})
      all == Append(kept, l)
      last == Newest(all, retention.lines)
  IN  [lines |-> last,
       bytes |-> Minus(BytesWithout(Len(buffer.lines) - Len(kept)) + l.size,
                      SumOf(SubSeq(all, 1, Len(all) - Len(last))))]

\* Mutant: the replaced line's bytes stay counted.
ReplaceLastKeepsBytes(buffer, line, retention) ==
  IF buffer.lines # <<>> /\ Last(buffer.lines).seq = line.seq
    THEN Push([lines |-> Front(buffer.lines), bytes |-> buffer.bytes], line, retention)
    ELSE buffer

\* MemoryLogBuffer::replace_last, for a line that is still there.
ReplaceLast(buffer, line, retention) ==
  IF buffer.lines # <<>> /\ Last(buffer.lines).seq = line.seq
    THEN Push([lines |-> Front(buffer.lines),
               bytes |-> Minus(buffer.bytes, Last(buffer.lines).size)], line, retention)
    ELSE buffer

\* MemoryLogBuffer::reconfigure.
Rebuilt(buffer, retention) ==
  LET after[n \in 0..Len(buffer.lines)] ==
        IF n = 0 THEN [lines |-> <<>>, bytes |-> 0]
                 ELSE Push(after[n - 1], buffer.lines[n], retention)
  IN  after[Len(buffer.lines)]

\* MemoryLogBuffer::lines_since, with the first retained sequence (0: none).
PartitionPoint(lines, after) ==
  CHOOSE k \in 0..Len(lines) : \A i \in DOMAIN lines : i <= k <=> lines[i].seq <= after
LinesSince(buffer, after) ==
  SubSeq(buffer.lines, PartitionPoint(buffer.lines, after) + 1, Len(buffer.lines))
FirstRetained(buffer) == IF buffer.lines = <<>> THEN 0 ELSE buffer.lines[1].seq

-----------------------------------------------------------------------------
(* ServiceEntry. *)

NewEntry(retention) ==
  [begun |-> 0, runs |-> <<>>, visible |-> [lines |-> <<>>, bytes |-> 0],
   nextSeq |-> 1, retention |-> retention, health |-> <<>>, nextEvent |-> 1]

HasRun(e, g) == \E r \in ToSet(e.runs) : r.gen = g

\* ServiceEntry::ensure_run, with the eviction of the oldest retained run.
EnsureRun(e, g) ==
  IF HasRun(e, g) THEN e
  ELSE [e EXCEPT !.runs = Newest(Append(@, [gen |-> g, last |-> 0, live |-> 0]),
                                 e.retention.runs)]

WithRun(e, g, run) ==
  [e EXCEPT !.runs = [i \in DOMAIN @ |-> IF @[i].gen = g THEN run ELSE @[i]]]

\* Only the run that was begun last writes to the visible log.
IsVisible(e, g) == g = e.begun

\* The update is a replacement of the run's last line: the same live screen,
\* and nothing was shown since.
Replaces(e, g, live) ==
  \E r \in ToSet(e.runs) :
    /\ r.gen = g /\ live # 0 /\ r.live = live /\ r.last # 0
    /\ g = e.begun => e.visible.lines # <<>> /\ Last(e.visible.lines).seq = r.last

\* ServiceEntry::append_log; live is 0 for LogUpdateKind::Append.  A late line
\* of a run that the ring has evicted is dropped.
AppendLog(e, g, live, size, text) ==
  IF g # e.begun /\ ~HasRun(e, g) THEN e
  ELSE LET f == EnsureRun(e, g)
           replaces == Replaces(f, g, live)
           run == CHOOSE r \in ToSet(f.runs) : r.gen = g
           seq == IF replaces THEN run.last ELSE e.nextSeq
           line == [seq |-> seq, run |-> g, text |-> text, size |-> size]
           h == [WithRun(f, g, [run EXCEPT !.last = seq, !.live = live])
                   EXCEPT !.nextSeq = IF replaces THEN @ ELSE @ + 1]
       IN  IF ~IsVisible(e, g) THEN h
           ELSE IF replaces
             THEN [h EXCEPT !.visible = ReplaceLast(@, line, e.retention)]
             ELSE [h EXCEPT !.visible = Push(@, line, e.retention)]

\* ServiceEntry::begin_run.
Begun(e, g) ==
  LET f == EnsureRun([e EXCEPT !.begun = g], g)
      run == CHOOSE r \in ToSet(f.runs) : r.gen = g
  IN  [WithRun(f, g, [run EXCEPT !.live = 0]) EXCEPT !.health = <<>>]

\* ServiceEntry::clear_visible_logs.
Cleared(e) ==
  [e EXCEPT !.visible = [lines |-> <<>>, bytes |-> Minus(@.bytes, SumOf(@.lines))],
            !.runs = IF @ = <<>> THEN @ ELSE [@ EXCEPT ![Len(@)].live = 0]]

\* ServiceEntry::reconfigure_log_retention.
Reconfigured(e, retention) ==
  [e EXCEPT !.visible = Rebuilt(@, retention),
            !.runs = Newest(@, retention.runs),
            !.retention = retention]

\* SessionModelReader::events: the page for a cursor or, with after = 0, the
\* newest, and whether something that matches was left out.
Events(e) == Minus(e.nextEvent, EventHistory + 1) + 1 .. e.nextEvent - 1
EventsPage(e, after, tail) ==
  LET limit == AtMost(tail, EventHistory)
      matching == {n \in Events(e) : n > after}
  IN  [events |-> IF after > 0
                    THEN {n \in matching : Cardinality({m \in matching : m <= n}) <= limit}
                    ELSE {n \in matching : Cardinality({m \in matching : m >= n}) <= limit},
       truncated |-> \/ \E n \in Events(e) :
                          n > after + 1 /\ \A m \in Events(e) : m >= n
                     \/ Cardinality(matching) > limit]

-----------------------------------------------------------------------------
(* The writers: the sinks of the runs and the scheduler. *)

\* Under the entry's lock; what changed is published when it is released
\* (Inner::publish).
Write(e, kinds) ==
  /\ alive
  /\ entry' = e
  /\ pending' = pending \cup kinds
  /\ UNCHANGED <<alive, births, view, reused>>

Counted == updates < MaxUpdates /\ updates' = updates + 1

\* What AppendLog shows, in the history.
Shown(e, g, live) ==
  LET line == [seq |-> IF Replaces(e, g, live) THEN Last(shown).seq ELSE e.nextSeq,
               run |-> g, text |-> updates + 1]
  IN  IF g # e.begun THEN shown
      ELSE IF Replaces(e, g, live) THEN Append(Front(shown), line)
      ELSE Append(shown, line)

\* RunSink::append_log of any run that was begun and may still be written to.
SinkWrites(g, u) ==
  /\ g \in 1..entry.begun /\ Counted
  /\ Write(AppendLog(entry, g, u.live, u.size, updates + 1), {"logs"})
  /\ shown' = Shown(entry, g, u.live)

\* SessionModelWriter::append_event with ServiceEntry::append_banner: the
\* event and, for a transition that stalls the log, a line that says so.
AppendEvent(mirrored) ==
  LET e == [entry EXCEPT !.nextEvent = @ + 1]
  IN  /\ Counted
      /\ IF mirrored
           THEN /\ Write(AppendLog(e, e.begun, 0, 1, updates + 1), {"logs"})
                /\ shown' = Shown(entry, e.begun, 0)
           ELSE Write(e, {}) /\ UNCHANGED shown

BeginRun ==
  /\ entry.begun < MaxLogRuns
  /\ Write(Begun(entry, entry.begun + 1), {"logs"})
  /\ UNCHANGED <<updates, shown>>

\* SessionModelWriter::clear_logs, for a manual restart.
ClearLogs ==
  /\ entry.visible.lines # <<>>
  /\ Write(Cleared(entry), {"logs"})
  /\ shown' = <<>>
  /\ UNCHANGED updates

ReconfigureLogRetention(retention) ==
  /\ retention # entry.retention /\ Counted
  /\ Write(Reconfigured(entry, retention), {"logs"})
  /\ UNCHANGED shown

\* RunSink::start_health_attempt and finish_health_attempt.
StartHealthAttempt(g) ==
  /\ g \in 1..entry.begun /\ g = entry.begun /\ Counted
  /\ Write([entry EXCEPT !.health =
       Append(Newest(@, HealthHistory - 1), [run |-> g, done |-> FALSE])], {})
  /\ UNCHANGED shown

FinishHealthAttempt(g, n) ==
  /\ g = entry.begun /\ n \in DOMAIN entry.health
  /\ entry.health[n].run = g /\ ~entry.health[n].done
  /\ Write([entry EXCEPT !.health[n].done = TRUE], {})
  /\ UNCHANGED <<updates, shown>>

\* SessionModelWriter::remove_service and insert_service for the same id.
RemoveService ==
  /\ alive /\ births < MaxBirths
  /\ alive' = FALSE /\ pending' = pending \cup {"roster"}
  /\ shown' = <<>>
  /\ UNCHANGED <<entry, births, updates, view, reused>>

InsertService(retention) ==
  /\ ~alive
  /\ alive' = TRUE /\ entry' = NewEntry(retention) /\ births' = births + 1
  /\ pending' = pending \cup {"roster"} /\ reused' = (reused \/ view.known)
  /\ UNCHANGED <<updates, view, shown>>

-----------------------------------------------------------------------------
(* The TUI. *)

\* App::resync: the services that still exist keep their caches.
Resync ==
  view' = [known |-> alive, dirty |-> alive,
           lines |-> IF alive /\ view.known THEN view.lines ELSE <<>>]

\* App::apply_change for one change, or for all of them after a lag.
Receive(kind) ==
  /\ kind \in pending
  /\ pending' = pending \ {kind}
  /\ IF kind = "roster" THEN Resync
                        ELSE view' = [view EXCEPT !.dirty = @ \/ view.known]
  /\ UNCHANGED <<entry, alive, births, updates, shown, reused>>

Lagged ==
  /\ pending # {}
  /\ pending' = {}
  /\ Resync
  /\ UNCHANGED <<entry, alive, births, updates, shown, reused>>

\* Mutant: only what is newer than the last cached line is fetched.
FetchAfterLast(lines) == IF lines = <<>> THEN 0 ELSE Last(lines).seq

\* The last cached line may have been replaced, so it is fetched again.
FetchAfter(lines) == IF lines = <<>> THEN 0 ELSE Minus(Last(lines).seq, 1)

\* App::render_logs: drop what is no longer retained, then take the new lines
\* one after the other.
StillRetained(lines, first) ==
  IF first = 0 THEN <<>>
  ELSE TakenUntil(lines,
         {n \in 0..Len(lines) : n = Len(lines) \/ lines[n + 1].seq >= first})

CacheLine(lines, l) ==
  LET new == [seq |-> l.seq, text |-> l.text]
  IN  IF lines # <<>> /\ Last(lines).seq = l.seq
        THEN Append(Front(lines), new) ELSE Append(lines, new)

Cached(lines, new) ==
  LET after[n \in 0..Len(new)] ==
        IF n = 0 THEN lines ELSE CacheLine(after[n - 1], new[n])
  IN  after[Len(new)]

RenderLogs ==
  /\ view.dirty
  /\ LET buffer == IF alive THEN entry.visible ELSE [lines |-> <<>>, bytes |-> 0]
     IN  view' = [view EXCEPT !.dirty = FALSE,
                    !.lines = Cached(StillRetained(@, FirstRetained(buffer)),
                                     LinesSince(buffer, FetchAfter(@)))]
  /\ UNCHANGED <<entry, alive, births, updates, pending, shown, reused>>

-----------------------------------------------------------------------------
LogInit ==
  /\ \E r \in Retentions : entry = NewEntry(r)
  /\ alive = TRUE /\ births = 1 /\ updates = 0
  /\ pending = {}
  /\ view = [known |-> TRUE, lines |-> <<>>, dirty |-> TRUE]
  /\ shown = <<>> /\ reused = FALSE

Writers ==
  \/ \E g \in 1..MaxLogRuns :
       \/ \E u \in Updates : SinkWrites(g, u)
       \/ StartHealthAttempt(g)
       \/ \E n \in 1..HealthHistory : FinishHealthAttempt(g, n)
  \/ \E mirrored \in BOOLEAN : AppendEvent(mirrored)
  \/ BeginRun \/ ClearLogs
  \/ \E r \in Retentions : ReconfigureLogRetention(r) \/ InsertService(r)
  \/ RemoveService

LogTui == Lagged \/ RenderLogs \/ \E kind \in Kinds : Receive(kind)

LogNext == Writers \/ LogTui

LogSpec == LogInit /\ [][LogNext]_logVars

-----------------------------------------------------------------------------
Bare(lines) == [n \in DOMAIN lines |-> [seq |-> lines[n].seq, text |-> lines[n].text]]

(* A client that reads with a cursor misses nothing without being told: every  *)
(* line shown after its cursor is on the page, or older than the first that is *)
(* retained; an events page that is not marked truncated is complete.          *)
CursorsHonest ==
  alive =>
    /\ \A after \in 0..entry.nextSeq : \A l \in ToSet(shown) :
         \/ l.seq <= after
         \/ \E p \in ToSet(LinesSince(entry.visible, after)) : p.text = l.text
         \/ FirstRetained(entry.visible) > l.seq
    /\ \A after \in 0..entry.nextEvent, tail \in 1..(EventHistory + 1) :
         LET page == EventsPage(entry, after, tail)
         IN  page.truncated \/ page.events = (after + 1)..(entry.nextEvent - 1)

(* The visible log is the end of the stream that the runs wrote while each of  *)
(* them was the latest: no late line of an older run, no frame of a live       *)
(* screen twice, nothing lost in the middle, within both limits, and with an   *)
(* exact byte count; cursors into it are honest, and the health history is the   *)
(* latest run's (model.rs:1293).                                               *)
VisibleFaithful ==
  LET v == entry.visible
      dropped == Len(shown) - Len(v.lines)
  IN  alive =>
        /\ dropped >= 0
        /\ Bare(v.lines) = Bare(SubSeq(shown, dropped + 1, Len(shown)))
        /\ \A i, j \in DOMAIN shown :
             i < j => shown[i].seq < shown[j].seq /\ shown[i].run <= shown[j].run
        /\ shown # <<>> => v.lines # <<>>
        /\ v.bytes = SumOf(v.lines)
        /\ v.bytes <= entry.retention.bytes /\ Len(v.lines) <= entry.retention.lines
        /\ \A h \in ToSet(entry.health) : h.run = entry.begun
        /\ CursorsHonest

(* When every change was published and received and the TUI has drawn, it      *)
(* shows the visible log, also after replaced frames, evictions, clears and    *)
(* lags; an id that was used again before the TUI saw it gone is excepted      *)
(* (App::resync keeps the cache of the old service).                           *)
ViewFresh ==
  (pending = {} /\ ~view.dirty /\ ~reused) =>
    view.lines = IF alive THEN Bare(entry.visible.lines) ELSE <<>>
=============================================================================
