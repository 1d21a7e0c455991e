------------------------------- MODULE RunFiles -------------------------------
(***************************************************************************)
(* The file of one run's log (model/disk.rs, model/runlog.rs): lines are   *)
(* queued for the disk worker, which writes, rotates and removes the file; *)
(* readers take what the worker has published, without a lock across the   *)
(* file's I/O, and keep an index of offsets between their reads.           *)
(*                                                                         *)
(* An offset counts records.  A reader may always read before its flush is *)
(* answered (DISK_FLUSH_TIMEOUT), so a flush constrains nothing.           *)
(***************************************************************************)
EXTENDS Naturals, Sequences, FiniteSets, SequencesExt

CONSTANTS
  QueueMax,     \* records that DISK_LOG_QUEUE_MAX_BYTES holds
  FileMax,      \* records that DISK_RUN_FILE_MAX_BYTES holds
  CacheMax,     \* RUN_LOG_OFFSET_CACHE
  Attempts,     \* MAX_STABLE_SEGMENT_READ_ATTEMPTS
  Queries,      \* what clients ask for: [tail, after, limit], 0: not given
  Gaps,         \* lines of other runs between two of this one
  LiveScreens,  \* LiveLogIds of the run's screens: a screen entered again has another
  MaxLogged     \* bound: updates logged

\* Assumed by the module that extends this one for TLC.  A tail is asked for
\* (try_run_log), or what follows a cursor (try_run_log_after).
RunFilesAssumption ==
  /\ {QueueMax, FileMax, CacheMax, Attempts} \subseteq Nat \ {0}
  /\ 0 \in Gaps /\ Gaps \subseteq Nat
  /\ LiveScreens \subseteq Nat \ {0}
  /\ Queries \subseteq [tail : Nat, after : Nat, limit : Nat]
  /\ \A q \in Queries : q.tail = 0 \/ (q.after = 0 /\ q.limit = 0)

VARIABLES
  nextSeq,   \* ServiceEntry::next_seq
  lastSeq,   \* RunLogEntry::last_seq, 0: none
  live,      \* RunLogEntry::live_snapshot_id, 0: none
  retained,  \* the run is in the entry's ring
  logged,    \* bound; also the text of the next line
  diskCommands, \* the disk worker's channel
  worker,    \* the record it writes: [pc: idle | chosen | written, record]
  file,      \* the records in the file
  exists,    \* the file has its name
  meta,      \* DiskRunMetadata: epoch, readable, lines, first, last
  index,     \* RunLogReadIndex: epoch, scanned, last, offsets
  reader     \* the read in progress: [pc, query, epoch, readable, attempt,
             \*  page; segment: the published records when it looked (history)]

fileVars ==
  <<nextSeq, lastSeq, live, retained, logged, diskCommands, worker, file,
    exists, meta, index, reader>>

serviceVars == <<nextSeq, lastSeq, live, retained, logged>>
diskVars == <<worker, file, exists, meta>>

AppendOp == "append"
Replace == "replace"
IdleWorker == [pc |-> "idle"]
IdleReader == [pc |-> "idle"]
FreshIndex == [epoch |-> 0, scanned |-> 0, last |-> 0, offsets |-> <<>>]
Lesser(n, m) == IF n < m THEN n ELSE m
Beyond(n, m) == IF n > m THEN n - m ELSE 0
Ending(s, n) == SubSeq(s, Beyond(Len(s), n) + 1, Len(s))

-----------------------------------------------------------------------------
(* The service's side, under the entry's lock. *)

\* DiskLogWriter::write: a record that the queue has no room for is dropped.
Queued(record) ==
  IF Cardinality({i \in DOMAIN diskCommands : diskCommands[i].do = "write"}) >= QueueMax
    THEN diskCommands ELSE Append(diskCommands, [do |-> "write", record |-> record])

\* ServiceEntry::append_log of a line (screen 0) or of a frame.  Only another
\* frame of the live screen replaces; the first frame of the next one is a line
\* of its own, behind the frame that was live.  Other runs of the service took
\* the numbers that are passed over.
LogLine(screen, others) ==
  LET replaces == screen # 0 /\ live = screen /\ lastSeq # 0
      seq == IF replaces THEN lastSeq ELSE nextSeq + others
  IN  /\ retained /\ logged < MaxLogged
      /\ replaces => others = 0
      /\ nextSeq' = IF replaces THEN nextSeq ELSE seq + 1
      /\ lastSeq' = seq /\ live' = screen /\ logged' = logged + 1
      /\ diskCommands' = Queued([seq |-> seq, text |-> logged + 1,
                             op |-> IF replaces THEN Replace ELSE AppendOp])
      /\ UNCHANGED <<retained, diskVars, index, reader>>

\* ServiceEntry::clear_visible_logs: the screen's next frame is a new line, as
\* it is whenever the run's last line is not the last visible one.
ClearVisibleLogs ==
  /\ retained /\ live # 0
  /\ live' = 0
  /\ UNCHANGED <<nextSeq, lastSeq, retained, logged, diskCommands, diskVars, index, reader>>

\* The run leaves the ring: RunLogEntry::enqueue_remove.
Evict ==
  /\ retained
  /\ retained' = FALSE
  /\ diskCommands' = Append(diskCommands, [do |-> "remove"])
  /\ UNCHANGED <<nextSeq, lastSeq, live, logged, diskVars, index, reader>>

-----------------------------------------------------------------------------
(* The disk worker. *)

BeginSegment == [epoch |-> meta.epoch + 1, readable |-> 0, lines |-> 0,
                 first |-> 0, last |-> 0]

\* DiskLogCommand::Begin: the file is created, or stays absent on an error.
Begin ==
  /\ worker = IdleWorker /\ diskCommands # <<>> /\ diskCommands[1].do = "begin"
  /\ diskCommands' = Tail(diskCommands)
  /\ \/ exists' = TRUE /\ file' = <<>> /\ meta' = BeginSegment
     \/ UNCHANGED <<exists, file, meta>>
  /\ UNCHANGED <<serviceVars, worker, index, reader>>

RemoveFile ==
  /\ worker = IdleWorker /\ diskCommands # <<>> /\ diskCommands[1].do = "remove"
  /\ diskCommands' = Tail(diskCommands)
  /\ exists' = FALSE
  /\ UNCHANGED <<serviceVars, worker, file, meta, index, reader>>

\* A frame whose first record was dropped replaces nothing: it is appended.
OpOf(record) ==
  IF record.op = Replace /\ meta.last # record.seq THEN AppendOp ELSE record.op

Rotates == Len(file) > 0 /\ Len(file) + 1 > FileMax

\* Rotation truncates in place, with the metadata locked.
Rotate(record) ==
  /\ file' = <<>> /\ exists' = TRUE
  /\ meta' = BeginSegment
  /\ worker' = [pc |-> "chosen", record |-> [record EXCEPT !.op = AppendOp]]

\* write_disk_record_with_limit, up to the write: the file is opened (and
\* created), the operation decided, the file rotated; any of it may fail.
StartWrite(record) ==
  \/ /\ Rotates /\ Rotate(record)
  \/ /\ ~Rotates /\ exists' = TRUE
     /\ file' = IF exists THEN file ELSE <<>>
     /\ worker' = [pc |-> "chosen", record |-> [record EXCEPT !.op = OpOf(record)]]
     /\ UNCHANGED meta
  \/ UNCHANGED <<file, exists, meta, worker>>

TakeWrite ==
  /\ worker = IdleWorker /\ diskCommands # <<>> /\ diskCommands[1].do = "write"
  /\ diskCommands' = Tail(diskCommands)
  /\ StartWrite(diskCommands[1].record)
  /\ UNCHANGED <<serviceVars, index, reader>>

\* DiskFileWriter::write_record: a failed write leaves nothing in the file.
WriteRecord ==
  /\ worker.pc = "chosen"
  /\ \/ file' = Append(file, worker.record) /\ worker' = [worker EXCEPT !.pc = "written"]
     \/ UNCHANGED file /\ worker' = IdleWorker
  /\ UNCHANGED <<serviceVars, diskCommands, exists, meta, index, reader>>

\* DiskRunMetadata::observe.
Observe(m, op, seq) ==
  [m EXCEPT !.readable = Len(file), !.last = seq,
            !.lines = IF op = AppendOp THEN @ + 1 ELSE @,
            !.first = IF op = AppendOp /\ @ = 0 THEN seq ELSE @]

Publish ==
  /\ worker.pc = "written"
  /\ meta' = Observe(meta, worker.record.op, worker.record.seq)
  /\ worker' = IdleWorker
  /\ UNCHANGED <<serviceVars, diskCommands, file, exists, index, reader>>

-----------------------------------------------------------------------------
(* RunLogReadIndex. *)

ResetScan(i) == [FreshIndex EXCEPT !.epoch = i.epoch]
ResetForSegment(i, epoch) ==
  IF i.epoch = epoch THEN i ELSE [FreshIndex EXCEPT !.epoch = epoch]

\* 0: none known, which is also where the file starts.
OffsetAtOrBefore(i, seq) ==
  LET known == {n \in DOMAIN i.offsets : i.offsets[n].seq <= seq}
  IN  IF known = {} THEN 0
      ELSE i.offsets[CHOOSE n \in known : \A m \in known : m <= n].offset

\* observe_append: sorted in, the oldest left out.
Observed(i, seq, offset) ==
  LET known == i.offsets
      k == CHOOSE k \in 0..Len(known) : \A n \in DOMAIN known : n <= k <=> known[n].seq < seq
      later == SubSeq(known, k + 1, Len(known))
      here == IF later # <<>> /\ later[1].seq = seq THEN <<>>
              ELSE <<[seq |-> seq, offset |-> offset]>>
  IN  [i EXCEPT !.last = IF @ > seq THEN @ ELSE seq,
                !.offsets = Ending((SubSeq(known, 1, k) \o here) \o later, CacheMax)]

\* start_offset_for_read.
StartOffset(i, q, readable) ==
  IF q.tail # 0
    THEN IF i.last = 0 THEN 0
         ELSE Lesser(OffsetAtOrBefore(i, Beyond(i.last, q.tail)), readable)
  ELSE IF q.after # 0 /\ i.last # 0 /\ i.last <= q.after
    THEN Lesser(i.scanned, readable)
  ELSE IF q.after = 0 THEN 0 ELSE OffsetAtOrBefore(i, q.after)

\* push_log_line and the replacement of the last line.
WithLine(lines, record, q) ==
  LET line == [seq |-> record.seq, text |-> record.text]
  IN  IF record.op = Replace /\ lines # <<>>
        THEN IF Last(lines).seq = line.seq THEN Append(Front(lines), line) ELSE lines
      ELSE IF q.limit # 0 /\ Len(lines) >= q.limit THEN lines
      ELSE IF q.tail # 0 THEN Ending(Append(lines, line), q.tail)
      ELSE Append(lines, line)

\* read_run_log_segment, of the record n: it is scanned and, if it is asked
\* for, taken; reading stops at the limit, but for another frame of the last line.
Scanned(i, record, n) ==
  LET to == [i EXCEPT !.scanned = IF @ > n THEN @ ELSE n]
  IN  IF record.op = AppendOp THEN Observed(to, record.seq, n - 1) ELSE to

Full(st, record, q) ==
  q.tail = 0 /\ q.limit # 0 /\ Len(st.lines) >= q.limit /\ record.op # Replace

Scan(st, record, n, q) ==
  LET seen == [st EXCEPT !.index = Scanned(@, record, n)]
  IN  IF st.stop THEN st
      ELSE IF record.seq <= q.after THEN seen
      ELSE IF Full(st, record, q) THEN [seen EXCEPT !.stop = TRUE]
      ELSE [seen EXCEPT !.lines = WithLine(@, record, q)]

\* Over the records of a readable prefix: the lines and the index afterwards.
ReadSegment(records, i, q) ==
  LET i1 == IF i.scanned > Len(records) THEN ResetScan(i) ELSE i
      start == StartOffset(i1, q, Len(records))
      i2 == IF start = 0 THEN ResetScan(i1) ELSE i1
      steps == Beyond(Len(records), start)
      read[n \in 0..steps] ==
        IF n = 0 THEN [lines |-> <<>>, index |-> i2, stop |-> FALSE]
                 ELSE Scan(read[n - 1], records[start + n], start + n, q)
  IN  read[steps]

-----------------------------------------------------------------------------
(* SessionModelReader::read_run_log; the readers of a run take turns. *)

\* The source is looked up while the run is retained; then the metadata is
\* read (read_consistent_segment).
Ask(q) ==
  /\ reader = IdleReader /\ retained
  /\ reader' = [pc |-> "asked", query |-> q, attempt |-> 1]
  /\ UNCHANGED <<serviceVars, diskCommands, diskVars, index>>

LookAtMetadata ==
  /\ reader.pc = "asked"
  /\ reader' = [pc |-> "opened", query |-> reader.query, attempt |-> reader.attempt,
                epoch |-> meta.epoch, readable |-> meta.readable,
                segment |-> SubSeq(file, 1, meta.readable)]
  /\ UNCHANGED <<serviceVars, diskCommands, diskVars, index>>

\* The file could not be opened, or is gone: there is no such log.
NoFile ==
  /\ reader.pc = "opened" /\ ~exists
  /\ reader' = IdleReader
  /\ UNCHANGED <<serviceVars, diskCommands, diskVars, index>>

\* Open and read, whatever the file holds by now.
ReadFile ==
  /\ reader.pc = "opened" /\ exists
  /\ LET readable == SubSeq(file, 1, Lesser(reader.readable, Len(file)))
         read == ReadSegment(readable, ResetForSegment(index, reader.epoch), reader.query)
     IN  /\ index' = read.index
         /\ reader' = [pc |-> "read", query |-> reader.query, epoch |-> reader.epoch,
                       attempt |-> reader.attempt, segment |-> reader.segment,
                       page |-> read.lines]
  /\ UNCHANGED <<serviceVars, diskCommands, diskVars>>

\* Mutant: what was read is taken for one segment.
SameSegmentNot == TRUE

\* No rotation came between.
SameSegment == meta.epoch = reader.epoch

Accept ==
  /\ reader.pc = "read" /\ SameSegment
  /\ reader' = [pc |-> "page", query |-> reader.query, segment |-> reader.segment,
                page |-> reader.page]
  /\ UNCHANGED <<serviceVars, diskCommands, diskVars, index>>

\* Try again with an index for the new segment, or report Rotating.
Reject ==
  /\ reader.pc = "read" /\ ~SameSegment
  /\ index' = ResetForSegment(index, meta.epoch)
  /\ reader' = IF reader.attempt = Attempts THEN IdleReader
               ELSE [pc |-> "asked", query |-> reader.query, attempt |-> reader.attempt + 1]
  /\ UNCHANGED <<serviceVars, diskCommands, diskVars>>

\* is_current_run_path: the page is the caller's, or the run is gone.
Return ==
  /\ reader.pc = "page"
  /\ reader' = IdleReader
  /\ UNCHANGED <<serviceVars, diskCommands, diskVars, index>>

-----------------------------------------------------------------------------
FileInit ==
  /\ nextSeq = 1 /\ lastSeq = 0 /\ live = 0 /\ retained = TRUE /\ logged = 0
  /\ diskCommands = <<[do |-> "begin"]>>
  /\ worker = IdleWorker /\ file = <<>> /\ exists = FALSE
  /\ meta = [epoch |-> 0, readable |-> 0, lines |-> 0, first |-> 0, last |-> 0]
  /\ index = FreshIndex /\ reader = IdleReader

Service ==
  \/ Evict \/ ClearVisibleLogs
  \/ \E screen \in LiveScreens \cup {0}, others \in Gaps : LogLine(screen, others)
Worker == Begin \/ RemoveFile \/ TakeWrite \/ WriteRecord \/ Publish
Reader ==
  \/ LookAtMetadata \/ NoFile \/ ReadFile \/ Accept \/ Reject \/ Return
  \/ \E q \in Queries : Ask(q)

FileNext == Service \/ Worker \/ Reader

FileSpec == FileInit /\ [][FileNext]_fileVars

-----------------------------------------------------------------------------
(* The reference: a segment's lines are its appends, in the order of their     *)
(* numbers, each with the text that was written last.                          *)
Appends(records) == {n \in DOMAIN records : records[n].op = AppendOp}
Seqs(records) == {records[n].seq : n \in Appends(records)}

Latest(line, records) ==
  \E n \in DOMAIN records :
    /\ records[n].seq = line.seq /\ records[n].text = line.text
    /\ \A m \in DOMAIN records : m > n => records[m].seq # line.seq

AreLines(lines, records) ==
  /\ \A i, j \in DOMAIN lines : i < j => lines[i].seq < lines[j].seq
  /\ \A i \in DOMAIN lines : lines[i].seq \in Seqs(records) /\ Latest(lines[i], records)

\* After a cursor the next lines, as many as were asked for.
FirstLines(page, records, q) ==
  LET shown == {page[i].seq : i \in DOMAIN page}
      due == {s \in Seqs(records) : s > q.after}
  IN  /\ shown \subseteq due
      /\ \A s \in due \ shown, t \in shown : t < s
      /\ q.limit # 0 => Len(page) <= q.limit
      /\ shown = due \/ (q.limit # 0 /\ Len(page) = q.limit)

\* For a tail the last ones.
LastLines(page, records, q) ==
  LET shown == {page[i].seq : i \in DOMAIN page}
  IN  /\ \A s \in Seqs(records) \ shown, t \in shown : s < t
      /\ Len(page) <= q.tail
      /\ Seqs(records) # {} => page # <<>>

(* The page that a reader returns is that of the segment whose metadata it     *)
(* saw, whatever was appended, replaced or rotated while it read and whatever  *)
(* its index remembers: after a cursor exactly the next lines, for a tail the  *)
(* end of the segment (runlog.rs:296).  The published summary counts the       *)
(* segment's lines, and their sequence numbers increase.                       *)
ReadFaithful ==
  LET published == SubSeq(file, 1, meta.readable)
      seqs == Seqs(published)
  IN  /\ reader.pc = "page" =>
           /\ AreLines(reader.page, reader.segment)
           /\ IF reader.query.tail = 0 THEN FirstLines(reader.page, reader.segment, reader.query)
                                       ELSE LastLines(reader.page, reader.segment, reader.query)
      /\ exists =>
           /\ meta.lines = Cardinality(Appends(published))
           /\ IF seqs = {} THEN meta.first = 0 /\ meta.last = 0
              ELSE {meta.first, meta.last} \subseteq seqs
                     /\ \A s \in seqs : meta.first <= s /\ s <= meta.last
           /\ \A m, n \in Appends(published) : m < n => published[m].seq < published[n].seq
=============================================================================
