---------------------------- MODULE PtyEndpoints ----------------------------
(***************************************************************************)
(* Who holds the master side of a run's terminal, and how it is let go     *)
(* (scheduler/pty.rs, on Unix).  Three parties hold it: the interactive     *)
(* handles (PtyHandles, PtyShutdown), the log reader thread and the input   *)
(* writer thread.  A process whose session escaped its process group is    *)
(* hung up only when all three have let go, so none of them may wait for    *)
(* another, for the process, or for the scheduler's event channel.  The     *)
(* steps of a start come first: until it has succeeded, a failure must leave *)
(* neither the child nor the terminal behind.                              *)
(*                                                                         *)
(* The terminal's buffers are one bit each: there is output to read, there *)
(* is room for input.                                                      *)
(***************************************************************************)
EXTENDS Naturals, Sequences

CONSTANT QueueCapacity  \* PTY_WRITE_QUEUE_CAPACITY

\* Assumed by the modules that instantiate this one.
EndpointsAssumption == QueueCapacity \in Nat \ {0}

VARIABLES
  slave,        \* who holds the other side: the child, a descendant, the dying child, nobody
  output,       \* output waits to be read from the master
  room,         \* the process has read its input: a write makes progress
  handles,      \* the scheduler's PtyHandles of the run
  closing,      \* how far the termination task is with PtyShutdown
  master,       \* SharedPtyMaster is Some
  taken,        \* the sender was taken out of SharedPtyWriteQueue
  queue,        \* the write queue
  readerCancel, \* reader_cancellation
  writerCancel, \* writer_cancellation
  reader,       \* the log reader thread
  writer,       \* the writer thread
  full,         \* the process event channel is full
  start,        \* how far start_service_with_pty_size is
  killed        \* force_kill was called: SIGKILL to the process group

processVars == <<slave, output, room>>
ownerVars == <<handles, closing, master, taken>>
spawnVars == <<start, killed>>
vars == <<processVars, ownerVars, queue, readerCancel, writerCancel, reader,
          writer, full, spawnVars>>

\* The sender lives in the queue's mutex, shared by three owners.
SenderAlive == ~taken /\ (handles \/ closing \notin {"none", "dropped"} \/ reader = "poll")
Released == ~master /\ reader \notin {"held", "poll"} /\ writer = "gone"

-----------------------------------------------------------------------------
(* The processes on the other side; nothing obliges them to do anything. *)

ReadsInput ==
  /\ slave \in {"child", "escaped"} /\ ~room
  /\ room' = TRUE
  /\ UNCHANGED <<slave, output, ownerVars, queue, readerCancel, writerCancel,
                 reader, writer, full, spawnVars>>

WritesOutput ==
  /\ slave \in {"child", "escaped"} /\ ~output
  /\ output' = TRUE
  /\ UNCHANGED <<slave, room, ownerVars, queue, readerCancel, writerCancel,
                 reader, writer, full, spawnVars>>

\* The child exits, and a descendant may go on holding the terminal.
ChildExits ==
  /\ slave = "child"
  /\ slave' \in {"escaped", "none"}
  /\ UNCHANGED <<output, room, ownerVars, queue, readerCancel, writerCancel,
                 reader, writer, full, spawnVars>>

DescendantExits ==
  /\ slave = "escaped"
  /\ slave' = "none"
  /\ UNCHANGED <<output, room, ownerVars, queue, readerCancel, writerCancel,
                 reader, writer, full, spawnVars>>

\* SIGKILL ends the child, and not what has left its process group; the
\* terminal may keep the dying child from being reaped.
Killed ==
  /\ slave = "child" /\ killed
  /\ slave' \in {"escaped", "stuck", "none"}
  /\ UNCHANGED <<output, room, ownerVars, queue, readerCancel, writerCancel,
                 reader, writer, full, spawnVars>>

\* SIGHUP once no master is left.
HungUp ==
  /\ slave \in {"escaped", "stuck"} /\ Released
  /\ slave' = "none"
  /\ UNCHANGED <<output, room, ownerVars, queue, readerCancel, writerCancel,
                 reader, writer, full, spawnVars>>

-----------------------------------------------------------------------------
(* start_service_with_pty_size.  Until it returns, what it has made is owned by *)
(* its local variables, and SpawnedChildGuard kills the child if it fails.    *)

\* openpty and spawn_command, with the guard right after.
SpawnChild ==
  /\ start = "begin"
  /\ start' = "spawned" /\ slave' = "child" /\ master' = TRUE
  /\ UNCHANGED <<output, room, handles, closing, taken, queue, readerCancel,
                 writerCancel, reader, writer, full, killed>>

\* PtyOutputReader::new: a duplicate of the master for the reader.
MakeReader ==
  /\ start = "spawned"
  /\ start' = "reading" /\ reader' = "held"
  /\ UNCHANGED <<processVars, ownerVars, queue, readerCancel, writerCancel,
                 writer, full, killed>>

\* take_writer, PtyHandles::new with its writer thread, the reader thread and
\* the termination task; then the guard is disarmed.
MakeHandles ==
  /\ start = "reading"
  /\ start' = "done"
  /\ handles' = TRUE /\ closing' = "open" /\ reader' = "poll" /\ writer' = "recv"
  /\ UNCHANGED <<processVars, master, taken, queue, readerCancel, writerCancel,
                 full, killed>>

\* Any of the calls fails; the locals and the guard are dropped.
StartFails ==
  /\ start \in {"begin", "spawned", "reading"}
  /\ start' = "failed" /\ killed' = (start # "begin")
  /\ master' = FALSE /\ reader' = "gone"
  /\ UNCHANGED <<processVars, handles, closing, taken, queue, readerCancel,
                 writerCancel, writer, full>>

-----------------------------------------------------------------------------
(* The termination task: PtyShutdown::close, then its drop. *)

\* The escalation of a stop (RunTask).
Escalate ==
  /\ closing = "open" /\ ~killed
  /\ killed' = TRUE
  /\ UNCHANGED <<processVars, ownerVars, queue, readerCancel, writerCancel,
                 reader, writer, full, start>>

\* PTY_HANGUP_AFTER_ESCALATION has passed.
CloseReader ==
  /\ closing = "open" /\ killed
  /\ readerCancel' = TRUE /\ closing' = "reader"
  /\ UNCHANGED <<processVars, handles, master, taken, queue, writerCancel,
                 reader, writer, full, spawnVars>>

CloseWriter ==
  /\ closing = "reader"
  /\ writerCancel' = TRUE /\ closing' = "writer"
  /\ UNCHANGED <<processVars, handles, master, taken, queue, readerCancel,
                 reader, writer, full, spawnVars>>

\* Mutant: the sender stays in the shared queue.
CloseQueueNot ==
  /\ closing = "writer"
  /\ closing' = "queue"
  /\ UNCHANGED <<processVars, handles, master, taken, queue, readerCancel,
                 writerCancel, reader, writer, full, spawnVars>>

CloseQueue ==
  /\ closing = "writer"
  /\ taken' = TRUE /\ closing' = "queue"
  /\ UNCHANGED <<processVars, handles, master, queue, readerCancel,
                 writerCancel, reader, writer, full, spawnVars>>

CloseMaster ==
  /\ closing = "queue"
  /\ master' = FALSE /\ closing' = "closed"
  /\ UNCHANGED <<processVars, handles, taken, queue, readerCancel,
                 writerCancel, reader, writer, full, spawnVars>>

\* The task ends with the child: its drop asks the writer to stop, and keeps
\* the reader for the output that is left.
TaskEnds ==
  /\ slave \notin {"child", "stuck"} /\ closing \in {"open", "closed"}
  /\ closing' = "dropped" /\ writerCancel' = TRUE
  /\ UNCHANGED <<processVars, handles, master, taken, queue, readerCancel,
                 reader, writer, full, spawnVars>>

-----------------------------------------------------------------------------
(* The scheduler. *)

\* PtyHandles::write_input: try_send, and a full queue drops the input.
SendInput ==
  /\ handles /\ SenderAlive /\ writer # "gone" /\ Len(queue) < QueueCapacity
  /\ queue' = Append(queue, "input")
  /\ UNCHANGED <<processVars, ownerVars, readerCancel, writerCancel, reader,
                 writer, full, spawnVars>>

\* The exit is handled: the run's handles go, the reader is drained for a while.
ExitHandled ==
  /\ handles /\ closing = "dropped"
  /\ handles' = FALSE /\ master' = FALSE
  /\ UNCHANGED <<processVars, closing, taken, queue, readerCancel,
                 writerCancel, reader, writer, full, spawnVars>>

\* cancel_due_drains.
DrainDeadline ==
  /\ start = "done" /\ ~handles /\ ~readerCancel
  /\ readerCancel' = TRUE
  /\ UNCHANGED <<processVars, ownerVars, queue, writerCancel, reader, writer,
                 full, spawnVars>>

EventsFill ==
  /\ ~full /\ full' = TRUE
  /\ UNCHANGED <<processVars, ownerVars, queue, readerCancel, writerCancel,
                 reader, writer, spawnVars>>

EventsReceived ==
  /\ full /\ full' = FALSE
  /\ UNCHANGED <<processVars, ownerVars, queue, readerCancel, writerCancel,
                 reader, writer, spawnVars>>

-----------------------------------------------------------------------------
(* The log reader thread. *)

\* PtyEventProxy::send_event: a reply to a terminal query is queued only if
\* the lock and a place are free right now; otherwise it is dropped.
MayReply ==
  \/ UNCHANGED queue
  \/ /\ SenderAlive /\ writer # "gone" /\ Len(queue) < QueueCapacity
     /\ queue' = Append(queue, "response")

\* PollingPtyReader::read and the bytes' way through the emulator.
ReadOutput ==
  /\ reader = "poll" /\ ~readerCancel /\ output
  /\ output' = FALSE
  /\ MayReply
  /\ UNCHANGED <<slave, room, ownerVars, readerCancel, writerCancel, reader,
                 writer, full, spawnVars>>

\* Cancelled, or end of file; the emulator and the master go first, then the
\* finished guard.
ReaderEnds ==
  /\ reader = "poll"
  /\ readerCancel \/ (slave = "none" /\ ~output)
  /\ reader' = "ack"
  /\ UNCHANGED <<processVars, ownerVars, queue, readerCancel, writerCancel,
                 writer, full, spawnVars>>

\* LogReaderFinishedGuard::drop, a blocking send.
ReaderAcks ==
  /\ reader = "ack" /\ ~full
  /\ reader' = "gone"
  /\ UNCHANGED <<processVars, ownerVars, queue, readerCancel, writerCancel,
                 writer, full, spawnVars>>

-----------------------------------------------------------------------------
(* The writer thread. *)

WriterTakes ==
  /\ writer = "recv" /\ queue # <<>>
  /\ queue' = Tail(queue)
  /\ writer' = IF writerCancel THEN "gone" ELSE Head(queue)
  /\ UNCHANGED <<processVars, ownerVars, readerCancel, writerCancel, reader,
                 full, spawnVars>>

WriterDisconnected ==
  /\ writer = "recv" /\ queue = <<>> /\ ~SenderAlive
  /\ writer' = "gone"
  /\ UNCHANGED <<processVars, ownerVars, queue, readerCancel, writerCancel,
                 reader, full, spawnVars>>

\* write_all makes progress, to the end or not.
WriterWrites ==
  /\ writer \in {"input", "response"} /\ ~writerCancel /\ room
  /\ room' = FALSE
  /\ writer' \in {writer, "recv"}
  /\ UNCHANGED <<slave, output, ownerVars, queue, readerCancel, writerCancel,
                 reader, full, spawnVars>>

\* An input that makes no progress is given up; a terminal reply is not.
\* Reporting the drop is a try_send: a full event channel does not hold it.
WriterTimesOut ==
  /\ writer = "input" /\ ~room
  /\ writer' = "recv"
  /\ UNCHANGED <<processVars, ownerVars, queue, readerCancel, writerCancel,
                 reader, full, spawnVars>>

\* The poll on the terminal and on the cancellation pipe ends every wait.
WriterInterrupted ==
  /\ writer \in {"input", "response"}
  /\ \/ writerCancel /\ writer' = "gone"
     \/ ~writerCancel /\ slave = "none" /\ writer' = "recv"
  /\ UNCHANGED <<processVars, ownerVars, queue, readerCancel, writerCancel,
                 reader, full, spawnVars>>

-----------------------------------------------------------------------------
Init ==
  /\ slave = "none" /\ output = FALSE /\ room = TRUE
  /\ handles = FALSE /\ closing = "none" /\ master = FALSE /\ taken = FALSE
  /\ queue = <<>>
  /\ readerCancel = FALSE /\ writerCancel = FALSE
  /\ reader = "gone" /\ writer = "gone" /\ full = FALSE
  /\ start = "begin" /\ killed = FALSE

Starting == SpawnChild \/ MakeReader \/ MakeHandles \/ StartFails
Close == Escalate \/ CloseReader \/ CloseWriter \/ CloseQueue \/ CloseMaster
Reader == ReadOutput \/ ReaderEnds \/ ReaderAcks
Writer ==
  WriterTakes \/ WriterDisconnected \/ WriterWrites \/ WriterTimesOut
    \/ WriterInterrupted
Process ==
  ReadsInput \/ WritesOutput \/ ChildExits \/ DescendantExits \/ Killed
    \/ HungUp
SchedulerLoop ==
  SendInput \/ ExitHandled \/ DrainDeadline \/ EventsFill \/ EventsReceived

Next == Starting \/ Process \/ Close \/ TaskEnds \/ SchedulerLoop \/ Reader \/ Writer

Spec == Init /\ [][Next]_vars

(***************************************************************************)
(* The two threads run; close goes through once it has begun; the scheduler *)
(* handles the exit and the drain deadline.  Nothing is assumed of the     *)
(* processes but that the two signals end them, nor that events are received.  *)
(***************************************************************************)
Fairness ==
  /\ WF_vars(ReadOutput) /\ WF_vars(ReaderEnds)
  /\ WF_vars(Writer)
  /\ WF_vars(CloseWriter \/ CloseQueue \/ CloseMaster)
  /\ WF_vars(TaskEnds) /\ WF_vars(ExitHandled) /\ WF_vars(DrainDeadline)
  /\ WF_vars(Killed) /\ WF_vars(HungUp)

FairSpec == Spec /\ Fairness

-----------------------------------------------------------------------------
(* Once the hangup has begun, every master endpoint is let go, although the  *)
(* process reads nothing, writes for ever and nobody receives events: only   *)
(* then does SIGHUP end an escaped session (PtyShutdown::close).  A run whose *)
(* exit was handled gives its terminal back, also when a descendant keeps it *)
(* open (PtyShutdown::drop, the drain deadline).  A start that fails after   *)
(* the fork leaves neither child nor terminal behind, even if the child      *)
(* ignores SIGHUP (SpawnedChildGuard).  And the reader never waits for the   *)
(* writer: output is read although input and terminal replies are stuck      *)
(* (PtyEventProxy::send_event).                                              *)
EndpointsReleased ==
  /\ closing = "closed" ~> Released
  /\ (start = "done" /\ ~handles) ~> Released
  /\ start = "failed" ~> slave = "none" /\ Released
  /\ (output /\ reader = "poll") ~> ~output \/ readerCancel
=============================================================================
