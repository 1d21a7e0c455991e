------------------------------ MODULE InputPath ------------------------------
(***************************************************************************)
(* Typed input on its way to a process: prepared against two byte budgets  *)
(* (scheduler/input.rs), kept in the TUI's backlog while the scheduler's   *)
(* input channel is full (micromux-tui lib.rs), queued for the terminal of *)
(* the service's current run (scheduler.rs, scheduler/pty.rs) and written  *)
(* by that run's writer thread.  A reservation travels with its payload    *)
(* and is released wherever the payload ends.                              *)
(*                                                                         *)
(* Payloads are numbered in the order in which they were typed; one batch  *)
(* may carry several of them after a merge.  Sizes are small numbers: what *)
(* matters is what fits.                                                   *)
(***************************************************************************)
EXTENDS Naturals, Sequences, FiniteSets, SequencesExt

CONSTANTS
  Services,       \* services of the session
  Sizes,          \* [kind |-> sizes a payload of that kind may have]
  MaxBatch,       \* MAX_PTY_INPUT_BATCH_BYTES, the limit of a merged batch
  SessionLimit,   \* PTY_INPUT_GLOBAL_MAX_BYTES
  ServiceLimit,   \* PTY_INPUT_PER_SERVICE_MAX_BYTES
  ChannelCapacity,\* PTY_INPUT_CHANNEL_CAPACITY
  QueueCapacity,  \* PTY_WRITE_QUEUE_CAPACITY
  MaxTyped,       \* bound: payloads typed
  MaxRuns         \* bound: runs of a service

\* Assumed by the modules that instantiate this one.
InputPathAssumption ==
  /\ Sizes \in [{"input", "paste"} -> SUBSET Nat]
  /\ {MaxBatch, SessionLimit, ServiceLimit, MaxTyped, MaxRuns} \subseteq Nat
  /\ IsFiniteSet(Services)
  /\ {ChannelCapacity, QueueCapacity} \subseteq Nat \ {0}

VARIABLES
  typed,      \* payloads typed so far
  backlog,    \* App.pending_pty_input
  channel,    \* the scheduler's input channel
  running,    \* [service |-> its current run, 0 without one]
  started,    \* [service |-> runs started so far]
  queue,      \* [terminal |-> the write queue of that run]
  listening,  \* the scheduler still receives from its input channel
  cancelled,  \* terminals whose writer was told to stop
  closed,     \* those whose write queue was taken as well
  left,       \* those whose writer thread has returned
  writing,    \* [terminal |-> the batches, at most one, its writer has in hand]
  used,       \* InputBudgetState.used
  share,      \* InputBudgetState.per_service
  throttle,   \* [service |-> InputDropThrottle]
  dropped,    \* history: [service |-> drops recorded since the last start]
  told,       \* history: [service |-> drops told in its events since then]
  written     \* history: [terminal |-> payload numbers written, in order]

budgetVars == <<used, share>>
dropVars == <<throttle, dropped, told>>
runVars == <<running, started>>
writerVars == <<queue, cancelled, closed, left, writing, written>>
threadVars == <<cancelled, closed, left>>
inputVars == <<typed, backlog, channel, listening, runVars, writerVars, budgetVars, dropVars>>

Terminals == Services \X (1..MaxRuns)
Batches == [service : Services, kind : {"input", "paste"}, bytes : Nat,
            ids : Seq(Nat)]

\* The sum of a function's values: as many as there are pairs of an argument and
\* a number up to its value.
Pairs(f) == UNION {{x} \X (1 .. f[x]) : x \in DOMAIN f}
Total(f) == Cardinality(Pairs(f))

\* The bytes of those batches that are for some services.
Weights(for, batches) ==
  [i \in DOMAIN batches |-> IF batches[i].service \in for THEN batches[i].bytes ELSE 0]
Bytes(for, batches) == Total(Weights(for, batches))

\* The bytes that exist anywhere.
Held(for) == [t \in Terminals |-> Bytes(for, queue[t]) + Bytes(for, writing[t])]
Existing(for) == Bytes(for, backlog) + Bytes(for, channel) + Total(Held(for))

-----------------------------------------------------------------------------
(* The budgets. *)

\* InputBudget::try_reserve.
Fits(s, bytes) ==
  /\ used + bytes <= SessionLimit
  /\ share[s] + bytes <= ServiceLimit

Reserve(s, bytes) ==
  /\ used' = used + bytes
  /\ share' = [share EXCEPT ![s] = @ + bytes]

\* InputPermit::drop for every batch of a sequence, saturating at zero.
Release(batches) ==
  LET Saturated(n, m) == IF n > m THEN n - m ELSE 0
  IN  /\ used' = Saturated(used, Bytes(Services, batches))
      /\ share' = [s \in Services |-> Saturated(share[s], Bytes({s}, batches))]

\* PreparedPtyInput::try_merge, which also absorbs the reservation.
Mergeable(a, b) ==
  /\ a.kind = "input" /\ b.kind = "input"
  /\ a.service = b.service
  /\ a.bytes + b.bytes <= MaxBatch

Merge(a, b) == [a EXCEPT !.bytes = @ + b.bytes, !.ids = @ \o b.ids]

-----------------------------------------------------------------------------
(* The TUI. *)

\* App::push_pending_pty_input for keys; a paste is always an entry of its own.
PushPending(b) ==
  IF b.kind = "input" /\ backlog # <<>> /\ Mergeable(Last(backlog), b)
    THEN Append(Front(backlog), Merge(Last(backlog), b))
    ELSE Append(backlog, b)

\* TerminalControl::try_send.
Room == listening /\ Len(channel) < ChannelCapacity

\* Mutant: a free place is taken although a backlog waits.
SendsWhenRoom == Room

\* App::enqueue_pty_input and enqueue_pty_paste: nothing overtakes the backlog,
\* and a payload for a scheduler that has stopped is discarded.
SendsNow == backlog = <<>> /\ Room
Type(s, kind, bytes) ==
  /\ typed < MaxTyped
  /\ typed' = typed + 1
  /\ Fits(s, bytes)
  /\ LET b == [service |-> s, kind |-> kind, bytes |-> bytes,
               ids |-> <<typed + 1>>]
     IN  IF backlog = <<>> /\ ~listening
           THEN UNCHANGED <<channel, backlog, budgetVars>>
           ELSE /\ Reserve(s, bytes)
                /\ channel' = IF SendsNow THEN Append(channel, b) ELSE channel
                /\ backlog' = IF SendsNow THEN backlog ELSE PushPending(b)
  /\ UNCHANGED <<listening, runVars, writerVars, dropVars>>

\* A payload that does not fit is refused as a whole and reserves nothing.
Refuse(s, bytes) ==
  /\ typed < MaxTyped
  /\ ~Fits(s, bytes)
  /\ typed' = typed + 1
  /\ UNCHANGED <<backlog, channel, listening, runVars, writerVars, budgetVars,
                 dropVars>>

\* App::flush_pending_pty_input, every PENDING_PTY_INPUT_RETRY: what fits goes
\* in order, and the first that does not returns to the front.
Flush ==
  /\ backlog # <<>> /\ Room
  /\ LET free == ChannelCapacity - Len(channel)
         n == IF Len(backlog) < free THEN Len(backlog) ELSE free
     IN  /\ channel' = channel \o SubSeq(backlog, 1, n)
         /\ backlog' = SubSeq(backlog, n + 1, Len(backlog))
  /\ UNCHANGED <<typed, listening, runVars, writerVars, budgetVars, dropVars>>

\* The same when the scheduler is gone: the whole backlog is discarded.
Discard ==
  /\ backlog # <<>> /\ ~listening
  /\ Release(backlog)
  /\ backlog' = <<>>
  /\ UNCHANGED <<typed, channel, listening, runVars, writerVars, dropVars>>

-----------------------------------------------------------------------------
(* The scheduler. *)

\* InputDropThrottle::record with the event that record_input_drop appends.
RecordDrop(s) ==
  /\ throttle' = [throttle EXCEPT ![s] =
       [armed |-> TRUE, suppressed |-> IF @.armed THEN @.suppressed + 1 ELSE @.suppressed]]
  /\ dropped' = [dropped EXCEPT ![s] = @ + 1]
  /\ told' = [told EXCEPT ![s] = IF throttle[s].armed THEN @ ELSE @ + 1]

\* PtyHandles::write_input of the current run, with the sender in place and the
\* receiver alive.
Accepts(s) ==
  LET t == <<s, running[s]>>
  IN  running[s] # 0 /\ t \notin closed \cup left /\ Len(queue[t]) < QueueCapacity

\* The input arm of the scheduler's loop: it never waits for a writer.
Dispatch ==
  /\ listening /\ channel # <<>>
  /\ channel' = Tail(channel)
  /\ LET b == Head(channel)
         s == b.service
     IN  IF Accepts(s)
           THEN /\ queue' = [queue EXCEPT ![<<s, running[s]>>] = Append(@, b)]
                /\ UNCHANGED <<budgetVars, dropVars>>
           ELSE /\ Release(<<b>>)
                /\ RecordDrop(s)
                /\ UNCHANGED queue
  /\ UNCHANGED <<typed, backlog, listening, runVars, threadVars, writing,
                 written>>

\* The scheduler returns and its end of the channel is dropped.
StopListening ==
  /\ listening
  /\ listening' = FALSE
  /\ Release(channel)
  /\ channel' = <<>>
  /\ UNCHANGED <<typed, backlog, runVars, writerVars, dropVars>>

\* InputDropThrottle::take_due and the summary that report_due_input_drops adds.
ReportDrops(s) ==
  /\ listening /\ throttle[s].armed
  /\ throttle' = [throttle EXCEPT ![s] =
       [armed |-> @.suppressed # 0, suppressed |-> 0]]
  /\ told' = [told EXCEPT ![s] = @ + throttle[s].suppressed]
  /\ UNCHANGED <<typed, backlog, channel, listening, runVars, writerVars,
                 budgetVars, dropped>>

\* ServiceRuntime::mark_started: a new terminal, and the throttle starts over.
Start(s) ==
  /\ listening /\ running[s] = 0 /\ started[s] < MaxRuns
  /\ started' = [started EXCEPT ![s] = @ + 1]
  /\ running' = [running EXCEPT ![s] = started[s] + 1]
  /\ throttle' = [throttle EXCEPT ![s] = [armed |-> FALSE, suppressed |-> 0]]
  /\ dropped' = [dropped EXCEPT ![s] = 0]
  /\ told' = [told EXCEPT ![s] = 0]
  /\ UNCHANGED <<typed, backlog, channel, listening, writerVars, budgetVars>>

\* The termination task ends and drops its PtyShutdown, or calls its close,
\* which takes the write queue as well.
Cancel(t) ==
  /\ t[2] \in 1..started[t[1]]
  /\ \/ t \notin cancelled /\ UNCHANGED closed
     \/ t \notin closed /\ closed' = closed \cup {t}
  /\ cancelled' = cancelled \cup {t}
  /\ UNCHANGED <<typed, backlog, channel, listening, runVars, queue, left,
                 writing, written, budgetVars, dropVars>>

\* The scheduler learns of the exit and drops the run's handles; the reader
\* thread's copy of the queue goes when it ends.
Exited(s) ==
  /\ running[s] # 0 /\ <<s, running[s]>> \in cancelled
  /\ running' = [running EXCEPT ![s] = 0]
  /\ closed' = closed \cup {<<s, running[s]>>}
  /\ UNCHANGED <<typed, backlog, channel, listening, started, queue, cancelled,
                 left, writing, written, budgetVars, dropVars>>

-----------------------------------------------------------------------------
(* The writer thread of a terminal: PtyWriter::run. *)

\* Mutant: the reservations of what is still queued are not released.
LeaveLeakingQueue(t, inHand) ==
  /\ left' = left \cup {t}
  /\ queue' = [queue EXCEPT ![t] = <<>>]
  /\ Release(inHand)

\* The thread returns, and what is still queued is dropped with the receiver.
Leave(t, inHand) ==
  /\ left' = left \cup {t}
  /\ queue' = [queue EXCEPT ![t] = <<>>]
  /\ Release(inHand \o queue[t])

\* The next message, unless the writer was cancelled while it waited for one.
Take(t) ==
  /\ t \notin left /\ writing[t] = <<>> /\ queue[t] # <<>>
  /\ IF t \in cancelled
       THEN Leave(t, <<>>) /\ UNCHANGED writing
       ELSE /\ writing' = [writing EXCEPT ![t] = <<Head(queue[t])>>]
            /\ queue' = [queue EXCEPT ![t] = Tail(@)]
            /\ UNCHANGED <<left, budgetVars>>
  /\ UNCHANGED <<typed, backlog, channel, listening, runVars, cancelled,
                 closed, written, dropVars>>

Disconnected(t) ==
  /\ t \in closed \ left /\ writing[t] = <<>> /\ queue[t] = <<>>
  /\ Leave(t, <<>>)
  /\ UNCHANGED <<typed, backlog, channel, listening, runVars, cancelled,
                 closed, writing, written, dropVars>>

\* The payload's allocation and reservation end; a cancelled writer goes.
Finish(t) ==
  /\ writing[t] # <<>>
  /\ writing' = [writing EXCEPT ![t] = <<>>]
  /\ IF t \in cancelled
       THEN Leave(t, writing[t])
       ELSE Release(writing[t]) /\ UNCHANGED <<queue, left>>

Wrote(t) ==
  /\ Finish(t)
  /\ written' = [written EXCEPT ![t] = @ \o Head(writing[t]).ids]
  /\ UNCHANGED <<typed, backlog, channel, listening, runVars, cancelled,
                 closed, dropVars>>

\* PTY_INPUT_WRITE_TIMEOUT, a closed terminal or the cancellation: the suffix is
\* dropped.  Only a writer that was not cancelled reports it, with try_send,
\* and the scheduler takes the report only for the latest run.
GaveUp(t) ==
  /\ Finish(t)
  /\ \/ UNCHANGED dropVars
     \/ /\ listening /\ t \notin cancelled /\ t[2] = started[t[1]]
        /\ RecordDrop(t[1])
  /\ UNCHANGED <<typed, backlog, channel, listening, runVars, cancelled,
                 closed, written>>

-----------------------------------------------------------------------------
InputInit ==
  /\ typed = 0
  /\ backlog = <<>> /\ channel = <<>>
  /\ running = [s \in Services |-> 0]
  /\ started = [s \in Services |-> 0]
  /\ queue = [t \in Terminals |-> <<>>]
  /\ listening = TRUE
  /\ cancelled = {} /\ closed = {} /\ left = {}
  /\ writing = [t \in Terminals |-> <<>>]
  /\ used = 0 /\ share = [s \in Services |-> 0]
  /\ throttle = [s \in Services |-> [armed |-> FALSE, suppressed |-> 0]]
  /\ dropped = [s \in Services |-> 0]
  /\ told = [s \in Services |-> 0]
  /\ written = [t \in Terminals |-> <<>>]

Tui ==
  \/ \E s \in Services, kind \in DOMAIN Sizes : \E bytes \in Sizes[kind] :
       Type(s, kind, bytes) \/ Refuse(s, bytes)
  \/ Flush \/ Discard

Runs ==
  \/ \E s \in Services : Start(s) \/ Exited(s) \/ ReportDrops(s)
  \/ \E t \in Terminals : Cancel(t)

Writer(t) == Take(t) \/ Disconnected(t) \/ Wrote(t) \/ GaveUp(t)

InputNext == Tui \/ Dispatch \/ StopListening \/ Runs \/ \E t \in Terminals : Writer(t)

InputSpec == InputInit /\ [][InputNext]_inputVars

-----------------------------------------------------------------------------
(* The budgets count exactly the payloads that still exist somewhere between *)
(* the keyboard and a process, whichever way a payload ends: written, cut    *)
(* short, refused by a full queue, or dropped with a queue (input.rs); and    *)
(* every drop that the scheduler records for a run is told in the service's   *)
(* events exactly once, at once or in a summary that is still to come and has *)
(* a deadline (InputDropThrottle).                                            *)
InputAccounted ==
  /\ used = Existing(Services)
  /\ \A s \in Services :
       /\ share[s] = Existing({s})
       /\ dropped[s] = told[s] + throttle[s].suppressed
       /\ throttle[s].suppressed > 0 => throttle[s].armed

(* A process receives what was typed for its service in the order in which it *)
(* was typed and at most once, however often the backlog was used (lib.rs).   *)
InputInOrder ==
  \A s \in Services : \A n, m \in 1..MaxRuns :
    LET a == written[<<s, n>>]
        b == written[<<s, m>>]
    IN  \A i \in DOMAIN a, j \in DOMAIN b :
          (n < m \/ (n = m /\ i < j)) => a[i] < b[j]
=============================================================================
