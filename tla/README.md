# Verification of micromux

micromux supervises the services of a project: it starts each in a
pseudo-terminal when its dependencies allow, probes its health, restarts it
according to its policy, stores its output, and lets a terminal UI, a control
socket and an MCP server watch and command it. This directory holds TLA+
modules translated from the source, the TLC configurations that model-check
them on small instances, and TLAPS proofs of their main safety properties for
every instance.

Paths below are relative to `src/crates/`. Every definition's source lines are
in `PROJECT.json` under `map`.

## Inventory

### The supervisor (`micromux/src`)

| Component | State | Operations | Correct when |
|---|---|---|---|
| Service runtime, `RestartTracker` (`scheduler.rs` 66–612) | per service: intent, start request, run handle, displayed state, run ids, exit code, backoff deadline and delay, failure budget, parked log readers, blockers | `request_restart`, `request_enable`, `disable`, `mark_health`, `mark_killed`, `finish_current_run`, `finish_log_reader`, `apply_backoff`, `reconfigure` | intent, state and run handle agree after any sequence of calls; the budget bounds automatic restarts |
| Scheduler loop (`scheduler.rs` 1080–1179, 2264–2765) | the roster of runtimes, the service definitions, timers armed for one `select!` | commands, process events, timers, reload, drain | one process per service; a run awaited is a run that will be reported; requests are served |
| Schedule pass (`scheduler/schedule.rs`) | none of its own | rounds over the services until none starts; block recording; start attempts | nothing startable is left behind; recorded blockers are real |
| Reload and reconcile (`scheduler.rs` 768–861, 1829–2215) | a load in progress | reload before restart, enable and automatic restart; reconcile added and removed services | events handled meanwhile are not lost or undone |
| Dynamic services (`scheduler.rs` 1216–1827) | leases, revisions, idempotency window, tombstones | start, replace, stop, renew, expire, evict | a lease that is over ends, what is retired stays down, a retry is answered for the entry it was about, late reports are not taken for another entry's |
| Run tasks (`scheduler/pty.rs` 1777–2275) | token, process group, deadlines, PTY endpoints | request termination, escalate, hang up, stop probes, report the exit | a stop completes whatever the process does; reports are in order |
| Health probes (`health_check.rs`) | failures counted, reported verdict | delay, probe, wrap up, report | a verdict follows from the probes of this run |
| PTY input (`scheduler/input.rs`, `micromux-tui/src/lib.rs`, the writer thread of `scheduler/pty.rs`) | byte budgets, backlog, input channel, write queue per run | prepare, merge, send, dispatch, write, drop, report drops | reserved bytes are released once; input arrives in order, to the run it was typed at or a later one |
| PTY output (`scheduler/pty.rs`, the log reader thread) | ANSI filter, partial line, screen mode, rate limit, terminal emulator | read, split, filter, snapshot, flush | a stream gives the records its text is made of, whatever the chunks |
| PTY endpoints (`scheduler/pty.rs`) | handles, reader, writer, shared master | start, close, hang up, drain | the terminal is let go of, whatever processes do |
| Session model and log store (`model.rs`, `model/memory.rs`) | snapshots, event ring, visible log, ring of runs | publish, append, replace, clear, begin a run, reconfigure | late lines stay with their run; a screen is not shown twice; limits hold |
| Run files (`model/disk.rs`, `model/runlog.rs`) | bounded queue, file, published metadata, sparse index | write, rotate, remove, read consistently | a read is a part of what was written, in order, and as long as was asked |
| Configuration (`config/`, `spec.rs`, `env.rs`, `service.rs`, `graph.rs`) | none | parse, validate, interpolate, resolve | only acyclic, resolvable configurations are let through |

### Around it

| Component | State | Correct when |
|---|---|---|
| Control endpoint (`micromux-control/src/server/unix.rs` 91–256, `endpoint.rs`) | two advisory locks, a socket | one owner per project; a stale socket is replaced, a live one never |
| Control server (`server/unix.rs`) | connections, deadlines, subscriptions | a command is applied once at most and answered for what it did; an answer fits a frame and says what it leaves out; a lagging subscriber is brought up to date |
| Disk read pool (`server/unix/log_reads.rs`) | queue, workers, counters | slots are given back once, whoever leaves |
| Client and selection (`micromux-control/src/client.rs`, `select.rs`) | a connection; none between calls | a session that is up is not reported absent; what cannot be repeated safely is not |
| Remote attach (`micromux-tui/src/remote.rs`) | mirror of the session, cursor per service, reconnect backoff | no change is lost between subscribe and sync; the mirror converges |
| MCP server (`micromux-mcp/src`) | none between calls; permits for starts | a wait ends with the run it was asked about; log cursors neither skip nor repeat; a reported start or stop took place |
| TUI, CLI, screenshot tool | view state | (layout and wiring) |

### Interaction

    TUI / control server / MCP --Command--> scheduler task --spawn--> per run:
         ^                                      ^   |                  termination task
         |  snapshots, changes                  |   +--terminate token-->  probe loop
         +--------- session model <--writes-----+                        log reader thread
                                                +<----ProcessEvent----------+ (bounded channel)

The scheduler is a single task. It gives up control in its `select!`, while a
reload is pending, and in the final drain. Each run has a termination task, an
optional probe loop and a log reader thread; all of them report to the
scheduler over one bounded channel and are told to stop by cancellation tokens
(one per run, one for the session). A run's writer thread takes input from a
bounded queue; its reader thread answers terminal queries into the same queue
without ever waiting for it. The session model is written under a lock per
service and each change is published, after the lock is released, on a lossy
broadcast; every viewer, local or attached, reads the model again when told of
a change. The control server has one task per connection; its commands reach
the scheduler through the channel that the TUI uses, with a one-shot reply.
The MCP server is a client that finds sessions by probing sockets.

### What is hard here

Commands that arrive while the old process is still stopping; events of a run
the scheduler has already given up; readers that end before, after or never;
reloads during which the world goes on; timers that are only armed while the
scheduler waits; a bounded channel between tasks that wait for each other;
processes and descendants that ignore signals or keep a terminal open; changes
that are dropped, coalesced or published before anyone listens; cursors over
logs that are cut, rewritten and cleared meanwhile; deadlines on both sides of
a connection while a command is on its way; process ids, service ids and
socket paths that are used again.
`PROJECT.json` lists each hazard at its line with the properties that watch it.

## Modules

Every module below is a component with its own variables, `Init`, `Next` and
properties. What a definition translates is listed in `PROJECT.json`.

### The scheduler and its runs

**`ServiceRuntime`** — the runtime record and the methods that change it, as
operators from record to record, plus the pure predicates of the schedule pass
(`BlockingDependencies`, `ShouldConsiderStart`). One field per field of the
code's struct that control depends on. A backoff deadline is `none`, `waiting`
(ahead) or `due` (passed; the code keeps it until the next exit), the doubling
delay is a level up to `MaxBackoff`, an exit code is success or failure.
`Starting` does not appear: it lasts within one call.

**`Scheduler`** — the scheduler task, and the tasks of each run as its
environment. `pc` is where the task is (`select`, `reload`, `pass`, `cancel`,
`drain`, `done`); everything between two awaits is one action. The schedule
pass is several actions, one per service considered, because starting a
service is where runs begin; nothing else of the scheduler interleaves with it,
but the run tasks do. `inbox` is the process event channel split by service.
The tasks of different services are not ordered among each other; the reader
thread and the tasks of one run share a queue in the order they send.
A run is created with its reader, may be signalled once its token is set,
exits once, and its reader ends at any time. A configuration (`Configs`) is any
that `load_services_from_disk` lets through; a reload picks one or fails.
`armed` records which deadlines the backoff timer of the current `select!`
was computed from.

**`Supervision`** — the abstract specification: per service what the operator
wants, whether its run is down, up or stopping, and a generation. A launch
needs a wanted, down service and takes a new generation; a stopping run can
only end. `Scheduler` implements it under `LifeOf`.

**`RunTask`** — one run in detail, under what `Scheduler` takes as atomic: the
termination task's biased `select!` with its deadlines, the detached sender of
`Killed`, the probe loop with its delay, clean-up and the two steps of
`send_event`, over a channel of bounded capacity. `endsOn` says what the
process gives in to: the first signal, the kill, or only the loss of its
terminal. A request to terminate sends what the platform has, SIGTERM or a kill
that is final (`Platforms`).

**`Roster`** — which services exist and why. An entry is configured or
dynamic, live or retired (`stopped`, `expired`, `removed`), and has the
dependencies of its definition, its lease and revision if it is dynamic, and of
its run only what eviction and reports depend on: whether there is one, its id,
the held reader and the parked ones. Commands are one action each, as one
handler is; `restart`, `enable`, `restart_all`, `reconcile_config` and the
automatic restart check first, then await the file (`pc = "await"`, where only
process events are handled), then apply. Every wake-up goes through the
eviction of retired entries, which is several actions, and then through a
schedule pass if it asked for one; when a pass starts a service is left open
(`Scheduler` says when). `threads` are the processes and readers whose end the
scheduler has yet to hear of. `births` and the field `birth` are history: they
tell two entries with the same id apart, which the code does not. `records` is
the idempotency window; a request's digest identifies it. The session has a
configuration file and no shutdown, which would only stop it.

### A run's terminal and logs

**`InputPath`** — what is typed, from its preparation against the two byte
budgets to the writer thread of a run: the TUI's backlog with its merges, the
scheduler's input channel, the write queue of the current run, and the ways in
which a payload ends (written, cut short, refused, dropped with a queue). Where
the code drops a reservation the model takes the batch's bytes off both
counters; a batch is a sequence of numbered payloads.

**`Capture`** — the reader loop, a byte at a time: `AnsiFilter` with its states
and its caps, the deferred CR, lines that are full, the alternate screen with
its rate limit and the flush at the end. Bytes are symbols, one for each class
that the code tells apart: a CSI ends at any symbol of the range that ends one
(`Finals`), a string at BEL, at ESC and a backslash, or at the C1 terminator. `Shown` is the reference: what a terminal shows of a
plain stream.

**`TerminalSize`** — the width, from the TUI's layout over the command channel
to the terminals and, one read later, to the reader's emulator.

**`PtyEndpoints`** — who holds the master side of a run's terminal, and the
steps of a start before it has succeeded. The terminal's buffers are a bit
each: there is output to read, there is room for input.

**`LogStore`** — one service's entry of the session model: the visible log, the
ring of runs with their own numbering, events and health attempts, retention by
lines and bytes, and the TUI's cached copy behind a broadcast that may lag.

**`RunFiles`** — the file of one run: a bounded queue, a worker that writes,
publishes, rotates and removes, and readers that read without a lock what the
published metadata says, try again when the epoch changes and keep an index of
offsets between their reads. An offset counts records. `live` is the id of the
screen whose last frame the next one replaces: a frame of another screen, or one
after `ClearVisibleLogs`, is appended, directly behind the live one if no text
came between.

### What a service is given

**`Environment`** — `Service::new` over the dotenv files, the supervisor's own
environment and the configuration: reading lines, the map whose keys keep their
places, the expansion of one value after another, paths and ports. A text is a
sequence of symbols, one for each character that the code tells apart. `defs`
is history: every definition in the order written. `Meant` is the reference: what
these definitions mean, one after another, by a grammar of references, quotes
and comments instead of the code's scanners.

### Clients of a session

**`Endpoint`** — the two locks and the socket of a project over its sessions'
starts, ends and crashes; `runtime_dir` may lead two of them to different paths.

**`Connection`** — tools' requests over connections that break: framing buffers
in both directions, the server's task per connection with its permit, the
command channel and the one-shot reply, deadlines on both sides, the repetition
of requests that are safe to repeat, the end of the session and its crash.

**`ReadPool`** — the pool of blocking reads, an atomic access per step;
counters are modulo `Word`.

**`Replies`** — how an answer is cut to fit a frame: for each kind of answer its
trimming and the binary searches, over lengths of encoded texts.

**`Mirror`** — the attached client's copy of a service and its handlers for each
kind of change, over a subscription that may lag, connections that break, and
a session that may be another one afterwards. What the client has still to do is a
sequence of steps (`todo`), so that the session moves between any two requests.

**`Waits`** — the MCP tools that wait for a service, over the record and
operators of `ServiceRuntime` (by INSTANCE): the tool reads the service's
snapshot, commands, polls, and fetches the health attempt and logs, one
request at a time.

**`LogFollow`** — the tools that follow logs (`Kind = "logs"`) and events: pages
of several services, merged, shaped into records and cut, and the cursors
returned to the caller. Where a follower without a cursor starts is what the run's
summary says, which need not be the log's end (`CurrentCursors`). `seen` is history: what the caller was given.

**`SessionStart`** — `start_session` and `stop_session` against processes that
launch, serve, drain and die, with process ids that are used again.

**`Selection`** — the choice of a session from a scan of directories and probes
of sockets, with the second scan for the project's own, while sessions come
and go.

### Instances and proofs

**`MCScheduler`**, **`MCRunTask`** instantiate one module. **`MCEndings`**,
**`MCTerminal`** and **`MCSession`** put several side by side: the variable
`part` says which component a behaviour is about; its module has all of its
initial states and steps, the others rest, and each property speaks of
its own part. So a run's states are the sum of its parts' and not the product.
Where parts share variables with another INSTANCE of the same module, they are
two instances with different constants. The components that have proofs are
extended instead of instantiated (`MCEndings` extends `Roster`; `MCTerminal`
extends `InputPath`, `TerminalSize`, `LogStore` and `RunFiles`; `MCSession` extends `Roster`,
`Mirror`, `Endpoint`, `ReadPool`, `Connection`, `SessionStart`, `Selection` and
`Waits`), so that a run checks the very definition that a theorem states.

Eight modules hold the proofs, next to the component each is about:
**`SchedulerProofs`** (types, with the operators of `ServiceRuntime`; processes,
states and the refinement; readers, budgets, drain, schedule pass),
**`RosterProofs`** (the roster; the reports of one run), **`TerminalProofs`**
(typed input: order and budgets; the terminal's size),
**`LogStoreProofs`** (the visible log and the TUI's copy), **`RunFilesProofs`**
(the file of a run and its readers, on the lemmas of `LogStoreProofs`),
**`ControlProofs`** (ownership, choice of session, read pool, requests over
connections), **`MirrorProofs`** and **`ToolProofs`** (starts and stops, waiting
tools).

Operators whose comment begins with "Mutant" are variants of a definition with
a plausible bug. No specification uses them; they show that each property can
fail: with the variant in the definition's place TLC reports a violation.

## Runs

| Run (configuration) | Instance | Shows |
|---|---|---|
| `scheduler_life` (`SchedulerLife`) | one service with a healthcheck, 3 runs, budgets 1 and 2 and `always`, doubling up to level 2 | processes, readers and states accounted for, automatic restarts within the budget; implements `Supervision` |
| `scheduler_pair` (`SchedulerPair`) | a dependent declared before its dependency, three conditions and policies | fixed point of the pass, accuracy of blockers |
| `scheduler_fair` (`SchedulerFair`) | one service, 2 runs, fairness | requests served, shutdown completes; parked readers are told to end and, unless they stay blocked off Unix, released |
| `run_task` (`RunTaskStop`) | both platforms, 2 retries, a channel of 1, 4 reports | order of reports, verdicts, exit always reported, stop completes |
| `endings` (`Endings`) | *lease*: two ids, both dynamic, two slots; *endpoints*: one run, a write queue of 2; fairness | dependencies stay acyclic; leases end; the terminal is let go of |
| `terminal` (`Terminal`) | *input*, *capture*, *size*, *log*, *file*, *logs*, *events*, *env* | budgets and order of input; records of every short stream; settled width; visible log and the TUI's copy; reads of a file that rotates; followers' cursors; values that reach the process as written, paths refused exactly when they mention an unset variable |
| `session` (`Session`) | *file*, *replay*, *mirror*, *pool*, *owner*, *wait*, *calls*, *starts*, *stops*, *both*, *select*, *reply* | retirement and reports; convergence of the mirror; slots; ownership; answers about one run; mutations applied once; starts and stops; no session overlooked; pages that fit |
| `scheduler_wakeup`, `roster_replay`, `mirror_gap`, `successor`, `follow_refused` | as above | the counterexamples below |

### Bounds of the scheduler, a run and the roster

`MaxRuns` caps the run ids of a service: three let an old run's events,
its successor's and a third one's overlap, which is more than the code's
comparison with the current id can confuse, and are enough to spend a budget of
one and go past it. `MaxInbox` caps the events queued when a probe reports
(the others are bounded by the runs). `MaxBackoff` is where the doubling stops;
level 2 distinguishes first, doubled and capped. `MaxReports` caps the verdicts
of a run; `Capacity` 1 makes the channel full as soon as anything is in it.

`MaxRetired` is 0 so that every retired entry is to be evicted as soon as it
may (8 in the code), `Window` 1 (64) so that a second record of one key or
another is one too many; `MaxServices` 1 makes the limit bind, 2 lets dynamic
services depend on each other. `MaxRevision` 2 gives a replacement to be
replayed, `MaxBirths` 2 an id that is used again, with run id 1 again
(`MaxRuns` 1). The part *lease* enters each id once, as leases do not look at
births. The policy grants only bounded leases (`Leases`); an unbounded one is a
bounded one that never elapses, which no fairness excludes. The file of part
*file* has none, one or both of two ids.

Constraints. `Reduction` lets the environment wait while the scheduler runs
straight-line code (`pass`, `cancel`) that does not read what the environment
changes, so the same states are reached in another order, and stops at the end.
`Focus` adds, for the run that is not about readers, queues or shutdown,
that a reader ends when nothing else of its service is in flight, that at most
one event of a service is queued, and that the session is not shut down; the
first two quantities do not influence blockers except through the
order of events, which stays arbitrary across services. `QuickPass` narrows the
search for the counterexample only.

### Bounds of the terminal

Input: typed bytes of size 1 and pastes of size 2 against limits of 3 and 4, so
that one service can exhaust its share and two the whole; a channel and a queue
of 1, which the third payload finds full. One run per service in the run that
is checked: input for a run that is not there is dropped or kept by the
backlog, and a second run adds a queue of its own. Capture: all streams over
five alphabets (plain text with CR and LF up to 6 bytes, colours and strings up
to 4, the alternate screen up to 7, an unterminated string up to 6, split
characters up to 8), long enough to pass each cap (a line of 7, a payload of
2, one update a window). Size: three widths that the sidebar and the split
divide differently, a channel of 2. Log: two retentions, two runs, live and
plain updates, an id inserted twice. File: a file of 3 records and a queue of 1,
so that four updates rotate and refuse; two screens, so that a frame is
appended behind a live one, by a screen entered again or after a clear, and
replaced in its turn; other runs' lines behind the second one (`GapsAtThree`);
two attempts, so that the second may fail. Following: pages of 1 and 2, two retained
records of three, two services, and one clear, replacement, eviction or
insertion.

### Bounds of the session

Mirror: a log of 2 lines read in pages of 1, so that a read takes more than one
request and loses lines; three writes and one broken connection put a write
before, between and after the steps of a synchronisation. Pool: three reads
for a queue of 1 and two workers, so that one is refused and all workers can be
abandoned. Owner: three sessions, so that a third one comes while the second
waits for the first; two paths. Wait: two runs, one line, one command of
another client. Calls: two callers with four tools between them, so that two
mutations, a mutation and a shutdown, and a retried read overlap; three
connections, so that one that is still served is not used again; one permit.
Starts and stops: three processes with two ids, so that an id is used again;
two directories for each tool alone, one for both at once. Select: two
sessions of one project, one of a project inside it and one that speaks another
protocol, in two directories, and one selector of each kind. Reply: up to three
items of short and long characters against a frame of 12 bytes, where an empty
item, one and two fit.

Environment: every value up to 5 symbols over three alphabets (single quotes;
double quotes with escapes; references) and up to 6 over double quotes with
comments, so that an escaped quote has its closing quote and a comment behind
it; up to three lines of two names with configurations of at most two entries,
so that a name is defined in both or twice in one; every path up to 5 symbols,
over a variable that is set, one that is not, and an empty name.

`CHECK_DEADLOCK FALSE`: the scheduler task, a run's tasks, a tool's call and the
resolution of a configuration end by design, and the bounds stop the rest.

## The counterexamples

**A backoff waits for an unrelated event** (`scheduler_wakeup`). `next_backoff`
(`micromux/src/scheduler.rs` 2621) looks only at deadlines later
than now. If a deadline passes while the scheduler handles a wake-up that
schedules nothing (input, a drain deadline, a finished reader), the following
`select!` has no timer for it. The comment at line 1094 says the timers are
there so that restart backoffs do not "wait for an unrelated event"; in this
case the restart does. `BackoffEnds` under `FairSpec` states the comment, and
TLC's trace is: a start fails, the pass ends with the timer armed, the deadline
passes, a quiet wake-up re-enters the `select!` with nothing armed, and nothing
happens any more. The lease and drain timers have no such filter.

**A retry is answered for another service** (`roster_replay`).
`replay_idempotent` (`micromux/src/scheduler.rs` 1229) takes a record to be
about a service if the id and the revision agree. Revisions start at 1 with
each entry, an id is free again once its retired entry was evicted, and records
outlive eviction. `ReplayIsOriginal` says what the tool description at
`micromux-mcp/src/lib.rs` 1977 says, that a replay "waits on the original run";
TLC's trace is: a start with a key, a stop, the eviction, a start of the same
id without the key; a retry of the first start would now be answered with the
first answer and wait for the other service's run.

**The handoff loses a change** (`mirror_gap`). The remote client subscribes,
reads everything once more and goes on to the connected loop; the comment at
`micromux-tui/src/remote.rs` 427 says that this "cannot lose a transition".
`subscribe_for_version` returns once its request is written; the server
subscribes to the model when the task of that connection has read it. A change
between the second read and that moment is in neither, and the mirror stays
behind until the next change of its kind.

**Two sessions run the services of one project** (`successor`). `serve` drops
its `EndpointGuard`, and with it the locks, when the shutdown begins, and the
scheduler drains for a while after that. The comments at
`micromux-control/src/server/unix.rs` 92 and 97 say that the locks are held for
the whole lifetime of the process.

**A follower is refused for ever** (`follow_refused`).
`bound_follow_response_lines_page` (`micromux-control/src/server/unix.rs` 759)
evaluates `capped || bound_follow_response_lines(..)`: when more lines than
`MAX_LOG_TAIL` are behind the cursor, the page is not bounded in bytes. If it
is longer than a frame, it is refused with `LimitExceeded`, and so is each
repetition, as the cursor does not move. The comment at line 713 says that such
a log "is fully reachable by following `next_seq`".

### Exceptions and smaller observations

What a property excepts, it excepts because the code does not do it:

* `MirrorFresh` excepts the gap above, an id inserted anew while the mirror
  knew the old one, and a screen frame replaced between two pages of one read.
  `ViewFresh` excepts the same use of an id.
* `FollowedOnce` excepts records rewritten in place after they were read (a
  cursor never reads the last line again), what a wait comes too late for (its
  answer has no gap), and an id inserted anew under the cursor. `follow_all`
  fails for logs when a service is evicted under it, and leaves it out for
  events.
* `SlotsAccounted`: between the two accesses of a caller that leaves and a
  worker that ends, the abandoned counter can be below zero, that is, very
  large; a call in that moment is refused.
* `AnswerOfOneRun` speaks of the runs that answers are about. An exited service
  whose dependency is not ready is shown as blocked, and `wait_for_exit` does
  not see the exit.
* `OutcomesTrue` and `MutationAccounted` hold of what is reported as done. A
  stop may have reached a second session that took over the socket meanwhile;
  a start ends its own serving child when a stopping predecessor answered its
  probe; an answer that is late is reported as ambiguous.
* `AbsenceIsReal`: an unusable endpoint that only the second scan finds is
  reported as the absence of a session; the property speaks of sessions that
  were up during the whole call and were scanned.
* `RecordsFaithful` speaks of streams shorter than a full line: at the limit a
  character may be cut in two (`micromux/src/scheduler/pty.rs` 62).
* `AsWritten` excepts values that are empty but for a comment:
  `strip_value_inline_comment` (`micromux/src/env.rs` 152) trims the value
  before it looks for a `#` with whitespace in front of it, so that
  `FOO= # comment` sets `FOO` to `# comment`, where the comment at line 122 says
  that one "starts at the first `#` preceded by whitespace".
* `AsWritten` excepts names that are defined twice in files: `EnvMap` keeps the place
  of the first definition with the value of the last (`micromux/src/env.rs` 93),
  and values are expanded in the order of places. With `A=1`, `B=$A`, `A=2` the
  process is given `B=2`.
* `AsWritten` excepts values that are half quoted: text behind a closing quote
  other than a comment is cut off, and `"a\"` is taken for a quoted text
  although its last quote is escaped.
* An empty name (`${}`) is neither set nor missing (`micromux/src/env.rs` 344), so
  `${}/x` is the path `/x`; `AsWritten` does not count it as unset.
* `RunFiles` reads tails by sequence numbers, which have gaps, so that a tail may
  be shorter than asked (`micromux/src/model/runlog.rs` 260).
* `Replies` measures with a `truncated` flag, so a page of exactly
  `RESPONSE_MAX_BYTES` that needs no cut is cut or refused
  (`micromux-control/src/server/unix.rs` 848, 965).

## Fairness

`Scheduler!FairSpec`. The select! polls its branches in random order, so a
branch that is ready infinitely often is taken: strong fairness for events,
timers and the shutdown token. Straight-line code, the blocking reload task and
the drain are weakly fair. A process need not exit before it was signalled;
commands, probes and quiet wake-ups are not fair. Nothing is assumed of a
reader, which may wait for a descendant that keeps the terminal open. On Unix a
cancelled reader ends all the same, since dropping the write end of its pipe
interrupts its wait (`scheduler/pty.rs` 1105); elsewhere it reads until EOF
(`scheduler/schedule.rs` 315). So `ReaderReleased` has two parts. A parked handle
is released or its reader was told to end and has not ended, on every platform;
and if told readers end (`FairReader`, true on Unix and a hypothesis of this part
alone), every parked handle is released. That a signalled process exits, and is
reported, is what `RunTask` shows (`StopCompletes`, `ExitReported`).

`RunTask!FairSpec`. The termination task and its timers are weakly fair; the
channel serves waiting senders in order (strong fairness of the two sends that
compete with others); the scheduler keeps receiving. The process ends only when
it was dealt what it cannot survive. A probe need never end, nor its clean-up:
the two-second abort of `stop_health_task` is what `ExitReported` rests on.

`Roster!RosterFairSpec`. The loop's straight-line steps and the load of the file are
weakly fair; the expiry timer is a branch of the same randomly polled select!
and strongly fair. Nothing is assumed of commands, runs or the clock.

`PtyEndpoints!Fairness`. The two threads run; a hangup that has begun goes
through; the scheduler handles the exit and the drain deadline; SIGKILL and
SIGHUP end a process that they reach. Nothing is assumed of the processes
otherwise, nor that the scheduler receives events: the reader may wait for ever
to report, and must have let go of the terminal before that.

`MCEndings!EndingsSpec` has the last two. They do not disturb each other: in a
behaviour of one part no fair action of the other is ever enabled.

The other runs check safety only. `MirrorFresh` says that the mirror agrees
with the session whenever nothing is on its way, which is what convergence comes
to; that connections are made again is not assumed.

## Proofs

The theorems are about every value of the parameters: any set of services, any
valid configurations, any bounds, retries, capacities, clients and connections.
In each proof module the inductive invariant is `IInv` (`Accounts` beside it in
`SchedulerProofs`, `RunIInv` and `Verdicting` for a run's reports, `FileIInv` for
its file), the proof that a step
keeps it has a lemma per action or group of actions, and the theorems named
`...Holds` follow from it.

### Scheduler

* `SchedulerProofs!TypeCorrect` — `TypeOK` is inductive as it stands. Each
  operator of `ServiceRuntime` has a lemma on its type; the step is split into
  the loop's variables and the data.
* `SchedulerProofs!Invariance` — the invariant is
  `TypeOK /\ RunsAgree /\ StateMatchesRun`. `OneProcess` alone is not
  inductive: a start needs that no process is left when the run handle is
  empty, hence that every run awaited is alive or has its exit queued, hence
  that a queued exit is of a run that is neither alive nor yet to come, hence
  that run ids only grow. `RunsAgree` states these. `OneProcess`,
  `RunAccounted` and `StateMatchesRun` follow, and so does `Implements`: each step
  changes `LifeOf` of each service by a step of `Supervision` or not at all
  (`KeptLife` and the `Sound` lemmas).
* `SchedulerProofs!AccountsInvariance` adds four accounts.
  `ReadersAgree`: handles, reader threads and queued ends of a service
  correspond one to one; it rests on run ids that grow, so that the end of
  a parked reader is never taken for that of the run in place. `BudgetsAgree`:
  what was spent since the last reset and what remains never exceed the configured
  budget together; a reload that changes the budget resets both. `DrainedOut`: the drain
  loop leaves without a time-out only when no run handle is left. `PassesAgree`:
  during a round of the pass that has not made progress yet, what was looked at
  is settled (`RoundSoFar`). It is what `NoMissedStart` and `BlockedAccurate` rest on,
  and needs that a round without a start only takes services down, so that
  nothing but a backoff that ends can unsettle one.

### A run's tasks

* `RosterProofs!RunInvariance` — `TypeOK` with `ProbeSense` (what the probe
  loop's place implies) and `Reports` (which reports the channel can hold for
  each place of the termination task). `ExitIsLast` is not inductive without
  knowing that no sender is left when the exit is sent: `Senders` says so, and
  `KillProgress` relates the signal, the detached sender and the report.
  `ExitIsLast`, `KilledAnnounced` and `ProbeOverAtExit` follow.
* `RosterProofs!VerdictEarnedHolds` — the loop's own count is set back when a
  verdict is sent and not when a probe passes, the history's when a probe
  passes. `FailuresCounted` relates the two at the places where no success is on
  its way; `Alternates` says that the loop remembers an Unhealthy that no
  Healthy has followed.

### The terminal: typed input and size

`TerminalProofs!Invariance` — payloads are numbered as they are typed, so their
order is that of numbers, and each place is said to be below the next. What
waits is ordered as a whole: the channel below the backlog (`Waiting`), and what
a terminal has written, has in hand and has queued below both (`Ahead`,
`Ordered`). Across runs that is not inductive: it has to be known that only the
latest terminal of a service is given anything (`Latest`) and that the others'
payloads are older (`Apart`). A merge is the only step that rewrites a batch; it
happens at the backlog's end (`PushPendingOrder`). `InputInOrder` follows, for any
number of runs of a service, of which the `terminal` run has one.

`TerminalProofs!AccountsInvariance` — what a budget should be is a sum over
queues of any length and any finite set of terminals. `InputPath` defines a sum as
the number of pairs of an argument and a number up to its value (`Total`), and not
by a fold, so that what the steps need of it follows from bijections and unions of
finite sets instead of an induction: a sum over two parts (`TotalOfParts`), under
other names (`TotalRenamed`) and after one change (`TotalChanged`); hence the bytes
of a queue that grew, was cut or had a payload merged into its last
(`BytesConcat`, `BytesCut`, `BytesPush`) and of the terminals after a step of one
(`HeldChanged`). A step then reserves what comes into existence
(`BudgetsReserved`), releases what ends (`BudgetsReleased`) or moves what exists
(`BudgetsKept`). That the subtraction saturates is never needed, which is what
`BudgetsReleased` shows. `Drops` is inductive by itself. `InputAccounted` follows.

`TerminalProofs!SizeInvariance` — `Queued` reads the command channel from its end:
the last resize in it, or the scheduler's size if there is none, is the one that the
TUI takes for settled, so a resize that is dropped must not become settled.
`LooksAgain` says what a chunk read at another size is followed by: its reader
looks at the size before the next. `SizesAgree` follows, for every width, layout and
capacity of the channel.

### The visible log and the TUI's copy

`LogStoreProofs!Invariance` — `Faithful`: the visible log is the end of the history
of what was shown (`EndOf`, line by line from the back, so that an append to both
and an eviction at the front keep it), the history is in the order of its numbers and
of its runs (`Ordered`), the byte count is the sum over the lines (`Counts`) and both
limits hold (`Within`). They need each other: a push decides by the count how many
lines to evict, so it keeps to the byte limit only if the count is exact, and a
replaced frame is the history's last line only if the log's last line is. That
subtractions saturate is never needed. The log is empty only when nothing was shown
since it was cleared, so the latest line can be replaced.

The cache of the TUI is related to the log by `Aligned`: what both hold is the end of
the cache and the beginning of the log, and only the last line of that may have an
older text. Every write keeps a cache aligned (an eviction may leave less in common,
a replacement touches the last line, a cleared log leaves nothing in common), and
drawing makes an aligned cache the log (`RenderLogsKeeps`), since it fetches the
last cached line again. `Heard` says that a cache that is not the log is dirty or
will hear of a change. `VisibleFaithful`, with its cursors, and `ViewFresh` follow, for
every retention and any number of runs, writes and insertions.

The bytes of a log, a rebuilt buffer and the merging of fetched lines into the cache
are recursive functions over the number of lines. The library's induction takes an
operator, so `Induction` is for a set of numbers instead (from the well-foundedness
of `<`), and `Recursion` shows that a step for each number has a function that takes
them all; `SumIs`, `SumSplit`, `RebuiltIs` and `CachedIs` are what the steps use.

### The file of a run and its readers

`RunFilesProofs!FileInvariance` — what a page should be is said of the segment that
its reader saw, so the invariant follows a record from the service to the page.
`QueueOrder` and `FileOrder`: a line's first record has a greater number than all
before it, in the queue, in the worker's hand and in the file, and another frame
comes after a record of its line. The queue may drop that record and a rotation may
take it away; the worker then appends the frame instead, because the metadata says
what the last line is (`OpFits`). So every file is `InTurn`. `Summary`: the
metadata describes the file but for one record that is written and not yet
published. `Indexed`: an index that names the current epoch is right about what it
has scanned (`Knows`). `Reading`: a reader whose epoch is still current has seen a
prefix of the file, and has its page.

Reading itself is a function in the model: the scan of one record after the other
from where the index lets it start. `StartIs` says that nothing asked for is before
that place; for a tail, that the scan starts at a line's first record and before the
last line. `ReadTo` says what is taken after some records: whatever is asked for of
them and has not been pushed out by a later line, each line with its latest
text; the last line taken is that of the last record, so that another frame is the
text of the right one. Each record keeps it (`ScanReaches`), a page that stops at its
limit has stopped before a new line (`PageIs`), and the scan keeps the index right
(`ScannedKnows`, with the binary insertion of `ObservedIs`); an induction over the
number of records gives `SegmentRead`. A file that was rotated while it was read may
give any page and any offsets, under the epoch that the reader saw: the page is
rejected and the offsets are discarded. `ReadFaithful` follows, for every size of the
queue, the file and the cache, any number of lines, rotations and attempts, and
any query, any set of screens and any order of frames, text and clears; the run has
three lines per file, one offset, two screens and two attempts.

### Roster

`RosterProofs!Invariance` has, beside the types (`Shaped`), `TargetsLive`: a
command that waits for its targets was checked, and nothing retires them
meanwhile. `RetiredStaysDown` and the graph need that what a reload, a
reconciliation or a removal rewrites keeps live services among live ones.
`ReportsFindTheirEntry` needs `ReadersHeld` (a reader still to report is the
run's or is parked), `RunsPassed` and `OnceEach` (a report is identified by its
kind, service and run), since an entry is evicted when it parks and runs nothing.
`GraphSound` is acyclicity as the existence of a rank into an interval as long
as the roster. Commands, reloads and reconciliations check the candidate they
then put in place, so the proof is that the roster becomes that candidate
(`SoundWith`, `SoundOver`); an eviction checks nothing, and there the ranks that
remain are packed into the shorter interval (`SoundWithout`).

### Clients of a session

* `ControlProofs!Invariance` — `Locks` ties each lock to the places of
  a session that go with it, `Sockets` says of whom a socket is, `Apart` that
  a path which is probed has no owner. They need each other: a session that
  binds finds its path clear because only an owner puts a socket there.
* `ControlProofs!SelectionInvariance` — of a session that is up during the whole
  call it has to be known that its socket is there and no other's
  (`Reachable`: one session of a project is up), that it is probed (`Covered`), and
  that what was heard from its socket is its own answer or none to use
  (`Truthful`). A current selection looks twice and keeps of the first
  look only its outcome; that nobody is meant if this is "none" is
  `NoneMeant`. `AbsenceIsReal` follows, for every list of directories.
* `ControlProofs!PoolInvariance` — `Placed` says where a job can be, `JobsAgree`
  ties the state that caller and worker race for to the worker that has begun
  it, `Counts` has each counter as a sum of cardinalities. The abandoned counter
  may be one turn of the word above its sum: the caller marks a job before it
  counts it, and the worker may be faster.
* `MirrorProofs!Invariance` — `MirrorFresh` speaks only of states in which nothing
  is on its way, so what holds in between is for each part of the mirror (roster,
  health, log) that it agrees with the session or that something will have it
  read again: a change that is due or in the queue, a step of the task, or a
  connection to make (`Heard`). That the log then agrees needs what one page adds
  to it. `Copied`: each line that the session has kept and the mirror is past is the
  mirror's own, at the place that its number gives it, but for the last, which may
  have been replaced since (`Fresh`). A page that starts at the mirror's cursor or one
  line before it keeps `Copied` and makes the last line fresh (`PageHeld`), which
  is why `refresh_logs` asks for that line again; one that starts further on would
  leave a gap, and there the log is read anew from its end. `Control` has the
  lists of steps that occur: a task that reads on has its log in front, and one that
  has found another session forgets the old one's mirror first. `Own` orders the
  generations of the session, of the answer to a restart and of the mirror: the
  mark that an answer leaves is there until a newer generation shows, which the
  session shows only after it has cleared its log; so what is left afterwards is
  above the clear. The loop of `append_log_page` is a function in the model
  (`Appended`); what it leaves of a page of any length is an induction over a set of
  numbers (`Induction`, from the well-foundedness of `<`), which is within reach because
  the property of one number is a set's and not an operator's. `MirrorFresh`
  follows (`FreshFollows`), for every size of log, page and mirror and any number of
  writes and lost connections, of which the run has 3 and 1.
* `ControlProofs!ConnectionInvariance` — a mutation is in one place: on a connection
  (`Carries`), in the channel (`InMail`) or applied. `SingleUse` says what a
  connection made for a mutation can hold in either direction, which is why the
  answer that a tool reads is that of its own request; `TellsTruth` that an answer
  on its way is true (`True`), where being true of a rejection means that the
  mutation is nowhere and was not applied (`Never`). A step of one connection
  preserves what is said of the others because it carries no more than before
  (`Lighter`); a step of the scheduler because each command is there once.
* `ToolProofs!Invariance` — process ids are used again, so the proof is
  about when one can be trusted. `DistinctIds`: an id is of one process until that
  is reaped. `Starting`: a child that its start has not waited for keeps its id
  (whoever answers with it is the child), and only its start reaps it.
  `Stopping`: what a watch was opened on is the session that answered, or that
  one has exited before. A step is first shown to let processes only age
  (`Ages`), which is all that the other calls notice of it. `OutcomesTrue` follows.
* `ToolProofs!WaitsInvariance` — `Numbered`: runs are numbered as they begin, and the
  exits of those that are over are a sequence in that order, whose last element is
  the record's. Hence what is seen of a run stays true of it (`SawOneRun`), though a
  waiting tool reads snapshot, attempt and log in requests of their own.
  `ClearedFor` is about a restart that no other client disturbs: until the next run
  begins the log is still to be cleared, and from then on only later runs' lines are
  visible. `AnswerOfOneRun` follows, without assumption, for any number of runs,
  lines and commands.

### Assumptions

`RuntimeAssumption`, `SchedulerAssumption`, `ConfigAssumption` (configurations
that passed validation) and `RunTaskAssumption` are assumed in their modules.
`InputPathAssumption`, `LogStoreAssumption`, `RunFilesAssumption`, `RosterAssumption`,
`EndpointAssumption`,
`MirrorAssumption`, `ReadPoolAssumption`, `ConnectionAssumption`,
`SessionStartAssumption`, `SelectionAssumption` and `SizeAssumption` are hypotheses of the theorems and are
assumed, for the instance's values, by the MC modules: TLC evaluates all of them. They give the
constants their types; beyond that, `InputPathAssumption` has finitely many
services (a sum over them is a number), `LogStoreAssumption` has limits that are
not zero (limits are validated to be positive), `RunFilesAssumption` has sizes that
are not zero (they are constants of the code) and queries that ask for a tail or for
what follows a cursor and not for both (the two requests of the protocol),
`MirrorAssumption` has a mirror that
is not longer than a page (200 lines, `REMOTE_LOG_TAIL`, and 2000, `MAX_LOG_TAIL`),
`ReadPoolAssumption` has a word that can count the requests, and
`ConnectionAssumption` and `SessionStartAssumption` keep the values apart that stand
for nobody or nothing (the operator, connection 0, results of probes) from callers,
connections and processes.

### Only model-checked

* Out of the prover's reach: liveness under fairness and what rests on ENABLED
  (`RequestServed`, `ReaderReleased`, `ShutdownCompletes`, `ExitReported`,
  `StopCompletes`, `LeaseEnds`, `EndpointsReleased`); what the recursive
  references of `Capture` and `Environment` compute (`RecordsFaithful`,
  `AsWritten`), and what their other side is, a scanner over all streams or
  values: induction over data. So is `PagesFit`, on sums of lengths that a
  recursion chooses.
* Not attempted: `FollowedOnce`. It compares what a caller was given with the
  logs of several services, over pages that are merged and cut by folds, whose
  induction has still to be stated for sets, as it is for the recursive functions of
  `LogStore` and `RunFiles`.

## Not modelled

* Dynamic service definitions and their policy beyond the limit, lease and
  dependencies that `Roster` has: validation of data.
* Configuration parsing and validation: functions from text to definitions and
  diagnostics; `Roster` and `Scheduler` take any result that passes validation.
  Of `env.rs` and `service.rs`, the expansion of `~`, the joining of relative
  paths, `export` prefixes, the escapes of control characters, and commands.
* What is done to the text of logs in the MCP server (search, redaction,
  deduplication), rendering and navigation in the TUI, port owners,
  diagnostics: text and system queries.
* Windows job objects (the control server is for Unix only), and process ids
  within a run. The wait thread may reap a process before the termination task sends
  SIGKILL to its id (`micromux/src/scheduler/pty.rs` 1869); a run is its own
  identity here, so what the id is then is out of sight.
* The screenshot generator and the clippy wrapper: tools of the repository.
* Within modelled components: exit codes other than zero are one failure; a start
  attempt is one step in `Scheduler` (its own steps are in `PtyEndpoints`);
  `RunFiles` is one file, and the directory of a session's files, its cleaning
  and its locks are not there; `Mirror` has one service.

Two observations from reading that no module shows: a status change makes the
remote mirror read the logs again without telling the TUI that they changed
(`micromux-tui/src/remote.rs` 545); a diagnosis continues on its connection
after a request whose timeout it ignored, and then fails with the late answer
(`micromux-mcp/src/tools/health.rs` 371, 588), where `Connection` shows that
nothing worse comes of it.

## Plan

The components that a model can say something about are modelled. What is left,
in this order:

1. A proof of `FollowedOnce`: the merge and the cut of pages without folds.
2. An abstract specification of an entry's life (live, retired, gone) that
   `Roster` implements, and `Scheduler` under `Roster`'s entries.
3. Lemmas on the pure operators of `Replies` that are folds, and a reference
   definition of the validation of configurations.
