------------------------------ MODULE Scheduler ------------------------------
(***************************************************************************)
(* The scheduler task of a micromux session (scheduler.rs, schedule.rs)    *)
(* with the tasks and threads of each run as its environment.              *)
(*                                                                         *)
(* The scheduler is one task.  It waits in a select! for a command, a      *)
(* process event or a timer, handles it, and runs a schedule pass.  It     *)
(* gives up control only in that select!, while a configuration reload is  *)
(* pending, and in the drain at shutdown: `pc` says where it is.           *)
(*                                                                         *)
(* A run consists of a process with its termination task, a health probe   *)
(* loop and a log reader thread.  They share with the scheduler the        *)
(* process event channel (`inbox`, one FIFO queue per service: the tasks   *)
(* of different services are not ordered with each other anyway), the      *)
(* cancellation tokens and the session's shutdown token.                   *)
(***************************************************************************)
EXTENDS ServiceRuntime

CONSTANTS
  Configs,     \* the valid configurations the file may hold during the session
  Disabled,    \* the services whose startup mode is disabled
  Probed,      \* the services with a healthcheck
  MaxRuns,     \* bound: per service, the run ids allocated to it
  MaxInbox     \* bound: events of one service queued when a probe reports

\* A configuration lists the services in declaration order, with the restart
\* policy and the dependencies of each; the dependencies have no cycle.
Config ==
  [order : Seq(Services), restart : [Services -> Policies],
   deps : [Services -> SUBSET Dependencies]]

Acyclic(deps) ==
  \E rank \in [Services -> 1 .. Cardinality(Services)] :
    \A s \in Services : \A d \in deps[s] : rank[d.service] < rank[s]

ASSUME SchedulerAssumption ==
  /\ IsFiniteSet(Services)
  /\ Configs \subseteq Config
  /\ Disabled \subseteq Services
  /\ Probed \subseteq Services
  /\ MaxRuns \in [Services -> Nat]
  /\ MaxInbox \in Nat

\* What load_services_from_disk and validate_reloaded_services let through.
ASSUME ConfigAssumption ==
  \A c \in Configs :
    /\ Acyclic(c.deps)
    /\ Len(c.order) = Cardinality(Services)
    /\ \A s \in Services : \E i \in 1 .. Len(c.order) : c.order[i] = s

VARIABLES
  pc,          \* where the scheduler task is
  pending,     \* what waits for the configuration reload
  cursor,      \* schedule pass: position in the declaration order
  progress,    \* schedule pass: has this round started a service?
  armed,       \* select!: the services whose deadline the backoff timer saw
  config,      \* the service definitions in force
  rt,          \* the runtime record of each service
  drainCapped, \* per service, the parked log readers that were cancelled
  shutdown,    \* the session's shutdown token
  timedOut,    \* the drain at shutdown gave up
  live,        \* per service, the runs whose process has not been reaped
  cancelled,   \* per service, the runs whose terminate token is set
  signalled,   \* per service, the runs whose process was signalled
  readers,     \* per service, the runs whose log reader thread runs
  inbox,       \* per service, the process events not yet received
  spent        \* history: automatic restarts since the budget was last reset

loopVars == <<pc, pending, cursor, progress, armed>>
runVars == <<live, signalled, readers>>
vars == <<loopVars, config, rt, drainCapped, shutdown, timedOut,
          runVars, cancelled, inbox, spent>>

Commands ==
  [kind : {"none", "auto", "restart", "restart_all", "enable"}, targets : SUBSET Services]
NoCommand == [kind |-> "none", targets |-> {}]
AutoReload == [kind |-> "auto", targets |-> {}]

Events ==
  [kind : {"healthy", "unhealthy", "killed", "reader_finished"}, run : Runs, outcome : {"none"}]
    \cup [kind : {"exited"}, run : Runs, outcome : Outcomes]
Event(kind, run) == [kind |-> kind, run |-> run, outcome |-> "none"]
ExitEvent(run, o) == [kind |-> "exited", run |-> run, outcome |-> o]

Policy(s) == config.restart[s]
Blockers(s) == BlockingDependencies(config.deps[s], rt)
Considered(s) == ShouldConsiderStart(rt[s], Policy(s))
Waiting(runtimes) == {s \in Services : runtimes[s].timer = "waiting"}

TypeOK ==
  /\ pc \in {"select", "reload", "pass", "cancel", "drain", "done"}
  /\ pending \in Commands
  /\ cursor \in Nat \ {0}
  /\ progress \in BOOLEAN
  /\ armed \in SUBSET Services
  /\ config \in Configs
  /\ rt \in [Services -> Runtime]
  /\ drainCapped \in [Services -> SUBSET Runs]
  /\ shutdown \in BOOLEAN
  /\ timedOut \in BOOLEAN
  /\ live \in [Services -> SUBSET Runs]
  /\ cancelled \in [Services -> SUBSET Runs]
  /\ signalled \in [Services -> SUBSET Runs]
  /\ readers \in [Services -> SUBSET Runs]
  /\ inbox \in [Services -> Seq(Events)]
  /\ spent \in [Services -> Nat]

Init ==
  /\ config \in Configs
  /\ rt = [s \in Services |-> NewRuntime(s \notin Disabled, config.restart[s])]
  /\ pc = "pass" /\ pending = NoCommand
  /\ cursor = 1 /\ progress = FALSE /\ armed = {}
  /\ shutdown = FALSE /\ timedOut = FALSE
  /\ drainCapped = [s \in Services |-> {}]
  /\ live = [s \in Services |-> {}]
  /\ cancelled = [s \in Services |-> {}]
  /\ signalled = [s \in Services |-> {}]
  /\ readers = [s \in Services |-> {}]
  /\ inbox = [s \in Services |-> <<>>]
  /\ spent = [s \in Services |-> 0]

-----------------------------------------------------------------------------
(***************************************************************************)
(* Control flow of the run loop.                                           *)
(***************************************************************************)

\* Entering the select! snapshots the backoff deadlines that lie ahead
\* (next_backoff): one that has already passed is not waited for.
GoTo(place, runtimes, command) ==
  /\ pc' = place
  /\ armed' = IF place = "select" THEN Waiting(runtimes) ELSE {}
  /\ pending' = IF place = "reload" THEN command ELSE NoCommand
  /\ cursor' = 1
  /\ progress' = FALSE

\* has_due_auto_restart: then the pass begins with a reload.
DueAutoRestart(runtimes, restart) ==
  \E s \in Services :
    /\ runtimes[s].desired = "enabled"
    /\ runtimes[s].running = NoRun
    /\ ~runtimes[s].startRequested
    /\ runtimes[s].timer # "waiting"
    /\ runtimes[s].state = "exited"
    /\ WillAutoRestart(runtimes[s], restart[s], runtimes[s].lastExit)

\* The end of a loop iteration: leave on shutdown, else schedule if asked to.
Settle(needsSchedule, runtimes, restart) ==
  GoTo(IF shutdown THEN "cancel"
       ELSE IF ~needsSchedule THEN "select"
       ELSE IF DueAutoRestart(runtimes, restart) THEN "reload" ELSE "pass",
       runtimes, AutoReload)

\* Cancelling the run in progress of a service, if there is one.  Only a run
\* that has not been reaped listens to its token.
CancelRuns(targets) ==
  [s \in Services |->
     IF s \in targets THEN cancelled[s] \cup ({rt[s].running} \cap live[s]) ELSE cancelled[s]]

-----------------------------------------------------------------------------
(***************************************************************************)
(* Commands.  Restart, restart_all and enable first await a reload of the  *)
(* configuration; what they checked before it is not checked again.        *)
(***************************************************************************)

AwaitReload(command) ==
  /\ GoTo("reload", rt, command)
  /\ UNCHANGED <<config, rt, drainCapped, shutdown, timedOut, runVars, cancelled, inbox, spent>>

Restart(s) ==
  /\ pc = "select"
  /\ rt[s].desired = "enabled"
  /\ AwaitReload([kind |-> "restart", targets |-> {s}])

\* apply_restart refuses a disabled service; the pass runs all the same.
RestartRefused(s) ==
  /\ pc = "select"
  /\ rt[s].desired = "disabled"
  /\ Settle(TRUE, rt, config.restart)
  /\ UNCHANGED <<config, rt, drainCapped, shutdown, timedOut, runVars, cancelled, inbox, spent>>

RestartAll ==
  /\ pc = "select"
  /\ AwaitReload([kind |-> "restart_all", targets |-> Services])

Enable(s) ==
  /\ pc = "select"
  /\ AwaitReload([kind |-> "enable", targets |-> {s}])

DisableService(s) ==
  /\ pc = "select"
  /\ rt' = [rt EXCEPT ![s] = Disable(@)]
  /\ cancelled' = CancelRuns({s})
  /\ Settle(TRUE, rt', config.restart)
  /\ UNCHANGED <<config, drainCapped, shutdown, timedOut, runVars, inbox, spent>>

\* Input, resizes, input-drop events and their reports: an iteration that
\* schedules nothing, but computes the timers anew.
QuietWake ==
  /\ pc = "select"
  /\ Settle(FALSE, rt, config.restart)
  /\ UNCHANGED <<config, rt, drainCapped, shutdown, timedOut, runVars, cancelled, inbox, spent>>

-----------------------------------------------------------------------------
(***************************************************************************)
(* The configuration reload.                                               *)
(***************************************************************************)

\* Whom the command acts on: restart_all leaves disabled services alone.
Targets ==
  IF pending.kind = "restart_all"
  THEN {s \in Services : rt[s].desired = "enabled"} ELSE pending.targets

\* Which targets have a run that the command cancels.
Interrupted ==
  {s \in Targets : pending.kind # "enable" \/ ~EnableIsNoOp(rt[s])}

Apply(s, r, p) ==
  IF s \notin Targets THEN r
  ELSE IF pending.kind = "enable" THEN RequestEnable(r, p)
  ELSE RequestRestart(r, p)

\* A new budget starts a new count, and so does an explicit request.
ResetSpent(new) ==
  [s \in Services |->
     IF s \in Targets \/ OnFailureMax(Policy(s)) # OnFailureMax(new.restart[s])
     THEN 0 ELSE spent[s]]

ReloadSucceeds ==
  /\ pc = "reload" /\ ~shutdown
  /\ \E new \in Configs :
       /\ config' = new
       /\ rt' = [s \in Services |->
                   Apply(s, Reconfigure(rt[s], Policy(s), new.restart[s]), new.restart[s])]
       /\ spent' = ResetSpent(new)
  /\ cancelled' = CancelRuns(Interrupted)
  /\ IF pending.kind = "auto" THEN GoTo("pass", rt', NoCommand)
     ELSE Settle(TRUE, rt', config'.restart)
  /\ UNCHANGED <<drainCapped, shutdown, timedOut, runVars, inbox>>

\* The file is unreadable, invalid or adds or removes services: the command
\* is refused, an automatic restart goes on with the old definitions.
ReloadFails ==
  /\ pc = "reload" /\ ~shutdown
  /\ IF pending.kind = "auto" THEN GoTo("pass", rt, NoCommand) ELSE Settle(TRUE, rt, config.restart)
  /\ UNCHANGED <<config, rt, drainCapped, shutdown, timedOut, runVars, cancelled, inbox, spent>>

ReloadInterrupted ==
  /\ pc = "reload" /\ shutdown
  /\ GoTo(IF pending.kind = "auto" THEN "select" ELSE "cancel", rt, NoCommand)
  /\ UNCHANGED <<config, rt, drainCapped, shutdown, timedOut, runVars, cancelled, inbox, spent>>

-----------------------------------------------------------------------------
(***************************************************************************)
(* Process events.                                                         *)
(***************************************************************************)

\* Mutant: the events of a service that was turned off are dropped.
RelevantWhenEnabled(r, e) == r.desired = "enabled" /\ e.run = r.running

\* An event counts if it is of the run in progress, or if it is the end of a
\* log reader that is still parked.
Relevant(r, e) ==
  \/ e.run = r.running
  \/ e.kind = "reader_finished" /\ e.run \in r.draining

AfterEvent(r, p, e, stable) ==
  IF ~Relevant(r, e) THEN r
  ELSE CASE e.kind \in {"healthy", "unhealthy"} -> MarkHealth(r, e.kind)
         [] e.kind = "killed"                   -> MarkKilled(r)
         [] e.kind = "exited"                   -> FinishCurrentRun(r, p, e.outcome, stable)
         [] OTHER                               -> FinishLogReader(r, e.run)

\* Receiving the next event of s; `stable` is whether the run lasted for at
\* least RESTART_BACKOFF_RESET.
Receive(s, stable) ==
  LET e == Head(inbox[s])
      exit == e.kind = "exited" /\ Relevant(rt[s], e)
  IN  /\ inbox[s] # <<>>
      /\ stable => exit
      /\ inbox' = [inbox EXCEPT ![s] = Tail(@)]
      /\ rt' = [rt EXCEPT ![s] = AfterEvent(@, Policy(s), e, stable)]
      /\ drainCapped' =
           [drainCapped EXCEPT ![s] = IF e.kind = "reader_finished" THEN @ \ {e.run} ELSE @]
      /\ spent' = [spent EXCEPT ![s] = IF stable THEN 0 ELSE @]
      /\ UNCHANGED <<config, shutdown, timedOut, runVars, cancelled>>

\* Mutant: only health changes are thought to matter.
NeedsScheduleOnHealth(s) == Head(inbox[s]).kind \in {"healthy", "unhealthy"}

NeedsSchedule(s) ==
  LET e == Head(inbox[s])
  IN  Relevant(rt[s], e) /\ e.kind # "reader_finished"

HandleEvent(s) ==
  /\ pc = "select"
  /\ \E stable \in BOOLEAN : Receive(s, stable)
  /\ Settle(NeedsSchedule(s), rt', config.restart)

\* await_loaded_services keeps receiving; the result schedules nothing here.
HandleEventInReload(s) ==
  /\ pc = "reload" /\ ~shutdown
  /\ \E stable \in BOOLEAN : Receive(s, stable)
  /\ UNCHANGED loopVars

\* Mutant: the drain waits without receiving.
HandleEventInDrainNever(s) == FALSE /\ UNCHANGED vars

HandleEventInDrain(s) ==
  /\ pc = "drain"
  /\ \E t \in Services : rt[t].running # NoRun
  /\ \E stable \in BOOLEAN : Receive(s, stable)
  /\ UNCHANGED loopVars

-----------------------------------------------------------------------------
(***************************************************************************)
(* Timers.                                                                 *)
(***************************************************************************)

BackoffElapses(s) ==
  /\ rt[s].timer = "waiting"
  /\ rt' = [rt EXCEPT ![s].timer = "due"]
  /\ UNCHANGED <<loopVars, config, drainCapped, shutdown, timedOut,
                 runVars, cancelled, inbox, spent>>

BackoffTimer ==
  /\ pc = "select"
  /\ \E s \in armed : rt[s].timer = "due"
  /\ Settle(TRUE, rt, config.restart)
  /\ UNCHANGED <<config, rt, drainCapped, shutdown, timedOut, runVars, cancelled, inbox, spent>>

\* Mutant: the select! has no arm for the drain deadline.
DrainTimerMissing(s, run) == FALSE /\ UNCHANGED vars

\* POST_EXIT_DRAIN_GRACE is over for one parked reader.
DrainTimer(s, run) ==
  /\ pc = "select"
  /\ run \in rt[s].draining \ drainCapped[s]
  /\ drainCapped' = [drainCapped EXCEPT ![s] = @ \cup {run}]
  /\ Settle(FALSE, rt, config.restart)
  /\ UNCHANGED <<config, rt, shutdown, timedOut, runVars, cancelled, inbox, spent>>

-----------------------------------------------------------------------------
(***************************************************************************)
(* The schedule pass: rounds over the services in declaration order until  *)
(* a round starts none.                                                    *)
(***************************************************************************)

Current == config.order[cursor]
InRound == pc = "pass" /\ cursor <= Len(config.order)

\* Mutant: a start is not taken as progress.
AdvanceOnce(started) ==
  /\ cursor' = cursor + 1
  /\ UNCHANGED <<pc, pending, armed, progress>>

Advance(started) ==
  /\ cursor' = cursor + 1
  /\ progress' = (progress \/ started)
  /\ UNCHANGED <<pc, pending, armed>>

\* Mutant: a recorded block is kept.
PassSkipKeepsBlock ==
  /\ InRound /\ ~Considered(Current)
  /\ Advance(FALSE)
  /\ UNCHANGED <<config, rt, drainCapped, shutdown, timedOut, runVars, cancelled, inbox, spent>>

PassSkip ==
  /\ InRound /\ ~Considered(Current)
  /\ rt' = [rt EXCEPT ![Current].blockedOn = {}]
  /\ Advance(FALSE)
  /\ UNCHANGED <<config, drainCapped, shutdown, timedOut, runVars, cancelled, inbox, spent>>

\* The bound of the model is reached: s is not started again.
OutOfRuns(s) == rt[s].nextRun >= MaxRuns[s]

\* The bound MaxRuns holds back a start like a dependency does.
PassBlocked ==
  /\ InRound /\ Considered(Current)
  /\ Blockers(Current) # {} \/ OutOfRuns(Current)
  /\ Advance(FALSE)
  /\ UNCHANGED <<config, rt, drainCapped, shutdown, timedOut, runVars, cancelled, inbox, spent>>

AutomaticRestart(s) == ~rt[s].startRequested /\ rt[s].state = "exited"

\* What an attempt does before the spawn, beside its effect on the record.
PrepareStart(s) ==
  /\ drainCapped' = [drainCapped EXCEPT ![s] = rt[s].draining]
  /\ spent' = [spent EXCEPT ![s] = IF AutomaticRestart(s) THEN @ + 1 ELSE @]
  /\ UNCHANGED <<config, shutdown, timedOut, cancelled, signalled, inbox>>

MayStart(s) ==
  /\ Considered(s)
  /\ Blockers(s) = {}
  /\ ~OutOfRuns(s)

PassStart ==
  LET s == Current
      run == rt[s].nextRun + 1
  IN  /\ InRound /\ MayStart(s)
      /\ rt' = [rt EXCEPT ![s] = StartedRun(@, Policy(s))]
      /\ live' = [live EXCEPT ![s] = @ \cup {run}]
      /\ readers' = [readers EXCEPT ![s] = @ \cup {run}]
      /\ PrepareStart(s)
      /\ Advance(TRUE)

PassStartFails ==
  LET s == Current
  IN  /\ InRound /\ MayStart(s)
      /\ rt' = [rt EXCEPT ![s] = FailedStart(@, Policy(s))]
      /\ PrepareStart(s)
      /\ Advance(FALSE)
      /\ UNCHANGED <<live, readers>>

PassRepeat ==
  /\ pc = "pass" /\ cursor > Len(config.order) /\ progress
  /\ cursor' = 1 /\ progress' = FALSE
  /\ UNCHANGED <<pc, pending, armed, config, rt, drainCapped, shutdown, timedOut,
                 runVars, cancelled, inbox, spent>>

\* record_stable_dependency_blocks
PassEnd ==
  /\ pc = "pass" /\ cursor > Len(config.order) /\ ~progress
  /\ rt' = [s \in Services |->
              IF Considered(s) /\ Blockers(s) # {}
              THEN [rt[s] EXCEPT !.blockedOn = Blockers(s)] ELSE rt[s]]
  /\ GoTo("select", rt', NoCommand)
  /\ UNCHANGED <<config, drainCapped, shutdown, timedOut, runVars, cancelled, inbox, spent>>

-----------------------------------------------------------------------------
(***************************************************************************)
(* Shutdown.                                                               *)
(***************************************************************************)

ObserveShutdown ==
  /\ pc = "select" /\ shutdown
  /\ GoTo("cancel", rt, NoCommand)
  /\ UNCHANGED <<config, rt, drainCapped, shutdown, timedOut, runVars, cancelled, inbox, spent>>

\* Every command sender is gone: the loop ends without the shutdown token.
CommandChannelCloses ==
  /\ pc = "select"
  /\ GoTo("cancel", rt, NoCommand)
  /\ UNCHANGED <<config, rt, drainCapped, shutdown, timedOut, runVars, cancelled, inbox, spent>>

CancelAllRunning ==
  /\ pc = "cancel"
  /\ cancelled' = CancelRuns(Services)
  /\ GoTo("drain", rt, NoCommand)
  /\ UNCHANGED <<config, rt, drainCapped, shutdown, timedOut, runVars, inbox, spent>>

\* Mutant: a run that was signalled counts as gone.
DrainCompleteByState ==
  /\ pc = "drain"
  /\ \A s \in Services : rt[s].state \notin LiveStates
  /\ GoTo("done", rt, NoCommand)
  /\ UNCHANGED <<config, rt, drainCapped, shutdown, timedOut, runVars, cancelled, inbox, spent>>

DrainComplete ==
  /\ pc = "drain"
  /\ \A s \in Services : rt[s].running = NoRun
  /\ GoTo("done", rt, NoCommand)
  /\ UNCHANGED <<config, rt, drainCapped, shutdown, timedOut, runVars, cancelled, inbox, spent>>

DrainTimesOut ==
  /\ pc = "drain"
  /\ \E s \in Services : rt[s].running # NoRun
  /\ timedOut' = TRUE
  /\ GoTo("done", rt, NoCommand)
  /\ UNCHANGED <<config, rt, drainCapped, shutdown, runVars, cancelled, inbox, spent>>

-----------------------------------------------------------------------------
(***************************************************************************)
(* The runs.                                                               *)
(***************************************************************************)

Send(s, e) == inbox' = [inbox EXCEPT ![s] = Append(@, e)]

Terminating(s, run) == shutdown \/ run \in cancelled[s]

RequestShutdown ==
  /\ ~shutdown
  /\ shutdown' = TRUE
  /\ UNCHANGED <<loopVars, config, rt, drainCapped, timedOut, runVars, cancelled, inbox, spent>>

\* The termination task signals the process group and reports it.
SignalProcess(s, run) ==
  /\ run \in live[s] \ signalled[s]
  /\ Terminating(s, run)
  /\ signalled' = [signalled EXCEPT ![s] = @ \cup {run}]
  /\ Send(s, Event("killed", run))
  /\ UNCHANGED <<loopVars, config, rt, drainCapped, shutdown, timedOut,
                 live, readers, cancelled, spent>>

\* The child is reaped, on its own account or after the signal.  The exit is
\* reported last: the probe loop has been stopped by then.
ProcessExits(s, run, outcome) ==
  /\ run \in live[s]
  /\ live' = [live EXCEPT ![s] = @ \ {run}]
  /\ cancelled' = [cancelled EXCEPT ![s] = @ \ {run}]
  /\ signalled' = [signalled EXCEPT ![s] = @ \ {run}]
  /\ Send(s, ExitEvent(run, outcome))
  /\ UNCHANGED <<loopVars, config, rt, drainCapped, shutdown, timedOut, readers, spent>>

\* A verdict may still slip in while the run is being terminated (see
\* CheckTokens in RunTask.tla), but not after its exit.
ProbeReports(s, run, verdict) ==
  /\ s \in Probed
  /\ run \in live[s]
  /\ Len(inbox[s]) < MaxInbox
  /\ Send(s, Event(verdict, run))
  /\ UNCHANGED <<loopVars, config, rt, drainCapped, shutdown, timedOut,
                 runVars, cancelled, spent>>

\* The log reader ends at end of file, on an error or when cancelled.
ReaderEnds(s, run) ==
  /\ run \in readers[s]
  /\ readers' = [readers EXCEPT ![s] = @ \ {run}]
  /\ Send(s, Event("reader_finished", run))
  /\ UNCHANGED <<loopVars, config, rt, drainCapped, shutdown, timedOut,
                 live, signalled, cancelled, spent>>

-----------------------------------------------------------------------------

CommandStep(s) == Restart(s) \/ RestartRefused(s) \/ Enable(s) \/ DisableService(s)
EventStep(s) == HandleEvent(s) \/ HandleEventInReload(s) \/ HandleEventInDrain(s)
ReloadStep == ReloadSucceeds \/ ReloadFails \/ ReloadInterrupted
PassStep ==
  PassSkip \/ PassBlocked \/ PassStart \/ PassStartFails \/ PassRepeat \/ PassEnd
ShutdownStep ==
  ObserveShutdown \/ CancelAllRunning \/ DrainComplete
RunStep(s, run) ==
  \/ SignalProcess(s, run)
  \/ \E outcome \in Outcomes : ProcessExits(s, run, outcome)
  \/ \E verdict \in {"healthy", "unhealthy"} : ProbeReports(s, run, verdict)
  \/ ReaderEnds(s, run)

Next ==
  \/ \E s \in Services : CommandStep(s) \/ EventStep(s) \/ BackoffElapses(s)
  \/ \E s \in Services :
       \/ \E run \in live[s] \cup readers[s] : RunStep(s, run)
       \/ \E run \in rt[s].draining : DrainTimer(s, run)
  \/ RestartAll \/ QuietWake \/ BackoffTimer
  \/ ReloadStep \/ PassStep
  \/ ShutdownStep \/ DrainTimesOut \/ CommandChannelCloses
  \/ RequestShutdown

Spec == Init /\ [][Next]_vars

(***************************************************************************)
(* Fairness.  tokio's select! polls its branches in random order, so a     *)
(* branch that is ready again and again is taken (strong fairness); the    *)
(* scheduler's straight-line code, the reload's blocking task, the timers  *)
(* and the termination task run in the end (weak fairness).  A process     *)
(* ends only once it has been signalled (the termination task escalates to *)
(* SIGKILL).  A log reader need not end at all: a descendant may hold the  *)
(* terminal open, and off Unix a cancelled reader stays in its read until  *)
(* end of file.  Commands, probes and quiet wake-ups are not fair.         *)
(***************************************************************************)
FairRun(s) ==
  /\ WF_vars(\E run \in live[s] : SignalProcess(s, run))
  /\ WF_vars(\E run \in live[s] \cap signalled[s], o \in Outcomes : ProcessExits(s, run, o))

FairScheduler(s) ==
  /\ SF_vars(HandleEvent(s))
  /\ WF_vars(HandleEventInDrain(s))
  /\ SF_vars(\E run \in rt[s].draining : DrainTimer(s, run))
  /\ WF_vars(BackoffElapses(s))

Fairness ==
  /\ \A s \in Services : FairRun(s) /\ FairScheduler(s)
  /\ WF_vars(ReloadStep) /\ WF_vars(PassStep)
  /\ SF_vars(ObserveShutdown) /\ SF_vars(BackoffTimer)
  /\ WF_vars(CancelAllRunning) /\ WF_vars(DrainComplete)

FairSpec == Spec /\ Fairness

-----------------------------------------------------------------------------
(***************************************************************************)
(* Safety.                                                                 *)
(***************************************************************************)

\* Whatever is restarted, disabled and enabled while a process is stopping,
\* a service never has a second process beside the one the scheduler tracks.
OneProcess == \A s \in Services : live[s] \subseteq {rt[s].running}

\* The runs of which an event of this kind is in the queue q.
RunsOf(q, kind) == {q[i].run : i \in {j \in DOMAIN q : q[j].kind = kind}}

\* The scheduler never waits for a run whose end it cannot learn: the process
\* is there, or its exit is queued and will be taken for this run.
RunAccounted ==
  \A s \in Services :
    rt[s].running # NoRun =>
      rt[s].running \in live[s] \cup RunsOf(inbox[s], "exited")

\* The two together, inductive: no reaped run is awaited in vain and no exit
\* on its way is of a run that is alive or has yet to begin.
RunsAgree ==
  \A s \in Services :
    /\ rt[s].running <= rt[s].nextRun
    /\ live[s] \subseteq {rt[s].running}
    /\ \A run \in RunsOf(inbox[s], "exited") : run <= rt[s].nextRun /\ run \notin live[s]
    /\ rt[s].running # NoRun => rt[s].running \in live[s] \cup RunsOf(inbox[s], "exited")

HeldReaders(r) == r.draining \cup (IF r.readerHeld THEN {r.running} ELSE {})

\* The reader handles the scheduler keeps, on the run or parked, are exactly
\* those of reader threads whose completion it has not received, in whichever
\* order exit and completion arrive: none leaks and none is lost.
ReadersAccounted ==
  \A s \in Services : HeldReaders(rt[s]) = readers[s] \cup RunsOf(inbox[s], "reader_finished")

\* The state the operator sees agrees with the intent and with the run.
StateMatchesRun == \A s \in Services : StateAgrees(rt[s])

\* `blocked_on` is non-empty exactly while dependencies hold the service back
\* (the comment at the field), whenever the scheduler waits.  A service whose
\* backoff has just ended is not a candidate until the next pass.
BlockedAccurate ==
  (pc = "select" /\ ~shutdown) =>
    \A s \in {t \in Services : ~OutOfRuns(t)} :
      /\ rt[s].blockedOn # {} => Considered(s) /\ rt[s].blockedOn = Blockers(s)
      /\ (Considered(s) /\ rt[s].timer # "due") => rt[s].blockedOn = Blockers(s)

\* A pass leaves nothing behind that could start: when the scheduler waits, a
\* candidate without blockers is one whose backoff ended since.
NoMissedStart ==
  (pc = "select" /\ ~shutdown) =>
    \A s \in Services : MayStart(s) => rt[s].timer = "due"

\* However failures, stable runs, reloads and requests interleave, an
\* on-failure service is never restarted automatically more often than its
\* budget, counted from the last event that renews it.
BudgetRespected ==
  \A s \in Services :
    (Policy(s).kind = "on-failure" /\ Policy(s).max # NoLimit) => spent[s] <= Policy(s).max

\* A drain that did not time out leaves no process behind.
ShutdownReaps ==
  (pc = "done" /\ ~timedOut) => \A s \in Services : live[s] = {}

\* What the supervisor promises of each service.
Supervisor == INSTANCE Supervision WITH life <- [s \in Services |-> LifeOf(rt[s])]

\* The scheduler implements the abstract supervisor: one run at a time, fresh
\* generations, no start against the operator's intent, no revival of a run
\* that is being stopped.
ImplementsSupervision == Supervisor!Spec

-----------------------------------------------------------------------------
(***************************************************************************)
(* Liveness, under FairSpec.                                               *)
(***************************************************************************)

Over == pc = "done"

\* A restart or enable request of a service without dependencies is served,
\* though the old run must be stopped first, unless a disable withdraws it or
\* the session ends.
RequestServed ==
  \A s \in Services :
    (rt[s].startRequested /\ \A c \in Configs : c.deps[s] = {})
      ~> (~rt[s].startRequested \/ OutOfRuns(s) \/ Over)

\* On Unix a reader polls its cancellation beside the terminal, and ends once it
\* has been cancelled, even if something holds the terminal open.
FairReader(s) == WF_vars(\E run \in readers[s] \cap drainCapped[s] : ReaderEnds(s, run))

\* Every parked log reader is told to end, and its handle is released once it has
\* ended: off Unix some may stay that are blocked in their reads though they were
\* told (schedule.rs:315), on Unix none does.
ReaderReleased ==
  \A s \in Services :
    /\ (rt[s].draining # {}) ~> (rt[s].draining \subseteq readers[s] \cap drainCapped[s] \/ Over)
    /\ FairReader(s) => ((rt[s].draining # {}) ~> (rt[s].draining = {} \/ Over))

\* Every shutdown request ends the scheduler.
ShutdownCompletes == shutdown ~> Over

\* "Snapshot time-based work before selecting. Without explicit timer arms,
\* restart backoffs [...] would wait for an unrelated event": a service in
\* backoff leaves it by a new run without waiting for one.
BackoffEnds ==
  \A s \in Services :
    (rt[s].state = "exited" /\ rt[s].timer = "waiting")
      ~> (rt[s].state # "exited" \/ OutOfRuns(s) \/ Over)
=============================================================================
