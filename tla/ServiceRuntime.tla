--------------------------- MODULE ServiceRuntime ---------------------------
(***************************************************************************)
(* The scheduler's record of one service (`ServiceRuntime` and             *)
(* `RestartTracker` in scheduler.rs) and the methods that change it, as    *)
(* operators from a record to a record, with the configuration that they   *)
(* read.  Nothing here is a step: Scheduler.tla says when each operator is *)
(* applied.                                                                *)
(*                                                                         *)
(* Time is abstract.  The restart backoff is "none", "waiting" (its        *)
(* deadline lies ahead) or "due" (the deadline has passed; the code keeps  *)
(* the stale deadline until the next exit or request), and its doubling    *)
(* delay is a level: 0 is no delay, MaxBackoff the capped delay.           *)
(***************************************************************************)
EXTENDS Integers, Sequences, FiniteSets

CONSTANTS
  Services,    \* the service ids of the configuration
  NoLimit,     \* `max_attempts: None`, an on-failure policy without a budget
  MaxBackoff   \* the level at which the doubling backoff delay is capped

ASSUME RuntimeAssumption ==
  /\ NoLimit \notin Nat
  /\ MaxBackoff \in Nat \ {0}

NoRun == 0
Runs == Nat \ {0}
RunOrNone == Nat

Conditions == {"started", "healthy", "completed"}
PolicyKinds == {"always", "unless-stopped", "never", "on-failure"}
Outcomes == {"success", "failure"}

(***************************************************************************)
(* `State` in types.rs.  `Running { health }` is one value per verdict;    *)
(* the code of `Exited { exit_code }` is always `lastExit`.  `Starting`    *)
(* lasts only inside one call of `start_service_if_ready`.                 *)
(***************************************************************************)
LiveStates == {"running", "healthy", "unhealthy"}
States == LiveStates \cup {"pending", "killed", "disabled", "exited"}

Limits == Nat \cup {NoLimit}
Policies == [kind : PolicyKinds, max : Limits]
Dependencies == [service : Services, condition : Conditions]

Runtime ==
  [desired        : {"enabled", "disabled"},
   startRequested : BOOLEAN,
   clearLogs      : BOOLEAN,            \* clear_logs_on_start
   running        : RunOrNone,          \* the run id of `running`, if any
   readerHeld     : BOOLEAN,            \* running.log_reader is Some
   state          : States,
   lastRun        : RunOrNone,
   nextRun        : RunOrNone,          \* the last run id allocated
   lastExit       : Outcomes \cup {"none"},
   timer          : {"none", "waiting", "due"},
   delay          : 0 .. MaxBackoff,
   remaining      : Limits,             \* on_failure_remaining
   draining       : SUBSET Runs,        \* draining_log_readers
   blockedOn      : SUBSET Services]

-----------------------------------------------------------------------------

\* on_failure_max: the budget a policy gives; only on-failure has one.
OnFailureMax(p) == IF p.kind = "on-failure" THEN p.max ELSE NoLimit

NewRuntime(enabled, p) ==
  [desired        |-> IF enabled THEN "enabled" ELSE "disabled",
   startRequested |-> FALSE,
   clearLogs      |-> FALSE,
   running        |-> NoRun,
   readerHeld     |-> FALSE,
   state          |-> IF enabled THEN "pending" ELSE "disabled",
   lastRun        |-> NoRun,
   nextRun        |-> 0,
   lastExit       |-> "none",
   timer          |-> "none",
   delay          |-> 0,
   remaining      |-> OnFailureMax(p),
   draining       |-> {},
   blockedOn      |-> {}]

\* The public run generation: the run in progress, or the last one.
RunGeneration(r) == IF r.running # NoRun THEN r.running ELSE r.lastRun

-----------------------------------------------------------------------------
\* RestartTracker

ClearBackoff(r) == [r EXCEPT !.timer = "none", !.delay = 0]

ResetFailureBudget(r, p) == [r EXCEPT !.remaining = OnFailureMax(p)]

\* A reload that changes the budget starts a fresh one; any other keeps it.
Reconfigure(r, old, new) ==
  IF OnFailureMax(old) = OnFailureMax(new)
  THEN r
  ELSE [r EXCEPT !.remaining = OnFailureMax(new)]

ApplyBackoff(r, p, stable) ==
  LET base == IF stable THEN 0 ELSE r.delay
      kept == IF stable THEN ResetFailureBudget(r, p) ELSE r
  IN  [kept EXCEPT !.timer = "waiting",
                   !.delay = IF base = MaxBackoff THEN base ELSE base + 1]

HasBudget(r, p) ==
  \/ p.max = NoLimit
  \/ r.remaining \in Nat \ {0}

WillAutoRestart(r, p, outcome) ==
  \/ p.kind \in {"always", "unless-stopped"}
  \/ p.kind = "on-failure" /\ outcome = "failure" /\ HasBudget(r, p)

-----------------------------------------------------------------------------
\* Commands

\* `cancel` of the run in progress shows as "killed"; the token itself is
\* set in Scheduler.tla.
\* Mutant: the run handle is dropped instead of waiting for its exit.
RequestRestartNoWait(r, p) ==
  [ResetFailureBudget(ClearBackoff(r), p) EXCEPT
     !.desired = "enabled", !.startRequested = TRUE, !.clearLogs = TRUE,
     !.running = NoRun, !.state = "pending"]

RequestRestart(r, p) ==
  [ResetFailureBudget(ClearBackoff(r), p) EXCEPT
     !.desired = "enabled",
     !.startRequested = TRUE,
     !.clearLogs = TRUE,
     !.state = IF r.running # NoRun THEN "killed"
               ELSE IF @ = "disabled" THEN "pending" ELSE @]

\* An enable of a service that runs undisturbed changes nothing but the
\* intent and the budget; otherwise it is a start request that keeps the logs.
EnableIsNoOp(r) == r.running # NoRun /\ r.state \notin {"disabled", "killed"}

RequestEnable(r, p) ==
  LET base == [ResetFailureBudget(ClearBackoff(r), p) EXCEPT !.desired = "enabled"]
  IN  IF EnableIsNoOp(r)
      THEN base
      ELSE [base EXCEPT
              !.startRequested = TRUE,
              !.clearLogs = FALSE,
              !.state = IF r.running # NoRun THEN "killed"
                        ELSE IF @ = "disabled" THEN "pending" ELSE @]

Disable(r) ==
  [ClearBackoff(r) EXCEPT
     !.desired = "disabled",
     !.startRequested = FALSE,
     !.clearLogs = FALSE,
     !.state = "disabled"]

-----------------------------------------------------------------------------
\* Process events

\* Mutant: a verdict is recorded whatever the state, so a probe that ends
\* after the stop was requested revives the run.
MarkHealthLate(r, verdict) == [r EXCEPT !.state = verdict]

MarkHealth(r, verdict) ==
  IF r.state \in LiveStates THEN [r EXCEPT !.state = verdict] ELSE r

\* Mutant: the report of the signal is recorded though the service is off.
MarkKilledAlways(r) == [r EXCEPT !.state = "killed"]

MarkKilled(r) ==
  IF r.desired = "enabled" THEN [r EXCEPT !.state = "killed"] ELSE r

FinishRunState(r, p, outcome, run, stable) ==
  LET done == [r EXCEPT !.lastRun = run, !.lastExit = outcome]
      exited == [done EXCEPT !.state = "exited"]
  IN  IF r.desired = "disabled"
      THEN ClearBackoff([done EXCEPT !.state = "disabled"])
      ELSE IF ~r.startRequested /\ WillAutoRestart(r, p, outcome)
           THEN ApplyBackoff(exited, p, stable)
           ELSE ClearBackoff(exited)

\* The reader of a finished run is parked until its completion arrives,
\* unless it already has.
FinishCurrentRun(r, p, outcome, stable) ==
  LET parked == IF r.readerHeld THEN r.draining \cup {r.running} ELSE r.draining
      freed == [r EXCEPT !.running = NoRun, !.readerHeld = FALSE, !.draining = parked]
  IN  FinishRunState(freed, p, outcome, r.running, stable)

\* Mutant: the handle of the run in progress is kept when its reader ends.
FinishLogReaderDrainingOnly(r, run) == [r EXCEPT !.draining = @ \ {run}]

FinishLogReader(r, run) ==
  [r EXCEPT !.readerHeld = @ /\ r.running # run, !.draining = @ \ {run}]

-----------------------------------------------------------------------------
\* The schedule pass (schedule.rs)

DependencyReady(d, dep) ==
  /\ dep.desired = "enabled"
  /\ ~dep.startRequested
  /\ \/ d.condition = "started"   /\ dep.state \in LiveStates
     \/ d.condition = "healthy"   /\ dep.state = "healthy"
     \/ d.condition = "completed" /\ dep.state = "exited" /\ dep.lastExit = "success"

BlockingDependencies(deps, rt) ==
  {d.service : d \in {e \in deps : ~DependencyReady(e, rt[e.service])}}

ShouldConsiderStart(r, p) ==
  /\ r.desired = "enabled"
  /\ r.running = NoRun
  /\ r.startRequested \/ r.timer # "waiting"
  /\ \/ r.state = "pending"
     \/ r.state = "exited" /\ (r.startRequested \/ WillAutoRestart(r, p, r.lastExit))

\* Mutant: an automatic restart is free.
DecrementFailureBudgetNot(r, p) == r

\* Only an automatic restart after a failure spends the budget.
DecrementFailureBudget(r, p) ==
  IF /\ ~r.startRequested
     /\ r.state = "exited"
     /\ r.lastExit = "failure"
     /\ OnFailureMax(p) # NoLimit
     /\ r.remaining \in Nat \ {0}
  THEN [r EXCEPT !.remaining = @ - 1]
  ELSE r

\* What every start attempt does before the spawn.
BeginStart(r, p) ==
  [DecrementFailureBudget(r, p) EXCEPT
     !.blockedOn = {},
     !.startRequested = FALSE,
     !.clearLogs = FALSE,
     !.nextRun = @ + 1]

StartedRun(r, p) ==
  LET begun == BeginStart(r, p)
  IN  [begun EXCEPT !.running = begun.nextRun, !.readerHeld = TRUE, !.state = "running"]

FailedStart(r, p) ==
  LET begun == BeginStart(r, p)
  IN  FinishRunState(begun, p, "failure", begun.nextRun, FALSE)

-----------------------------------------------------------------------------
\* What the fields of a record have to do with each other between two steps.

\* The intent, the displayed state, the run handle and the run counters agree.
StateAgrees(r) ==
  /\ r.desired = "disabled" <=> r.state = "disabled"
  /\ r.running # NoRun => r.state \in LiveStates \cup {"killed", "disabled"}
  /\ r.running = NoRun => r.state \in {"pending", "exited", "disabled"}
  /\ RunGeneration(r) = r.nextRun
  /\ r.clearLogs => r.startRequested
  /\ (r.startRequested /\ r.running # NoRun) => r.state = "killed"

\* The record as the abstract supervisor sees it.
LifeOf(r) ==
  [wanted     |-> r.desired,
   phase      |-> IF r.running = NoRun THEN "down"
                  ELSE IF r.state \in LiveStates THEN "up" ELSE "stopping",
   generation |-> r.nextRun]
=============================================================================
