-------------------------- MODULE SchedulerProofs --------------------------
(***************************************************************************)
(* Theorems about the scheduler, for every set of services, every set of   *)
(* configurations and every bound: its types, the processes it tracks and  *)
(* the states it shows, the abstract supervisor that it implements, and    *)
(* its accounts.                                                           *)
(***************************************************************************)
EXTENDS Scheduler, SequenceTheorems, TLAPS

-----------------------------------------------------------------------------
(***************************************************************************)
(* Each method of the scheduler's record of a service keeps the record's   *)
(* type.                                                                   *)
(***************************************************************************)

\* The budget of any policy is a limit.
LEMMA LimitType ==
  ASSUME NEW p \in Policies
  PROVE  OnFailureMax(p) \in Limits
BY DEF OnFailureMax, Policies, Limits

\* No delay is a level of the backoff.
LEMMA NoDelay == 0 \in 0 .. MaxBackoff
BY RuntimeAssumption

\* A fresh record is well typed (ServiceRuntime::new).
LEMMA NewRuntimeType ==
  ASSUME NEW p \in Policies, NEW enabled \in BOOLEAN
  PROVE  NewRuntime(enabled, p) \in Runtime
BY LimitType, NoDelay DEF NewRuntime, Runtime, States, LiveStates, NoRun, RunOrNone

\* The methods of RestartTracker keep the type.
LEMMA ClearBackoffType ==
  ASSUME NEW r \in Runtime
  PROVE  ClearBackoff(r) \in Runtime
BY NoDelay DEF ClearBackoff, Runtime

\* A reset budget is a limit.
LEMMA ResetFailureBudgetType ==
  ASSUME NEW r \in Runtime, NEW p \in Policies
  PROVE  ResetFailureBudget(r, p) \in Runtime
BY LimitType DEF ResetFailureBudget, Runtime

\* So is the budget of a new policy.
LEMMA ReconfigureType ==
  ASSUME NEW r \in Runtime, NEW old \in Policies, NEW new \in Policies
  PROVE  Reconfigure(r, old, new) \in Runtime
BY LimitType DEF Reconfigure, Runtime

\* The backoff delay stays within its cap.
LEMMA ApplyBackoffType ==
  ASSUME NEW r \in Runtime, NEW p \in Policies, NEW stable \in BOOLEAN
  PROVE  ApplyBackoff(r, p, stable) \in Runtime
<1> DEFINE base == IF stable THEN 0 ELSE r.delay
           kept == IF stable THEN ResetFailureBudget(r, p) ELSE r
           next == IF base = MaxBackoff THEN base ELSE base + 1
<1>1. kept \in Runtime
  BY ResetFailureBudgetType
<1>2. next \in 0 .. MaxBackoff
  BY RuntimeAssumption DEF Runtime
<1>3. [kept EXCEPT !.timer = "waiting", !.delay = next] \in Runtime
  <2> HIDE DEF kept, next
  <2> QED BY <1>1, <1>2 DEF Runtime
<1> QED BY <1>3 DEF ApplyBackoff

\* The requests of the operator keep the type.
LEMMA RequestRestartType ==
  ASSUME NEW r \in Runtime, NEW p \in Policies
  PROVE  RequestRestart(r, p) \in Runtime
<1> DEFINE base == ResetFailureBudget(ClearBackoff(r), p)
<1>1. base \in Runtime
  BY ClearBackoffType, ResetFailureBudgetType
<1>2. base.state = r.state
  BY DEF ResetFailureBudget, ClearBackoff, Runtime
<1> HIDE DEF base
<1>3. RequestRestart(r, p) =
        [base EXCEPT !.desired = "enabled", !.startRequested = TRUE, !.clearLogs = TRUE,
           !.state = IF r.running # NoRun THEN "killed"
                     ELSE IF @ = "disabled" THEN "pending" ELSE @]
  BY DEF RequestRestart, base
<1> QED BY <1>1, <1>3 DEF Runtime, States

\* An enable, likewise.
LEMMA RequestEnableType ==
  ASSUME NEW r \in Runtime, NEW p \in Policies
  PROVE  RequestEnable(r, p) \in Runtime
<1> DEFINE kept == ResetFailureBudget(ClearBackoff(r), p)
           base == [kept EXCEPT !.desired = "enabled"]
<1>1. kept \in Runtime
  BY ClearBackoffType, ResetFailureBudgetType
<1>2. base \in Runtime
  <2> HIDE DEF kept
  <2> QED BY <1>1 DEF Runtime
<1> HIDE DEF base
<1>3. RequestEnable(r, p) =
        IF EnableIsNoOp(r) THEN base
        ELSE [base EXCEPT !.startRequested = TRUE, !.clearLogs = FALSE,
                !.state = IF r.running # NoRun THEN "killed"
                          ELSE IF @ = "disabled" THEN "pending" ELSE @]
  BY DEF RequestEnable, base
<1>4. ASSUME NEW q \in Runtime, NEW at \in States
      PROVE  [q EXCEPT !.startRequested = TRUE, !.clearLogs = FALSE, !.state = at] \in Runtime
  BY DEF Runtime
<1> DEFINE at == IF r.running # NoRun THEN "killed"
                 ELSE IF base.state = "disabled" THEN "pending" ELSE base.state
<1>5. at \in States
  BY <1>2 DEF Runtime, States
<1>6. RequestEnable(r, p) =
        IF EnableIsNoOp(r) THEN base
        ELSE [base EXCEPT !.startRequested = TRUE, !.clearLogs = FALSE, !.state = at]
  BY <1>3
<1> HIDE DEF at
<1> QED BY <1>2, <1>4, <1>5, <1>6

\* The timer and what a service waits for.
LEMMA TimerType ==
  ASSUME NEW r \in Runtime, NEW timer \in {"none", "waiting", "due"}
  PROVE  [r EXCEPT !.timer = timer] \in Runtime
BY DEF Runtime

LEMMA BlockedOnType ==
  ASSUME NEW r \in Runtime, NEW blocked \in SUBSET Services
  PROVE  [r EXCEPT !.blockedOn = blocked] \in Runtime
BY DEF Runtime

\* A disable, likewise.
LEMMA DisableType ==
  ASSUME NEW r \in Runtime
  PROVE  Disable(r) \in Runtime
BY NoDelay DEF Disable, ClearBackoff, Runtime, States

\* The events of a run keep the type.
LEMMA MarkType ==
  ASSUME NEW r \in Runtime, NEW verdict \in {"healthy", "unhealthy"}
  PROVE  MarkHealth(r, verdict) \in Runtime /\ MarkKilled(r) \in Runtime
BY DEF MarkHealth, MarkKilled, Runtime, States, LiveStates

\* The end of a run or of a failed start keeps the type.
LEMMA FinishRunStateType ==
  ASSUME NEW r \in Runtime, NEW p \in Policies, NEW outcome \in Outcomes,
         NEW run \in RunOrNone, NEW stable \in BOOLEAN
  PROVE  FinishRunState(r, p, outcome, run, stable) \in Runtime
<1> DEFINE done == [r EXCEPT !.lastRun = run, !.lastExit = outcome]
           exited == [done EXCEPT !.state = "exited"]
           off == [done EXCEPT !.state = "disabled"]
<1>1. exited \in Runtime /\ off \in Runtime
  BY DEF Runtime, States
<1>2. /\ ApplyBackoff(exited, p, stable) \in Runtime
      /\ ClearBackoff(exited) \in Runtime
      /\ ClearBackoff(off) \in Runtime
  <2> HIDE DEF exited, off
  <2> QED BY <1>1, ApplyBackoffType, ClearBackoffType
<1> QED BY <1>2 DEF FinishRunState

\* Freeing the handle of a run parks a reader of a run.
LEMMA FinishCurrentRunType ==
  ASSUME NEW r \in Runtime, NEW p \in Policies, NEW outcome \in Outcomes,
         NEW stable \in BOOLEAN, r.running # NoRun
  PROVE  FinishCurrentRun(r, p, outcome, stable) \in Runtime
<1> DEFINE parked == IF r.readerHeld THEN r.draining \cup {r.running} ELSE r.draining
           freed == [r EXCEPT !.running = NoRun, !.readerHeld = FALSE, !.draining = parked]
<1>1. parked \in SUBSET Runs
  BY DEF Runtime, Runs, RunOrNone, NoRun
<1>2. freed \in Runtime
  <2> HIDE DEF parked
  <2> QED BY <1>1 DEF Runtime, RunOrNone, NoRun
<1>3. FinishRunState(freed, p, outcome, r.running, stable) \in Runtime
  <2>1. r.running \in RunOrNone
    BY DEF Runtime
  <2> HIDE DEF freed
  <2> QED BY <1>2, <2>1, FinishRunStateType
<1> QED BY <1>3 DEF FinishCurrentRun

\* A reader's completion removes a run.
LEMMA FinishLogReaderType ==
  ASSUME NEW r \in Runtime, NEW run \in Runs
  PROVE  FinishLogReader(r, run) \in Runtime
BY DEF FinishLogReader, Runtime

\* A start attempt, successful or not, keeps the type.
LEMMA BeginStartType ==
  ASSUME NEW r \in Runtime, NEW p \in Policies
  PROVE  BeginStart(r, p) \in Runtime
<1>1. DecrementFailureBudget(r, p) \in Runtime
  BY DEF DecrementFailureBudget, Runtime, Limits
<1> DEFINE d == DecrementFailureBudget(r, p)
<1>2. [d EXCEPT !.blockedOn = {}, !.startRequested = FALSE, !.clearLogs = FALSE,
         !.nextRun = @ + 1] \in Runtime
  <2>1. d \in Runtime
    BY <1>1
  <2> HIDE DEF d
  <2>2. d.nextRun + 1 \in RunOrNone
    BY <2>1 DEF Runtime, RunOrNone
  <2> QED BY <2>1, <2>2 DEF Runtime
<1> QED BY <1>2 DEF BeginStart

\* So the record after the attempt is well typed.
LEMMA StartType ==
  ASSUME NEW r \in Runtime, NEW p \in Policies
  PROVE  StartedRun(r, p) \in Runtime /\ FailedStart(r, p) \in Runtime
<1> DEFINE begun == BeginStart(r, p)
<1>1. begun \in Runtime /\ begun.nextRun \in RunOrNone
  BY BeginStartType DEF Runtime
<1> HIDE DEF begun
<1>2. [begun EXCEPT !.running = begun.nextRun, !.readerHeld = TRUE, !.state = "running"]
        \in Runtime
  BY <1>1 DEF Runtime, States, LiveStates
<1>3. FinishRunState(begun, p, "failure", begun.nextRun, FALSE) \in Runtime
  BY <1>1, FinishRunStateType DEF Outcomes
<1> QED BY <1>2, <1>3 DEF StartedRun, FailedStart, begun

-----------------------------------------------------------------------------
(***************************************************************************)
(* What the methods do to the run, the intent and the displayed state.     *)
(***************************************************************************)

\* The fields that the supervision of a run is about agree in two records.
SameRun(r, q) == q.running = r.running /\ q.nextRun = r.nextRun /\ q.lastRun = r.lastRun

SameSupervision(r, q) ==
  /\ SameRun(r, q)
  /\ q.desired = r.desired /\ q.state = r.state
  /\ q.startRequested = r.startRequested /\ q.clearLogs = r.clearLogs

\* The life of a service whose run, if any, is being stopped.
StoppedLife(r, wanted) ==
  [wanted     |-> wanted,
   phase      |-> IF r.running = NoRun THEN "down" ELSE "stopping",
   generation |-> r.nextRun]

\* Two records that agree in these fields agree in what is derived from them.
LEMMA SameSupervisionAgrees ==
  ASSUME NEW r, NEW q, SameSupervision(r, q), StateAgrees(r)
  PROVE  StateAgrees(q) /\ LifeOf(q) = LifeOf(r)
BY DEF SameSupervision, SameRun, StateAgrees, RunGeneration, LifeOf

\* RestartTracker has no say in it.
LEMMA TrackerSupervision ==
  ASSUME NEW r \in Runtime, NEW p, NEW old
  PROVE  /\ SameSupervision(r, ClearBackoff(r))
         /\ SameSupervision(r, ResetFailureBudget(r, p))
         /\ SameSupervision(r, Reconfigure(r, old, p))
         /\ \A stable \in BOOLEAN : SameSupervision(r, ApplyBackoff(r, p, stable))
BY DEF SameSupervision, SameRun, ClearBackoff, ResetFailureBudget, Reconfigure, ApplyBackoff,
       Runtime

\* Disabling turns the service off and keeps its run, which is being stopped.
LEMMA DisableAgrees ==
  ASSUME NEW r \in Runtime, StateAgrees(r)
  PROVE  /\ SameRun(r, Disable(r))
         /\ StateAgrees(Disable(r))
         /\ LifeOf(Disable(r)) = StoppedLife(r, "disabled")
<1> DEFINE q == Disable(r)
<1>1. /\ SameRun(r, q)
      /\ q.desired = "disabled" /\ q.state = "disabled"
      /\ q.startRequested = FALSE /\ q.clearLogs = FALSE
  BY DEF Disable, ClearBackoff, Runtime, SameRun
<1> HIDE DEF q
<1>2. StateAgrees(q)
  BY <1>1 DEF StateAgrees, SameRun, RunGeneration
<1>3. LifeOf(q) = StoppedLife(r, "disabled")
  BY <1>1 DEF LifeOf, StoppedLife, SameRun, LiveStates, States, Runtime
<1> QED BY <1>1, <1>2, <1>3 DEF q

\* A restart turns the service on; the run in progress is stopped.
LEMMA RequestRestartAgrees ==
  ASSUME NEW r \in Runtime, NEW p \in Policies, StateAgrees(r)
  PROVE  /\ SameRun(r, RequestRestart(r, p))
         /\ StateAgrees(RequestRestart(r, p))
         /\ LifeOf(RequestRestart(r, p)) = StoppedLife(r, "enabled")
<1> DEFINE q == RequestRestart(r, p)
<1>1. /\ SameRun(r, q)
      /\ q.desired = "enabled" /\ q.startRequested = TRUE
      /\ q.state = IF r.running # NoRun THEN "killed"
                   ELSE IF r.state = "disabled" THEN "pending" ELSE r.state
  BY DEF RequestRestart, ResetFailureBudget, ClearBackoff, Runtime, SameRun
<1> HIDE DEF q
<1>2. StateAgrees(q)
  BY <1>1 DEF StateAgrees, SameRun, RunGeneration
<1>3. LifeOf(q) = StoppedLife(r, "enabled")
  BY <1>1 DEF LifeOf, StoppedLife, SameRun, LiveStates, States, Runtime
<1> QED BY <1>1, <1>2, <1>3 DEF q

\* So does an enable, unless the service runs undisturbed: then nothing that
\* the supervision of the run is about changes.
LEMMA RequestEnableAgrees ==
  ASSUME NEW r \in Runtime, NEW p \in Policies, StateAgrees(r)
  PROVE  /\ SameRun(r, RequestEnable(r, p))
         /\ StateAgrees(RequestEnable(r, p))
         /\ \/ LifeOf(RequestEnable(r, p)) = LifeOf(r)
            \/ LifeOf(RequestEnable(r, p)) = StoppedLife(r, "enabled")
<1> DEFINE q == RequestEnable(r, p)
<1>1. CASE EnableIsNoOp(r)
  <2>1. r.desired = "enabled"
    BY <1>1 DEF EnableIsNoOp, StateAgrees, Runtime
  <2>2. SameSupervision(r, q)
    BY <1>1, <2>1 DEF RequestEnable, ResetFailureBudget, ClearBackoff, Runtime, SameRun,
       SameSupervision
  <2> QED BY <2>2, SameSupervisionAgrees DEF SameSupervision
<1>2. CASE ~EnableIsNoOp(r)
  <2>1. /\ SameRun(r, q)
        /\ q.desired = "enabled" /\ q.startRequested = TRUE
        /\ q.state = IF r.running # NoRun THEN "killed"
                     ELSE IF r.state = "disabled" THEN "pending" ELSE r.state
    BY <1>2 DEF RequestEnable, ResetFailureBudget, ClearBackoff, Runtime, SameRun
  <2> HIDE DEF q
  <2>2. StateAgrees(q)
    BY <2>1 DEF StateAgrees, SameRun, RunGeneration
  <2>3. LifeOf(q) = StoppedLife(r, "enabled")
    BY <2>1 DEF LifeOf, StoppedLife, SameRun, LiveStates, States, Runtime
  <2> QED BY <2>1, <2>2, <2>3 DEF q
<1> QED BY <1>1, <1>2

\* A health verdict never changes whether a run is being stopped, and the
\* report of the signal says that it is.
LEMMA MarkAgrees ==
  ASSUME NEW r \in Runtime, NEW verdict \in {"healthy", "unhealthy"}, StateAgrees(r),
         r.running # NoRun
  PROVE  /\ SameRun(r, MarkHealth(r, verdict)) /\ SameRun(r, MarkKilled(r))
         /\ StateAgrees(MarkHealth(r, verdict)) /\ StateAgrees(MarkKilled(r))
         /\ LifeOf(MarkHealth(r, verdict)) = LifeOf(r)
         /\ LifeOf(MarkKilled(r)) = StoppedLife(r, r.desired)
<1> DEFINE h == MarkHealth(r, verdict)
           k == MarkKilled(r)
<1>1. /\ SameRun(r, h) /\ h.desired = r.desired
      /\ h.startRequested = r.startRequested /\ h.clearLogs = r.clearLogs
      /\ h.state = IF r.state \in LiveStates THEN verdict ELSE r.state
  BY DEF MarkHealth, Runtime, SameRun
<1>2. /\ SameRun(r, k) /\ k.desired = r.desired
      /\ k.startRequested = r.startRequested /\ k.clearLogs = r.clearLogs
      /\ k.state = IF r.desired = "enabled" THEN "killed" ELSE r.state
  BY DEF MarkKilled, Runtime, SameRun
<1> HIDE DEF h, k
<1>3. StateAgrees(h) /\ LifeOf(h) = LifeOf(r)
  BY <1>1 DEF StateAgrees, SameRun, RunGeneration, LiveStates, LifeOf
<1>4. StateAgrees(k)
  BY <1>2 DEF StateAgrees, SameRun, RunGeneration, Runtime
<1>5. LifeOf(k) = StoppedLife(r, r.desired)
  BY <1>2 DEF LifeOf, StoppedLife, SameRun, StateAgrees, Runtime, LiveStates
<1> QED BY <1>1, <1>2, <1>3, <1>4, <1>5 DEF h, k

\* The end of a run, or of an attempt to start one.
LEMMA FinishRunStateFields ==
  ASSUME NEW r \in Runtime, NEW p, NEW outcome, NEW run, NEW stable
  PROVE  LET q == FinishRunState(r, p, outcome, run, stable)
         IN  /\ q.running = r.running /\ q.nextRun = r.nextRun /\ q.lastRun = run
             /\ q.desired = r.desired
             /\ q.startRequested = r.startRequested /\ q.clearLogs = r.clearLogs
             /\ q.state = IF r.desired = "disabled" THEN "disabled" ELSE "exited"
BY DEF FinishRunState, ApplyBackoff, ClearBackoff, ResetFailureBudget, Runtime

\* The end of the run in progress leaves no run.
LEMMA FinishCurrentRunAgrees ==
  ASSUME NEW r \in Runtime, NEW p, NEW outcome, NEW stable \in BOOLEAN,
         StateAgrees(r), r.running # NoRun
  PROVE  LET q == FinishCurrentRun(r, p, outcome, stable)
         IN  /\ q.running = NoRun /\ q.nextRun = r.nextRun
             /\ StateAgrees(q)
             /\ LifeOf(q) = [wanted |-> r.desired, phase |-> "down", generation |-> r.nextRun]
<1> DEFINE parked == IF r.readerHeld THEN r.draining \cup {r.running} ELSE r.draining
           freed == [r EXCEPT !.running = NoRun, !.readerHeld = FALSE, !.draining = parked]
           q == FinishCurrentRun(r, p, outcome, stable)
<1>1. parked \in SUBSET Runs
  BY DEF Runtime, Runs, RunOrNone, NoRun
<1>2. freed \in Runtime
  <2> HIDE DEF parked
  <2> QED BY <1>1 DEF Runtime, RunOrNone, NoRun
<1>3. /\ freed.running = NoRun /\ freed.nextRun = r.nextRun /\ freed.desired = r.desired
      /\ freed.startRequested = r.startRequested /\ freed.clearLogs = r.clearLogs
  BY DEF Runtime
<1>4. q = FinishRunState(freed, p, outcome, r.running, stable)
  BY DEF FinishCurrentRun
<1> HIDE DEF freed, q
<1>5. /\ q.running = NoRun /\ q.nextRun = r.nextRun /\ q.lastRun = r.running
      /\ q.desired = r.desired
      /\ q.startRequested = r.startRequested /\ q.clearLogs = r.clearLogs
      /\ q.state = IF r.desired = "disabled" THEN "disabled" ELSE "exited"
  BY <1>2, <1>3, <1>4, FinishRunStateFields
<1>6. StateAgrees(q)
  BY <1>5 DEF StateAgrees, RunGeneration
<1>7. LifeOf(q) = [wanted |-> r.desired, phase |-> "down", generation |-> r.nextRun]
  BY <1>5 DEF LifeOf
<1> QED BY <1>5, <1>6, <1>7 DEF q

\* The fields of a record that is being started.
LEMMA BeginStartFields ==
  ASSUME NEW r \in Runtime, NEW p
  PROVE  LET b == BeginStart(r, p)
         IN  /\ b.running = r.running /\ b.nextRun = r.nextRun + 1
             /\ b.desired = r.desired /\ ~b.startRequested /\ ~b.clearLogs
BY DEF BeginStart, DecrementFailureBudget, Runtime

\* A start, of a service that is wanted and has no run, begins the next run.
LEMMA StartAgrees ==
  ASSUME NEW r \in Runtime, NEW p \in Policies, StateAgrees(r), ShouldConsiderStart(r, p)
  PROVE  /\ StartedRun(r, p).running = r.nextRun + 1
         /\ StartedRun(r, p).nextRun = r.nextRun + 1
         /\ StateAgrees(StartedRun(r, p))
         /\ LifeOf(StartedRun(r, p)) =
              [wanted |-> "enabled", phase |-> "up", generation |-> r.nextRun + 1]
<1> DEFINE b == BeginStart(r, p)
           q == StartedRun(r, p)
<1>1. b \in Runtime
  BY BeginStartType
<1>2. r.nextRun \in Nat /\ r.running = NoRun /\ r.desired = "enabled"
  BY DEF Runtime, RunOrNone, ShouldConsiderStart
<1>3. /\ b.nextRun = r.nextRun + 1 /\ b.desired = "enabled" /\ ~b.startRequested /\ ~b.clearLogs
  BY <1>2, BeginStartFields
<1>4. q = [b EXCEPT !.running = b.nextRun, !.readerHeld = TRUE, !.state = "running"]
  BY DEF StartedRun
<1> HIDE DEF b, q
<1>5. /\ q.running = r.nextRun + 1 /\ q.nextRun = r.nextRun + 1
      /\ q.desired = "enabled" /\ ~q.startRequested /\ ~q.clearLogs /\ q.state = "running"
  BY <1>1, <1>3, <1>4 DEF Runtime
<1>6. q.running # NoRun
  BY <1>2, <1>5 DEF NoRun
<1>7. StateAgrees(q)
  BY <1>5, <1>6 DEF StateAgrees, RunGeneration, LiveStates
<1>8. LifeOf(q) = [wanted |-> "enabled", phase |-> "up", generation |-> r.nextRun + 1]
  BY <1>5, <1>6 DEF LifeOf, LiveStates
<1> QED BY <1>5, <1>7, <1>8 DEF q

\* A start that fails uses up the generation and leaves no run.
LEMMA FailedStartAgrees ==
  ASSUME NEW r \in Runtime, NEW p \in Policies, StateAgrees(r), ShouldConsiderStart(r, p)
  PROVE  /\ FailedStart(r, p).running = NoRun
         /\ FailedStart(r, p).nextRun = r.nextRun + 1
         /\ StateAgrees(FailedStart(r, p))
         /\ LifeOf(FailedStart(r, p)) =
              [wanted |-> "enabled", phase |-> "down", generation |-> r.nextRun + 1]
<1> DEFINE b == BeginStart(r, p)
           q == FailedStart(r, p)
<1>1. b \in Runtime
  BY BeginStartType
<1>2. r.nextRun \in Nat /\ r.running = NoRun /\ r.desired = "enabled"
  BY DEF Runtime, RunOrNone, ShouldConsiderStart
<1>3. /\ b.running = NoRun /\ b.nextRun = r.nextRun + 1
      /\ b.desired = "enabled" /\ ~b.startRequested /\ ~b.clearLogs
  BY <1>2, BeginStartFields
<1>4. q = FinishRunState(b, p, "failure", b.nextRun, FALSE)
  BY DEF FailedStart
<1> HIDE DEF b, q
<1>5. /\ q.running = NoRun /\ q.nextRun = r.nextRun + 1 /\ q.lastRun = r.nextRun + 1
      /\ q.desired = "enabled" /\ ~q.startRequested /\ ~q.clearLogs /\ q.state = "exited"
  <2>1. /\ q.running = b.running /\ q.nextRun = b.nextRun /\ q.lastRun = b.nextRun
        /\ q.desired = b.desired
        /\ q.startRequested = b.startRequested /\ q.clearLogs = b.clearLogs
        /\ q.state = IF b.desired = "disabled" THEN "disabled" ELSE "exited"
    BY <1>1, <1>4 DEF FinishRunState, ApplyBackoff, ClearBackoff, ResetFailureBudget, Runtime
  <2> QED BY <1>3, <2>1
<1>6. StateAgrees(q)
  BY <1>5 DEF StateAgrees, RunGeneration
<1>7. LifeOf(q) = [wanted |-> "enabled", phase |-> "down", generation |-> r.nextRun + 1]
  BY <1>5 DEF LifeOf
<1> QED BY <1>5, <1>6, <1>7 DEF q

-----------------------------------------------------------------------------
(***************************************************************************)
(* Type correctness.                                                       *)
(***************************************************************************)

\* The position of the scheduler task is well typed.
LoopType ==
  /\ pc \in {"select", "reload", "pass", "cancel", "drain", "done"}
  /\ pending \in Commands
  /\ cursor \in Nat \ {0}
  /\ progress \in BOOLEAN
  /\ armed \in SUBSET Services

\* So is everything else.
DataType ==
  /\ config \in Configs
  /\ rt \in [Services -> Runtime]
  /\ drainCapped \in [Services -> SUBSET Runs]
  /\ shutdown \in BOOLEAN
  /\ timedOut \in BOOLEAN
  /\ live \in [Services -> SUBSET Runs]
  /\ cancelled \in [Services -> SUBSET Runs]
  /\ signalled \in [Services -> SUBSET Runs]
  /\ readers \in [Services -> SUBSET Runs]
  /\ inbox \in [Services -> Seq(Events)]
  /\ spent \in [Services -> Nat]

\* The two make up TypeOK.
LEMMA TypeParts == TypeOK <=> LoopType /\ DataType
BY DEF TypeOK, LoopType, DataType

\* A valid configuration gives every service a policy, and the pass visits
\* services only.
LEMMA ConfigType ==
  ASSUME NEW c \in Configs
  PROVE  /\ \A s \in Services : c.restart[s] \in Policies
         /\ \A i \in 1 .. Len(c.order) : c.order[i] \in Services
         /\ Len(c.order) \in Nat
<1>1. c \in Config
  BY SchedulerAssumption
<1>2. c.order \in Seq(Services) /\ c.restart \in [Services -> Policies]
  BY <1>1 DEF Config
<1> QED BY <1>2

\* The commands that the loop passes to itself.
LEMMA CommandType == NoCommand \in Commands /\ AutoReload \in Commands
BY DEF NoCommand, AutoReload, Commands

\* What blocks a service are services.
LEMMA BlockersType ==
  ASSUME config \in Configs, NEW s \in Services
  PROVE  Blockers(s) \in SUBSET Services
<1>1. config \in Config
  BY SchedulerAssumption
<1>2. config.deps[s] \in SUBSET Dependencies
  BY <1>1 DEF Config
<1>3. \A d \in config.deps[s] : d.service \in Services
  BY <1>2 DEF Dependencies
<1> QED BY <1>3 DEF Blockers, BlockingDependencies

\* Wherever the loop goes, its position is well typed.
LEMMA GoToType ==
  ASSUME NEW place \in {"select", "reload", "pass", "cancel", "drain", "done"},
         NEW runtimes, NEW command \in Commands, GoTo(place, runtimes, command)
  PROVE  LoopType'
<1>1. pending' \in Commands
  BY CommandType DEF GoTo
<1>2. armed' \in SUBSET Services
  BY DEF GoTo, Waiting
<1>3. pc' \in {"select", "reload", "pass", "cancel", "drain", "done"}
  BY DEF GoTo
<1>4. cursor' \in Nat \ {0}
  <2>1. cursor' = 1
    BY DEF GoTo
  <2> QED BY <2>1
<1>5. progress' \in BOOLEAN
  BY DEF GoTo
<1> QED BY <1>1, <1>2, <1>3, <1>4, <1>5 DEF LoopType

\* So it is at the end of an iteration.
LEMMA SettleType ==
  ASSUME NEW needs, NEW runtimes, NEW restart, Settle(needs, runtimes, restart)
  PROVE  LoopType'
<1> DEFINE place == IF shutdown THEN "cancel"
                    ELSE IF ~needs THEN "select"
                    ELSE IF DueAutoRestart(runtimes, restart) THEN "reload" ELSE "pass"
<1>1. place \in {"select", "reload", "pass", "cancel", "drain", "done"}
  OBVIOUS
<1>2. GoTo(place, runtimes, AutoReload)
  BY DEF Settle
<1> HIDE DEF place
<1> QED BY <1>1, <1>2, GoToType, CommandType

\* A pass that moves on stays well typed.
LEMMA AdvanceType ==
  ASSUME LoopType, NEW started \in BOOLEAN, Advance(started)
  PROVE  LoopType'
BY DEF Advance, LoopType

\* Changing the record of one service.
LEMMA RuntimeUpdate ==
  ASSUME NEW s \in Services, NEW r \in Runtime, rt \in [Services -> Runtime],
         rt' = [rt EXCEPT ![s] = r]
  PROVE  rt' \in [Services -> Runtime]
OBVIOUS

\* An event that is handled leaves a well-typed record.
LEMMA AfterEventType ==
  ASSUME NEW r \in Runtime, NEW p \in Policies, NEW e \in Events, NEW stable \in BOOLEAN
  PROVE  AfterEvent(r, p, e, stable) \in Runtime
<1>1. CASE ~Relevant(r, e)
  BY <1>1 DEF AfterEvent
<1>2. CASE Relevant(r, e) /\ e.kind = "exited"
  <2>1. e.run = r.running /\ r.running # NoRun /\ e.outcome \in Outcomes
    BY <1>2 DEF Relevant, Events, Runs, NoRun
  <2>2. FinishCurrentRun(r, p, e.outcome, stable) \in Runtime
    BY <2>1, FinishCurrentRunType
  <2> QED BY <1>2, <2>2 DEF AfterEvent
<1>3. CASE Relevant(r, e) /\ e.kind \in {"healthy", "unhealthy"}
  <2>1. MarkHealth(r, e.kind) \in Runtime
    BY <1>3, MarkType
  <2> QED BY <1>3, <2>1 DEF AfterEvent
<1>4. CASE Relevant(r, e) /\ e.kind = "killed"
  <2>1. MarkKilled(r) \in Runtime
    BY MarkType
  <2> QED BY <1>4, <2>1 DEF AfterEvent
<1>5. CASE Relevant(r, e) /\ e.kind = "reader_finished"
  <2>1. FinishLogReader(r, e.run) \in Runtime
    BY FinishLogReaderType DEF Events
  <2> QED BY <1>5, <2>1 DEF AfterEvent
<1> QED BY <1>1, <1>2, <1>3, <1>4, <1>5 DEF Events

\* Receiving an event leaves everything but the loop's position well typed.
LEMMA ReceiveType ==
  ASSUME DataType, NEW s \in Services, NEW stable \in BOOLEAN, Receive(s, stable)
  PROVE  DataType'
<1> DEFINE e == Head(inbox[s])
<1>1. inbox[s] \in Seq(Events) /\ inbox[s] # <<>>
  BY DEF DataType, Receive
<1>2. e \in Events /\ Tail(inbox[s]) \in Seq(Events)
  BY <1>1, HeadTailProperties
<1>3. Policy(s) \in Policies /\ rt[s] \in Runtime
  BY ConfigType DEF Policy, DataType
<1>4. rt' = [rt EXCEPT ![s] = AfterEvent(rt[s], Policy(s), e, stable)]
  BY DEF Receive
<1>5. rt' \in [Services -> Runtime]
  <2> HIDE DEF e
  <2>1. AfterEvent(rt[s], Policy(s), e, stable) \in Runtime
    BY <1>2, <1>3, AfterEventType
  <2> QED BY <1>4, <2>1 DEF DataType
<1>6. inbox' \in [Services -> Seq(Events)]
  BY <1>2 DEF Receive, DataType
<1>7. drainCapped' \in [Services -> SUBSET Runs] /\ spent' \in [Services -> Nat]
  BY DEF Receive, DataType
<1> QED BY <1>5, <1>6, <1>7 DEF Receive, DataType, runVars

\* A command awaits its reload with its kind and its targets.
LEMMA AwaitReloadType ==
  ASSUME NEW command \in Commands, AwaitReload(command)
  PROVE  LoopType'
BY GoToType DEF AwaitReload

\* Every step leaves the loop at a well-typed position.
LEMMA LoopStep ==
  ASSUME LoopType, DataType, Next
  PROVE  LoopType'
<1>1. ASSUME NEW s \in Services, CommandStep(s)
      PROVE  LoopType'
  <2>1. CASE Restart(s)
    <3>1. [kind |-> "restart", targets |-> {s}] \in Commands
      BY DEF Commands
    <3> QED BY <2>1, <3>1, AwaitReloadType DEF Restart
  <2>2. CASE Enable(s)
    <3>1. [kind |-> "enable", targets |-> {s}] \in Commands
      BY DEF Commands
    <3> QED BY <2>2, <3>1, AwaitReloadType DEF Enable
  <2>3. CASE RestartRefused(s)
    BY <2>3, SettleType DEF RestartRefused
  <2>4. CASE DisableService(s)
    BY <2>4, SettleType DEF DisableService
  <2> QED BY <1>1, <2>1, <2>2, <2>3, <2>4 DEF CommandStep
<1>2. ASSUME NEW s \in Services, EventStep(s)
      PROVE  LoopType'
  <2>1. CASE HandleEvent(s)
    BY <2>1, SettleType DEF HandleEvent
  <2>2. CASE HandleEventInReload(s) \/ HandleEventInDrain(s)
    BY <2>2 DEF HandleEventInReload, HandleEventInDrain, loopVars, LoopType
  <2> QED BY <1>2, <2>1, <2>2 DEF EventStep
<1>3. CASE RestartAll
  <2>1. [kind |-> "restart_all", targets |-> Services] \in Commands
    BY DEF Commands
  <2> QED BY <1>3, <2>1, AwaitReloadType DEF RestartAll
<1>4. CASE QuietWake \/ BackoffTimer
  BY <1>4, SettleType DEF QuietWake, BackoffTimer
<1>5. CASE ReloadStep
  <2>1. CASE ReloadSucceeds
    <3>1. CASE pending.kind = "auto"
      BY <2>1, <3>1, GoToType, CommandType DEF ReloadSucceeds
    <3>2. CASE pending.kind # "auto"
      BY <2>1, <3>2, SettleType DEF ReloadSucceeds
    <3> QED BY <3>1, <3>2
  <2>2. CASE ReloadFails
    <3>1. CASE pending.kind = "auto"
      BY <2>2, <3>1, GoToType, CommandType DEF ReloadFails
    <3>2. CASE pending.kind # "auto"
      BY <2>2, <3>2, SettleType DEF ReloadFails
    <3> QED BY <3>1, <3>2
  <2>3. CASE ReloadInterrupted
    <3> DEFINE place == IF pending.kind = "auto" THEN "select" ELSE "cancel"
    <3>1. place \in {"select", "cancel"} /\ GoTo(place, rt, NoCommand)
      BY <2>3 DEF ReloadInterrupted
    <3> HIDE DEF place
    <3> QED BY <3>1, GoToType, CommandType
  <2> QED BY <1>5, <2>1, <2>2, <2>3 DEF ReloadStep
<1>6. CASE PassStep
  <2>1. CASE PassSkip \/ PassBlocked \/ PassStart \/ PassStartFails
    BY <2>1, AdvanceType DEF PassSkip, PassBlocked, PassStart, PassStartFails
  <2>2. CASE PassRepeat
    <3>1. cursor' = 1 /\ progress' = FALSE /\ UNCHANGED <<pc, pending, armed>>
      BY <2>2 DEF PassRepeat
    <3>2. cursor' \in Nat \ {0}
      BY <3>1
    <3>3. progress' \in BOOLEAN
      BY <3>1
    <3> QED BY <3>1, <3>2, <3>3 DEF LoopType
  <2>3. CASE PassEnd
    BY <2>3, GoToType, CommandType DEF PassEnd
  <2> QED BY <1>6, <2>1, <2>2, <2>3 DEF PassStep
<1>7. CASE ShutdownStep \/ DrainTimesOut \/ CommandChannelCloses
  BY <1>7, GoToType, CommandType
     DEF ShutdownStep, ObserveShutdown, CancelAllRunning, DrainComplete, DrainTimesOut,
         CommandChannelCloses
<1>8. ASSUME NEW s \in Services, NEW run, DrainTimer(s, run)
      PROVE  LoopType'
  BY <1>8, SettleType DEF DrainTimer
<1>9. ASSUME NEW s \in Services, NEW run, RunStep(s, run)
      PROVE  LoopType'
  BY <1>9 DEF RunStep, SignalProcess, ProcessExits, ProbeReports, ReaderEnds, loopVars, LoopType
<1>10. ASSUME NEW s \in Services, BackoffElapses(s)
       PROVE  LoopType'
  BY <1>10 DEF BackoffElapses, loopVars, LoopType
<1>11. CASE RequestShutdown
  BY <1>11 DEF RequestShutdown, loopVars, LoopType
<1> QED BY <1>1, <1>2, <1>3, <1>4, <1>5, <1>6, <1>7, <1>8, <1>9, <1>10, <1>11 DEF Next

\* A pass is at a service.
LEMMA CurrentType ==
  ASSUME LoopType, DataType, InRound
  PROVE  Current \in Services
BY ConfigType DEF InRound, Current, LoopType, DataType

\* The scheduler's own changes of the records keep their type.
LEMMA RuntimeStep ==
  ASSUME LoopType, DataType, Next
  PROVE  rt' \in [Services -> Runtime]
<1> USE DEF DataType
<1>p. \A s \in Services : Policy(s) \in Policies /\ rt[s] \in Runtime
  BY ConfigType DEF Policy
<1>1. CASE UNCHANGED rt
  BY <1>1
<1>2. ASSUME NEW s \in Services, DisableService(s)
      PROVE  rt' \in [Services -> Runtime]
  <2>1. Disable(rt[s]) \in Runtime
    BY <1>p, DisableType
  <2> QED BY <1>2, <2>1, RuntimeUpdate DEF DisableService
<1>3. ASSUME NEW s \in Services, NEW stable \in BOOLEAN, Receive(s, stable)
      PROVE  rt' \in [Services -> Runtime]
  BY <1>3, ReceiveType
<1>4. ASSUME NEW s \in Services, BackoffElapses(s)
      PROVE  rt' \in [Services -> Runtime]
  <2>1. [rt[s] EXCEPT !.timer = "due"] \in Runtime
    BY <1>p, TimerType
  <2>2. rt' = [rt EXCEPT ![s] = [rt[s] EXCEPT !.timer = "due"]]
    BY <1>4 DEF BackoffElapses
  <2> QED BY <2>1, <2>2, RuntimeUpdate
<1>5. CASE ReloadSucceeds
  <2>1. PICK new \in Configs :
          rt' = [s \in Services |->
                   Apply(s, Reconfigure(rt[s], Policy(s), new.restart[s]), new.restart[s])]
    BY <1>5 DEF ReloadSucceeds
  <2>2. ASSUME NEW s \in Services
        PROVE  Apply(s, Reconfigure(rt[s], Policy(s), new.restart[s]), new.restart[s]) \in Runtime
    <3>1. new.restart[s] \in Policies
      BY ConfigType
    <3>2. Reconfigure(rt[s], Policy(s), new.restart[s]) \in Runtime
      BY <1>p, <3>1, ReconfigureType
    <3> QED BY <3>1, <3>2, RequestEnableType, RequestRestartType DEF Apply
  <2> QED BY <2>1, <2>2
<1>6. CASE PassStep
  <2>1. CASE PassSkip
    <3>1. Current \in Services
      BY <2>1, CurrentType DEF PassSkip
    <3>2. [rt[Current] EXCEPT !.blockedOn = {}] \in Runtime
      BY <1>p, <3>1, BlockedOnType
    <3>3. rt' = [rt EXCEPT ![Current] = [rt[Current] EXCEPT !.blockedOn = {}]]
      BY <2>1 DEF PassSkip
    <3> QED BY <3>1, <3>2, <3>3, RuntimeUpdate
  <2>2. CASE PassStart
    <3>1. Current \in Services
      BY <2>2, CurrentType DEF PassStart
    <3>2. StartedRun(rt[Current], Policy(Current)) \in Runtime
      BY <1>p, <3>1, StartType
    <3> QED BY <2>2, <3>1, <3>2, RuntimeUpdate DEF PassStart
  <2>3. CASE PassStartFails
    <3>1. Current \in Services
      BY <2>3, CurrentType DEF PassStartFails
    <3>2. FailedStart(rt[Current], Policy(Current)) \in Runtime
      BY <1>p, <3>1, StartType
    <3> QED BY <2>3, <3>1, <3>2, RuntimeUpdate DEF PassStartFails
  <2>4. CASE PassEnd
    <3>1. ASSUME NEW s \in Services
          PROVE  [rt[s] EXCEPT !.blockedOn = Blockers(s)] \in Runtime
      <4>1. Blockers(s) \in SUBSET Services
        BY BlockersType
      <4> QED BY <1>p, <4>1, BlockedOnType
    <3> QED BY <2>4, <1>p, <3>1 DEF PassEnd
  <2>5. CASE PassBlocked \/ PassRepeat
    BY <2>5 DEF PassBlocked, PassRepeat
  <2> QED BY <1>6, <2>1, <2>2, <2>3, <2>4, <2>5 DEF PassStep
<1>7. ASSUME NEW s \in Services, EventStep(s)
      PROVE  rt' \in [Services -> Runtime]
  BY <1>3, <1>7 DEF EventStep, HandleEvent, HandleEventInReload, HandleEventInDrain
<1>8. ASSUME NEW s \in Services, CommandStep(s)
      PROVE  rt' \in [Services -> Runtime]
  BY <1>2, <1>8 DEF CommandStep, Restart, RestartRefused, Enable, AwaitReload
<1>9. CASE ReloadStep
  BY <1>5, <1>9 DEF ReloadStep, ReloadFails, ReloadInterrupted
<1>10. ASSUME NEW s \in Services, NEW run, RunStep(s, run) \/ DrainTimer(s, run)
       PROVE  UNCHANGED rt
  BY <1>10 DEF RunStep, SignalProcess, ProcessExits, ProbeReports, ReaderEnds, DrainTimer
<1>11. CASE \/ RestartAll \/ QuietWake \/ BackoffTimer
            \/ ShutdownStep \/ DrainTimesOut \/ CommandChannelCloses \/ RequestShutdown
  BY <1>11 DEF RestartAll, AwaitReload, QuietWake, BackoffTimer, ShutdownStep, ObserveShutdown,
       CancelAllRunning, DrainComplete, DrainTimesOut, CommandChannelCloses, RequestShutdown
<1> QED BY <1>4, <1>6, <1>7, <1>8, <1>9, <1>10, <1>11 DEF Next

\* An event enters a queue.
LEMMA SendType ==
  ASSUME DataType, NEW s \in Services, NEW e \in Events, Send(s, e)
  PROVE  inbox' \in [Services -> Seq(Events)]
<1>1. Append(inbox[s], e) \in Seq(Events)
  BY AppendProperties DEF DataType
<1> QED BY <1>1 DEF Send, DataType

\* What the tasks of a run send are events.
LEMMA EventType ==
  ASSUME NEW run \in Runs
  PROVE  /\ \A k \in {"healthy", "unhealthy", "killed", "reader_finished"} :
              Event(k, run) \in Events
         /\ \A o \in Outcomes : ExitEvent(run, o) \in Events
BY DEF Event, ExitEvent, Events

\* Cancelling runs sets tokens of runs.
LEMMA CancelRunsType ==
  ASSUME DataType, NEW targets
  PROVE  CancelRuns(targets) \in [Services -> SUBSET Runs]
BY DEF CancelRuns, DataType

\* Every step leaves everything else well typed.
LEMMA DataStep ==
  ASSUME LoopType, DataType, Next
  PROVE  DataType'
<1>r. rt' \in [Services -> Runtime]
  BY RuntimeStep
<1>1. ASSUME NEW s \in Services, CommandStep(s)
      PROVE  DataType'
  <2>1. CASE DisableService(s)
    BY <2>1, <1>r, CancelRunsType DEF DisableService, DataType, runVars
  <2>2. CASE Restart(s) \/ RestartRefused(s) \/ Enable(s)
    BY <2>2 DEF Restart, RestartRefused, Enable, AwaitReload, DataType, runVars
  <2> QED BY <1>1, <2>1, <2>2 DEF CommandStep
<1>2. ASSUME NEW s \in Services, EventStep(s)
      PROVE  DataType'
  BY <1>2, ReceiveType DEF EventStep, HandleEvent, HandleEventInReload, HandleEventInDrain
<1>3. ASSUME NEW s \in Services, BackoffElapses(s)
      PROVE  DataType'
  BY <1>3, <1>r DEF BackoffElapses, DataType, runVars
<1>4. ASSUME NEW s \in Services, NEW run \in live[s] \cup readers[s], RunStep(s, run)
      PROVE  DataType'
  <2>1. run \in Runs
    BY <1>4 DEF DataType
  <2>2. inbox' \in [Services -> Seq(Events)]
    <3>1. PICK e \in Events : Send(s, e)
      BY <1>4, <2>1, EventType
         DEF RunStep, SignalProcess, ProcessExits, ProbeReports, ReaderEnds
    <3> QED BY <3>1, SendType
  <2>3. CASE SignalProcess(s, run)
    BY <2>1, <2>2, <2>3 DEF SignalProcess, DataType, runVars
  <2>4. ASSUME NEW o \in Outcomes, ProcessExits(s, run, o)
        PROVE  DataType'
    BY <2>2, <2>4 DEF ProcessExits, DataType
  <2>5. ASSUME NEW verdict, ProbeReports(s, run, verdict)
        PROVE  DataType'
    BY <2>2, <2>5 DEF ProbeReports, DataType, runVars
  <2>6. CASE ReaderEnds(s, run)
    BY <2>2, <2>6 DEF ReaderEnds, DataType
  <2> QED BY <1>4, <2>3, <2>4, <2>5, <2>6 DEF RunStep
<1>5. ASSUME NEW s \in Services, NEW run \in rt[s].draining, DrainTimer(s, run)
      PROVE  DataType'
  <2>1. run \in Runs
    BY <1>5 DEF DataType, Runtime
  <2> QED BY <1>5, <2>1 DEF DrainTimer, DataType, runVars
<1>6. CASE RestartAll \/ QuietWake \/ BackoffTimer
  BY <1>6 DEF RestartAll, AwaitReload, QuietWake, BackoffTimer, DataType, runVars
<1>7. CASE ReloadStep
  <2>1. CASE ReloadSucceeds
    <3>1. spent' \in [Services -> Nat] /\ config' \in Configs
      BY <2>1 DEF ReloadSucceeds, ResetSpent, DataType
    <3> QED BY <2>1, <3>1, <1>r, CancelRunsType DEF ReloadSucceeds, DataType, runVars
  <2>2. CASE ReloadFails \/ ReloadInterrupted
    BY <2>2 DEF ReloadFails, ReloadInterrupted, DataType, runVars
  <2> QED BY <1>7, <2>1, <2>2 DEF ReloadStep
<1>8. CASE PassStep
  <2>1. CASE PassSkip \/ PassBlocked \/ PassRepeat \/ PassEnd
    BY <2>1, <1>r DEF PassSkip, PassBlocked, PassRepeat, PassEnd, DataType, runVars
  <2>2. CASE PassStart \/ PassStartFails
    <3>1. Current \in Services
      BY <2>2, CurrentType DEF PassStart, PassStartFails
    <3>2. rt[Current].nextRun + 1 \in Runs /\ rt[Current].draining \in SUBSET Runs
      BY <3>1 DEF DataType, Runtime, RunOrNone, Runs
    <3>3. PrepareStart(Current)
      BY <2>2 DEF PassStart, PassStartFails
    <3>4. drainCapped' \in [Services -> SUBSET Runs] /\ spent' \in [Services -> Nat]
      BY <3>1, <3>2, <3>3 DEF PrepareStart, DataType
    <3>5. live' \in [Services -> SUBSET Runs] /\ readers' \in [Services -> SUBSET Runs]
      <4>1. CASE PassStart
        BY <4>1, <3>1, <3>2 DEF PassStart, DataType
      <4>2. CASE PassStartFails
        BY <4>2 DEF PassStartFails, DataType
      <4> QED BY <2>2, <4>1, <4>2
    <3> QED BY <3>3, <3>4, <3>5, <1>r DEF PrepareStart, DataType
  <2> QED BY <1>8, <2>1, <2>2 DEF PassStep
<1>9. CASE ShutdownStep \/ DrainTimesOut \/ CommandChannelCloses \/ RequestShutdown
  <2>1. CASE ObserveShutdown \/ DrainComplete
    BY <2>1 DEF ObserveShutdown, DrainComplete, DataType, runVars
  <2>2. CASE CancelAllRunning
    <3>1. rt' \in [Services -> Runtime] /\ cancelled' \in [Services -> SUBSET Runs]
      BY <2>2, <1>r, CancelRunsType DEF CancelAllRunning, DataType
    <3> QED BY <2>2, <3>1 DEF CancelAllRunning, DataType, runVars
  <2>3. CASE DrainTimesOut
    BY <2>3 DEF DrainTimesOut, DataType, runVars
  <2>4. CASE CommandChannelCloses \/ RequestShutdown
    BY <2>4 DEF CommandChannelCloses, RequestShutdown, DataType, runVars
  <2> QED BY <1>9, <2>1, <2>2, <2>3, <2>4 DEF ShutdownStep
<1> QED BY <1>1, <1>2, <1>3, <1>4, <1>5, <1>6, <1>7, <1>8, <1>9 DEF Next

\* The initial states are well typed.
LEMMA InitType == Init => TypeOK
<1> SUFFICES ASSUME Init PROVE LoopType /\ DataType
  BY TypeParts
<1>1. LoopType
  <2>1. cursor \in Nat \ {0}
    BY DEF Init
  <2>2. progress \in BOOLEAN
    BY DEF Init
  <2>3. pending \in Commands
    BY CommandType DEF Init
  <2> QED BY <2>1, <2>2, <2>3 DEF Init, LoopType
<1>2. rt \in [Services -> Runtime]
  <2>1. ASSUME NEW s \in Services
        PROVE  NewRuntime(s \notin Disabled, config.restart[s]) \in Runtime
    BY NewRuntimeType, ConfigType DEF Init
  <2> QED BY <2>1 DEF Init
<1>3. inbox \in [Services -> Seq(Events)]
  <2>1. <<>> \in Seq(Events)
    BY EmptySeq
  <2> QED BY <2>1 DEF Init
<1>4. DataType
  BY <1>2, <1>3 DEF Init, DataType
<1> QED BY <1>1, <1>4

\* Every step leaves them well typed.
LEMMA TypeStep == TypeOK /\ [Next]_vars => TypeOK'
<1> SUFFICES ASSUME LoopType, DataType, [Next]_vars
             PROVE  LoopType' /\ DataType'
  BY TypeParts DEF TypeOK, LoopType, DataType
<1>1. CASE Next
  BY <1>1, LoopStep, DataStep
<1>2. CASE UNCHANGED vars
  BY <1>2 DEF vars, loopVars, runVars, LoopType, DataType
<1> QED BY <1>1, <1>2

\* Type correctness: in every reachable state every variable has its type.  In
\* particular the backoff delay stays within its cap and every run handle,
\* parked reader and token names a run.
THEOREM TypeCorrect == Spec => []TypeOK
BY InitType, TypeStep, PTL DEF Spec
-----------------------------------------------------------------------------
(***************************************************************************)
(* The scheduler never tracks fewer processes than there are, and it       *)
(* implements the abstract supervisor.                                     *)
(*                                                                         *)
(* A step either changes records only, and in each keeps the run           *)
(* (KeepsRuns), or it receives an event, starts a run, fails to start one, *)
(* or is a step of a run's own tasks.  Everything here is shown for these  *)
(* five kinds of step.                                                     *)
(***************************************************************************)

\* A change of a record that neither begins nor ends a run: it leaves the life
\* of the service as it is or turns the service on or off.
Kept(r, q) ==
  /\ SameRun(r, q)
  /\ StateAgrees(q)
  /\ LifeOf(q) = LifeOf(r) \/ \E w \in {"enabled", "disabled"} : LifeOf(q) = StoppedLife(r, w)

KeepsRuns == \A t \in Services : Kept(rt[t], rt'[t])

\* A change of other fields only is one.
LEMMA KeptSame ==
  ASSUME NEW r, NEW q, StateAgrees(r), SameSupervision(r, q)
  PROVE  Kept(r, q)
BY SameSupervisionAgrees DEF Kept, SameSupervision

\* Unless it changes the record of one service, a step keeps all of them.
LEMMA KeptUnchanged ==
  ASSUME StateMatchesRun, UNCHANGED rt
  PROVE  KeepsRuns
BY KeptSame DEF KeepsRuns, StateMatchesRun, SameSupervision, SameRun

\* If it does, it keeps all of them when it keeps that one.
LEMMA KeptUpdate ==
  ASSUME DataType, StateMatchesRun, NEW s \in Services, NEW q, Kept(rt[s], q),
         rt' = [rt EXCEPT ![s] = q]
  PROVE  KeepsRuns
<1> SUFFICES ASSUME NEW t \in Services PROVE Kept(rt[t], rt'[t])
  BY DEF KeepsRuns
<1>1. CASE t = s
  BY <1>1 DEF DataType
<1>2. CASE t # s
  <2>1. rt'[t] = rt[t]
    BY <1>2 DEF DataType
  <2> QED BY <2>1, KeptSame DEF StateMatchesRun, SameSupervision, SameRun
<1> QED BY <1>1, <1>2

\* A request or a reload keeps the run of every service.
LEMMA KeptRequests ==
  ASSUME NEW r \in Runtime, NEW p \in Policies, NEW old \in Policies, NEW s, StateAgrees(r)
  PROVE  Kept(r, Disable(r)) /\ Kept(r, Apply(s, Reconfigure(r, old, p), p))
<1>1. Kept(r, Disable(r))
  BY DisableAgrees DEF Kept
<1> DEFINE c == Reconfigure(r, old, p)
<1>2. c \in Runtime /\ SameSupervision(r, c)
  BY ReconfigureType, TrackerSupervision
<1> HIDE DEF c
<1>3. StateAgrees(c) /\ LifeOf(c) = LifeOf(r)
  BY <1>2, SameSupervisionAgrees
<1>4. \A w : StoppedLife(c, w) = StoppedLife(r, w)
  BY <1>2 DEF StoppedLife, SameSupervision, SameRun
<1>5. Kept(r, RequestRestart(c, p))
  BY <1>2, <1>3, <1>4, RequestRestartAgrees DEF Kept, SameSupervision, SameRun
<1>6. Kept(r, RequestEnable(c, p))
  BY <1>2, <1>3, <1>4, RequestEnableAgrees DEF Kept, SameSupervision, SameRun
<1>7. Kept(r, c)
  BY <1>2, KeptSame
<1>8. Kept(r, Apply(s, c, p))
  BY <1>5, <1>6, <1>7 DEF Apply
<1> QED BY <1>1, <1>8 DEF c

\* The five kinds of step.
LEMMA StepKinds ==
  ASSUME LoopType, DataType, StateMatchesRun, Next
  PROVE  \/ UNCHANGED <<live, inbox>> /\ KeepsRuns
         \/ \E s \in Services, stable \in BOOLEAN : Receive(s, stable)
         \/ PassStart
         \/ PassStartFails
         \/ \E s \in Services : \E run \in live[s] \cup readers[s] : RunStep(s, run)
<1> DEFINE Quiet == UNCHANGED <<live, inbox>> /\ KeepsRuns
<1>p. \A s \in Services : Policy(s) \in Policies /\ rt[s] \in Runtime /\ StateAgrees(rt[s])
  BY ConfigType DEF Policy, DataType, StateMatchesRun
<1>1. ASSUME NEW s \in Services, CommandStep(s)
      PROVE  Quiet
  <2>1. CASE DisableService(s)
    <3>1. Kept(rt[s], Disable(rt[s]))
      BY <1>p, KeptRequests
    <3> QED BY <2>1, <3>1, KeptUpdate DEF DisableService, runVars
  <2>2. CASE Restart(s) \/ RestartRefused(s) \/ Enable(s)
    BY <2>2, KeptUnchanged DEF Restart, RestartRefused, Enable, AwaitReload, runVars
  <2> QED BY <1>1, <2>1, <2>2 DEF CommandStep
<1>2. ASSUME NEW s \in Services, EventStep(s)
      PROVE  \E stable \in BOOLEAN : Receive(s, stable)
  BY <1>2 DEF EventStep, HandleEvent, HandleEventInReload, HandleEventInDrain
<1>3. ASSUME NEW s \in Services, BackoffElapses(s)
      PROVE  Quiet
  <2>1. SameSupervision(rt[s], [rt[s] EXCEPT !.timer = "due"])
    BY <1>p DEF SameSupervision, SameRun, Runtime
  <2>2. Kept(rt[s], [rt[s] EXCEPT !.timer = "due"])
    BY <2>1, <1>p, KeptSame
  <2> QED BY <1>3, <2>2, KeptUpdate DEF BackoffElapses, runVars
<1>4. CASE ReloadStep
  <2>1. CASE ReloadSucceeds
    <3>1. PICK new \in Configs :
            rt' = [s \in Services |->
                     Apply(s, Reconfigure(rt[s], Policy(s), new.restart[s]), new.restart[s])]
      BY <2>1 DEF ReloadSucceeds
    <3>2. ASSUME NEW s \in Services
          PROVE  Kept(rt[s], rt'[s])
      <4>1. new.restart[s] \in Policies
        BY ConfigType
      <4> QED BY <3>1, <4>1, <1>p, KeptRequests
    <3> QED BY <2>1, <3>2 DEF ReloadSucceeds, KeepsRuns, runVars
  <2>2. CASE ReloadFails \/ ReloadInterrupted
    BY <2>2, KeptUnchanged DEF ReloadFails, ReloadInterrupted, runVars
  <2> QED BY <1>4, <2>1, <2>2 DEF ReloadStep
<1>5. CASE PassSkip
  <2>1. Current \in Services
    BY <1>5, CurrentType DEF PassSkip
  <2>2. SameSupervision(rt[Current], [rt[Current] EXCEPT !.blockedOn = {}])
    BY <1>p, <2>1 DEF SameSupervision, SameRun, Runtime
  <2>3. Kept(rt[Current], [rt[Current] EXCEPT !.blockedOn = {}])
    BY <2>1, <2>2, <1>p, KeptSame
  <2> QED BY <1>5, <2>1, <2>3, KeptUpdate DEF PassSkip, runVars
<1>6. CASE PassEnd
  <2>1. ASSUME NEW s \in Services
        PROVE  Kept(rt[s], rt'[s])
    <3>1. SameSupervision(rt[s], [rt[s] EXCEPT !.blockedOn = Blockers(s)])
      BY <1>p DEF SameSupervision, SameRun, Runtime
    <3>2. SameSupervision(rt[s], rt[s])
      BY DEF SameSupervision, SameRun
    <3>3. rt'[s] \in {rt[s], [rt[s] EXCEPT !.blockedOn = Blockers(s)]}
      BY <1>6 DEF PassEnd
    <3> QED BY <3>1, <3>2, <3>3, <1>p, KeptSame
  <2> QED BY <1>6, <2>1 DEF PassEnd, KeepsRuns, runVars
<1>7. CASE PassBlocked \/ PassRepeat
  BY <1>7, KeptUnchanged DEF PassBlocked, PassRepeat, runVars
<1>8. CASE RestartAll \/ QuietWake \/ BackoffTimer
  BY <1>8, KeptUnchanged DEF RestartAll, AwaitReload, QuietWake, BackoffTimer, runVars
<1>9. CASE ShutdownStep \/ DrainTimesOut \/ CommandChannelCloses \/ RequestShutdown
  BY <1>9, KeptUnchanged
     DEF ShutdownStep, ObserveShutdown, CancelAllRunning, DrainComplete, DrainTimesOut,
         CommandChannelCloses, RequestShutdown, runVars
<1>10. ASSUME NEW s \in Services, NEW run, DrainTimer(s, run)
       PROVE  Quiet
  BY <1>10, KeptUnchanged DEF DrainTimer, runVars
<1> QED BY <1>1, <1>2, <1>3, <1>4, <1>5, <1>6, <1>7, <1>8, <1>9, <1>10 DEF Next, PassStep

-----------------------------------------------------------------------------
(***************************************************************************)
(* Receiving an event.                                                     *)
(***************************************************************************)

\* An event is about the run in progress and ends it, or it keeps the run.
LEMMA AfterEventAgrees ==
  ASSUME NEW r \in Runtime, NEW p \in Policies, NEW e \in Events, NEW stable \in BOOLEAN,
         StateAgrees(r)
  PROVE  LET q == AfterEvent(r, p, e, stable)
         IN  IF e.kind = "exited" /\ e.run = r.running
             THEN /\ r.running # NoRun /\ q.running = NoRun /\ q.nextRun = r.nextRun
                  /\ StateAgrees(q)
                  /\ LifeOf(q) = [wanted |-> r.desired, phase |-> "down", generation |-> r.nextRun]
             ELSE Kept(r, q)
<1>r. SameSupervision(r, r)
  BY DEF SameSupervision, SameRun
<1>1. CASE ~Relevant(r, e)
  <2>1. AfterEvent(r, p, e, stable) = r /\ e.run # r.running
    BY <1>1 DEF AfterEvent, Relevant
  <2> QED BY <1>r, <2>1, KeptSame
<1>2. CASE Relevant(r, e) /\ e.kind = "exited"
  <2>1. e.run = r.running /\ r.running # NoRun
    BY <1>2 DEF Relevant, Events, Runs, NoRun
  <2>2. AfterEvent(r, p, e, stable) = FinishCurrentRun(r, p, e.outcome, stable)
    BY <1>2 DEF AfterEvent
  <2> QED BY <1>2, <2>1, <2>2, FinishCurrentRunAgrees
<1>3. CASE Relevant(r, e) /\ e.kind \in {"healthy", "unhealthy"}
  <2>1. r.running # NoRun
    BY <1>3 DEF Relevant, Events, Runs, NoRun
  <2>2. AfterEvent(r, p, e, stable) = MarkHealth(r, e.kind)
    BY <1>3 DEF AfterEvent
  <2>3. Kept(r, MarkHealth(r, e.kind))
    BY <1>3, <2>1, MarkAgrees DEF Kept
  <2> QED BY <1>3, <2>2, <2>3
<1>4. CASE Relevant(r, e) /\ e.kind = "killed"
  <2>1. r.running # NoRun /\ r.desired \in {"enabled", "disabled"}
    BY <1>4 DEF Relevant, Events, Runs, NoRun, Runtime
  <2>2. AfterEvent(r, p, e, stable) = MarkKilled(r)
    BY <1>4 DEF AfterEvent
  <2>3. Kept(r, MarkKilled(r))
    BY <2>1, MarkAgrees DEF Kept
  <2> QED BY <1>4, <2>2, <2>3
<1>5. CASE Relevant(r, e) /\ e.kind = "reader_finished"
  <2>1. AfterEvent(r, p, e, stable) = FinishLogReader(r, e.run)
    BY <1>5 DEF AfterEvent
  <2>2. SameSupervision(r, FinishLogReader(r, e.run))
    BY DEF FinishLogReader, SameSupervision, SameRun, Runtime
  <2> QED BY <1>5, <2>1, <2>2, KeptSame
<1> QED BY <1>1, <1>2, <1>3, <1>4, <1>5 DEF Events

-----------------------------------------------------------------------------
(***************************************************************************)
(* The queues.                                                             *)
(***************************************************************************)

\* An event that is sent adds its run to those of its kind.
LEMMA RunsOfAppend ==
  ASSUME NEW q \in Seq(Events), NEW e \in Events, NEW kind
  PROVE  RunsOf(Append(q, e), kind) =
           RunsOf(q, kind) \cup (IF e.kind = kind THEN {e.run} ELSE {})
<1> DEFINE a == Append(q, e)
<1>1. /\ Len(q) \in Nat /\ DOMAIN q = 1 .. Len(q) /\ DOMAIN a = 1 .. Len(q) + 1
      /\ \A i \in 1 .. Len(q) : a[i] = q[i]
      /\ a[Len(q) + 1] = e
  BY AppendProperties, LenProperties
<1> HIDE DEF a
<1>2. RunsOf(a, kind) \subseteq RunsOf(q, kind) \cup (IF e.kind = kind THEN {e.run} ELSE {})
  <2> SUFFICES ASSUME NEW i \in DOMAIN a, a[i].kind = kind
               PROVE  a[i].run \in RunsOf(q, kind) \cup (IF e.kind = kind THEN {e.run} ELSE {})
    BY DEF RunsOf
  <2>1. CASE i = Len(q) + 1
    BY <1>1, <2>1
  <2>2. CASE i # Len(q) + 1
    <3>1. i \in DOMAIN q /\ a[i] = q[i]
      BY <1>1, <2>2
    <3> QED BY <3>1 DEF RunsOf
  <2> QED BY <2>1, <2>2
<1>3. RunsOf(q, kind) \subseteq RunsOf(a, kind)
  <2> SUFFICES ASSUME NEW i \in DOMAIN q, q[i].kind = kind
               PROVE  q[i].run \in RunsOf(a, kind)
    BY DEF RunsOf
  <2>1. i \in DOMAIN a /\ a[i] = q[i]
    BY <1>1
  <2> QED BY <2>1 DEF RunsOf
<1>4. e.kind = kind => e.run \in RunsOf(a, kind)
  <2>1. Len(q) + 1 \in DOMAIN a
    BY <1>1
  <2> QED BY <1>1, <2>1 DEF RunsOf
<1> QED BY <1>2, <1>3, <1>4 DEF a

\* Receiving the head leaves the runs of the others.
LEMMA RunsOfTail ==
  ASSUME NEW q \in Seq(Events), q # <<>>, NEW kind
  PROVE  RunsOf(q, kind) =
           RunsOf(Tail(q), kind) \cup (IF Head(q).kind = kind THEN {Head(q).run} ELSE {})
<1> DEFINE t == Tail(q)
<1>1. /\ Len(q) \in Nat \ {0} /\ DOMAIN q = 1 .. Len(q) /\ DOMAIN t = 1 .. Len(q) - 1
      /\ \A i \in 1 .. Len(q) - 1 : t[i] = q[i + 1]
      /\ Head(q) = q[1]
  BY HeadTailProperties, LenProperties, EmptySeq
<1> HIDE DEF t
<1>2. RunsOf(q, kind) \subseteq RunsOf(t, kind) \cup (IF Head(q).kind = kind THEN {Head(q).run} ELSE {})
  <2> SUFFICES ASSUME NEW i \in DOMAIN q, q[i].kind = kind
               PROVE  q[i].run \in RunsOf(t, kind) \cup (IF Head(q).kind = kind THEN {Head(q).run} ELSE {})
    BY DEF RunsOf
  <2>1. CASE i = 1
    BY <1>1, <2>1
  <2>2. CASE i # 1
    <3>1. i - 1 \in DOMAIN t /\ t[i - 1] = q[i]
      BY <1>1, <2>2
    <3> QED BY <3>1 DEF RunsOf
  <2> QED BY <2>1, <2>2
<1>3. RunsOf(t, kind) \subseteq RunsOf(q, kind)
  <2> SUFFICES ASSUME NEW i \in DOMAIN t, t[i].kind = kind
               PROVE  t[i].run \in RunsOf(q, kind)
    BY DEF RunsOf
  <2>1. i + 1 \in DOMAIN q /\ q[i + 1] = t[i]
    BY <1>1
  <2> QED BY <2>1 DEF RunsOf
<1>4. Head(q).kind = kind => Head(q).run \in RunsOf(q, kind)
  <2>1. 1 \in DOMAIN q
    BY <1>1
  <2> QED BY <1>1, <2>1 DEF RunsOf
<1> QED BY <1>2, <1>3, <1>4 DEF t

-----------------------------------------------------------------------------
(***************************************************************************)
(* Every step keeps StateMatchesRun and RunsAgree and is a step of the     *)
(* abstract supervisor.                                                    *)
(***************************************************************************)

\* The part of RunsAgree about one service.
RunAgrees(r, alive, queue) ==
  /\ r.running <= r.nextRun
  /\ alive \subseteq {r.running}
  /\ \A run \in RunsOf(queue, "exited") : run <= r.nextRun /\ run \notin alive
  /\ r.running # NoRun => r.running \in alive \cup RunsOf(queue, "exited")

\* RunsAgree is that of all services.
LEMMA RunsAgreeParts ==
  RunsAgree <=> \A s \in Services : RunAgrees(rt[s], live[s], inbox[s])
BY DEF RunsAgree, RunAgrees

\* What a step may do to a service.
Sound(s) ==
  /\ StateAgrees(rt'[s])
  /\ RunAgrees(rt'[s], live'[s], inbox'[s])
  /\ Supervisor!ServiceStep(LifeOf(rt[s]), LifeOf(rt'[s]))

\* A record that keeps its run takes a step of the abstract supervisor.
LEMMA KeptLife ==
  ASSUME NEW r \in Runtime, NEW q, Kept(r, q)
  PROVE  Supervisor!ServiceStep(LifeOf(r), LifeOf(q))
<1>1. CASE LifeOf(q) = LifeOf(r)
  BY <1>1 DEF Supervisor!ServiceStep
<1>2. ASSUME NEW w \in {"enabled", "disabled"}, LifeOf(q) = StoppedLife(r, w)
      PROVE  Supervisor!ServiceStep(LifeOf(r), LifeOf(q))
  <2>1. StoppedLife(r, w) = Supervisor!Turn(LifeOf(r), w)
    BY DEF StoppedLife, LifeOf, Supervisor!Turn, Supervisor!Stopped
  <2> QED BY <1>2, <2>1
       DEF Supervisor!ServiceStep, Supervisor!TurnOn, Supervisor!TurnOff
<1> QED BY <1>1, <1>2 DEF Kept

\* A service whose record, processes and queue a step leaves alone.
LEMMA SoundKept ==
  ASSUME DataType, StateMatchesRun, RunsAgree, NEW s \in Services, Kept(rt[s], rt'[s]),
         UNCHANGED <<live[s], inbox[s]>>
  PROVE  Sound(s)
<1>1. rt[s] \in Runtime /\ RunAgrees(rt[s], live[s], inbox[s])
  BY RunsAgreeParts DEF DataType
<1>2. RunAgrees(rt'[s], live'[s], inbox'[s])
  BY <1>1 DEF RunAgrees, Kept, SameRun
<1> QED BY <1>1, <1>2, KeptLife DEF Sound, Kept

\* In particular, a service that a step does not touch.
LEMMA SoundSame ==
  ASSUME DataType, StateMatchesRun, RunsAgree, NEW s \in Services,
         UNCHANGED <<rt[s], live[s], inbox[s]>>
  PROVE  Sound(s)
<1>1. Kept(rt[s], rt'[s])
  BY KeptSame DEF StateMatchesRun, SameSupervision, SameRun
<1> QED BY <1>1, SoundKept

\* Receiving an event: the exit of the run in progress ends it, any other
\* event keeps it.
LEMMA SoundReceive ==
  ASSUME DataType, StateMatchesRun, RunsAgree,
         NEW s \in Services, NEW stable \in BOOLEAN, Receive(s, stable), NEW t \in Services
  PROVE  Sound(t)
<1> DEFINE e == Head(inbox[s])
           r == rt[s]
           q == AfterEvent(r, Policy(s), e, stable)
<1>1. inbox[s] \in Seq(Events) /\ inbox[s] # <<>>
  BY DEF DataType, Receive
<1>2. e \in Events
  BY <1>1, HeadTailProperties
<1>3. Policy(s) \in Policies /\ r \in Runtime /\ StateAgrees(r)
  BY ConfigType DEF Policy, DataType, StateMatchesRun
<1>4. /\ rt' = [rt EXCEPT ![s] = q]
      /\ inbox' = [inbox EXCEPT ![s] = Tail(inbox[s])]
      /\ live' = live
  BY DEF Receive, runVars
<1>5. CASE t # s
  <2>1. UNCHANGED <<rt[t], live[t], inbox[t]>>
    BY <1>4, <1>5 DEF DataType
  <2> QED BY <2>1, SoundSame
<1>6. CASE t = s
  <2>1. rt'[s] = q /\ inbox'[s] = Tail(inbox[s]) /\ live'[s] = live[s]
    BY <1>4 DEF DataType
  <2>2. RunAgrees(r, live[s], inbox[s])
    BY RunsAgreeParts
  <2>3. RunsOf(inbox[s], "exited") =
          RunsOf(Tail(inbox[s]), "exited") \cup (IF e.kind = "exited" THEN {e.run} ELSE {})
    BY <1>1, RunsOfTail
  <2>4. CASE e.kind = "exited" /\ e.run = r.running
    <3> HIDE DEF q, e
    <3>1. /\ r.running # NoRun /\ q.running = NoRun /\ q.nextRun = r.nextRun
          /\ StateAgrees(q)
          /\ LifeOf(q) = [wanted |-> r.desired, phase |-> "down", generation |-> r.nextRun]
      BY <1>2, <1>3, <2>4, AfterEventAgrees DEF q
    <3>2. live[s] = {}
      BY <2>2, <2>3, <2>4 DEF RunAgrees
    <3>3. RunAgrees(q, {}, Tail(inbox[s]))
      <4>1. q.running <= q.nextRun
        BY <1>3, <3>1 DEF Runtime, RunOrNone, NoRun
      <4> QED BY <2>2, <2>3, <3>1, <4>1 DEF RunAgrees
    <3>4. Supervisor!Reap(LifeOf(r), LifeOf(q))
      BY <1>3, <3>1 DEF Supervisor!Reap, LifeOf
    <3> QED BY <1>6, <2>1, <3>1, <3>2, <3>3, <3>4 DEF Sound, Supervisor!ServiceStep
  <2>5. CASE ~(e.kind = "exited" /\ e.run = r.running)
    <3> HIDE DEF q, e
    <3>1. Kept(r, q)
      BY <1>2, <1>3, <2>5, AfterEventAgrees DEF q
    <3>2. RunAgrees(q, live[s], Tail(inbox[s]))
      BY <2>2, <2>3, <2>5, <3>1 DEF RunAgrees, Kept, SameRun
    <3> QED BY <1>3, <1>6, <2>1, <3>1, <3>2, KeptLife DEF Sound, Kept
  <2> QED BY <2>4, <2>5
<1> QED BY <1>5, <1>6

\* A start, of a service without a run, and an attempt that fails.
LEMMA SoundStart ==
  ASSUME LoopType, DataType, StateMatchesRun, RunsAgree, PassStart \/ PassStartFails,
         NEW t \in Services
  PROVE  Sound(t)
<1> DEFINE s == Current
           r == rt[s]
           run == r.nextRun + 1
<1>1. s \in Services
  BY CurrentType DEF PassStart, PassStartFails
<1>2. r \in Runtime /\ Policy(s) \in Policies /\ StateAgrees(r) /\ RunAgrees(r, live[s], inbox[s])
  BY <1>1, ConfigType, RunsAgreeParts DEF Policy, DataType, StateMatchesRun
<1>3. ShouldConsiderStart(r, Policy(s)) /\ inbox' = inbox
  BY DEF PassStart, PassStartFails, MayStart, Considered, PrepareStart
<1>4. r.running = NoRun /\ r.desired = "enabled" /\ r.nextRun \in Nat
  BY <1>2, <1>3 DEF ShouldConsiderStart, Runtime, RunOrNone
<1>5. live[s] = {}
  BY <1>1, <1>2, <1>4 DEF RunAgrees, DataType, Runs, NoRun
<1>6. LifeOf(r) = [wanted |-> "enabled", phase |-> "down", generation |-> r.nextRun]
  BY <1>4 DEF LifeOf
<1>7. \A x \in RunsOf(inbox[s], "exited") : x \in Nat /\ x <= r.nextRun
  <2>1. inbox[s] \in Seq(Events)
    BY <1>1 DEF DataType
  <2>2. \A i \in DOMAIN inbox[s] : inbox[s][i].run \in Nat
    BY <2>1, LenProperties, ElementOfSeq DEF Events, Runs
  <2> QED BY <1>2, <2>2 DEF RunAgrees, RunsOf
<1>8. CASE PassStart
  <2>1. rt' = [rt EXCEPT ![s] = StartedRun(r, Policy(s))]
        /\ live' = [live EXCEPT ![s] = live[s] \cup {run}]
    BY <1>8 DEF PassStart
  <2>2. CASE t # s
    <3>1. UNCHANGED <<rt[t], live[t], inbox[t]>>
      BY <1>3, <2>1, <2>2 DEF DataType
    <3> QED BY <3>1, SoundSame
  <2>3. CASE t = s
    <3> DEFINE q == StartedRun(r, Policy(s))
    <3>1. rt'[s] = q /\ live'[s] = {run} /\ inbox'[s] = inbox[s]
      BY <1>1, <1>3, <1>5, <2>1 DEF DataType
    <3>2. /\ q.running = run /\ q.nextRun = run /\ StateAgrees(q)
          /\ LifeOf(q) = [wanted |-> "enabled", phase |-> "up", generation |-> run]
      BY <1>2, <1>3, StartAgrees
    <3> HIDE DEF q
    <3>3. RunAgrees(q, {run}, inbox[s])
      BY <1>4, <1>7, <3>2 DEF RunAgrees
    <3>4. Supervisor!Launch(LifeOf(r), LifeOf(q))
      BY <1>6, <3>2 DEF Supervisor!Launch
    <3> QED BY <2>3, <3>1, <3>2, <3>3, <3>4 DEF Sound, Supervisor!ServiceStep
  <2> QED BY <2>2, <2>3
<1>9. CASE PassStartFails
  <2>1. rt' = [rt EXCEPT ![s] = FailedStart(r, Policy(s))] /\ live' = live
    BY <1>9 DEF PassStartFails
  <2>2. CASE t # s
    <3>1. UNCHANGED <<rt[t], live[t], inbox[t]>>
      BY <1>3, <2>1, <2>2 DEF DataType
    <3> QED BY <3>1, SoundSame
  <2>3. CASE t = s
    <3> DEFINE q == FailedStart(r, Policy(s))
    <3>1. rt'[s] = q /\ live'[s] = {} /\ inbox'[s] = inbox[s]
      BY <1>1, <1>3, <1>5, <2>1 DEF DataType
    <3>2. /\ q.running = NoRun /\ q.nextRun = run /\ StateAgrees(q)
          /\ LifeOf(q) = [wanted |-> "enabled", phase |-> "down", generation |-> run]
      BY <1>2, <1>3, FailedStartAgrees
    <3> HIDE DEF q
    <3>3. RunAgrees(q, {}, inbox[s])
      BY <1>4, <1>7, <3>2 DEF RunAgrees, NoRun
    <3>4. Supervisor!FailToLaunch(LifeOf(r), LifeOf(q))
      BY <1>6, <3>2 DEF Supervisor!FailToLaunch
    <3> QED BY <2>3, <3>1, <3>2, <3>3, <3>4 DEF Sound, Supervisor!ServiceStep
  <2> QED BY <2>2, <2>3
<1> QED BY <1>8, <1>9

\* A step of a run's own tasks sends an event; an exit is sent by a process
\* that is gone with it.
LEMMA SoundRunStep ==
  ASSUME DataType, StateMatchesRun, RunsAgree,
         NEW s \in Services, NEW run \in live[s] \cup readers[s], RunStep(s, run),
         NEW t \in Services
  PROVE  Sound(t)
<1>1. rt' = rt
  BY DEF RunStep, SignalProcess, ProcessExits, ProbeReports, ReaderEnds
<1>2. run \in Runs /\ inbox[s] \in Seq(Events)
  BY DEF DataType
<1>3. Kept(rt[s], rt'[s])
  BY <1>1, KeptSame DEF StateMatchesRun, SameSupervision, SameRun
<1>4. rt[s] \in Runtime /\ RunAgrees(rt[s], live[s], inbox[s])
  BY RunsAgreeParts DEF DataType
<1>5. ASSUME t # s
      PROVE  Sound(t)
  <2>1. UNCHANGED <<rt[t], live[t], inbox[t]>>
    BY <1>1, <1>5
       DEF RunStep, SignalProcess, ProcessExits, ProbeReports, ReaderEnds, Send, DataType, runVars
  <2> QED BY <2>1, SoundSame
<1>6. ASSUME NEW outcome \in Outcomes, ProcessExits(s, run, outcome)
      PROVE  Sound(s)
  <2> DEFINE e == ExitEvent(run, outcome)
  <2>1. /\ run \in live[s] /\ live'[s] = live[s] \ {run}
        /\ inbox'[s] = Append(inbox[s], e)
    BY <1>6 DEF ProcessExits, Send, DataType
  <2>2. e \in Events /\ e.kind = "exited" /\ e.run = run
    BY <1>2, EventType DEF ExitEvent
  <2> HIDE DEF e
  <2>3. RunsOf(inbox'[s], "exited") = RunsOf(inbox[s], "exited") \cup {run}
    BY <1>2, <2>1, <2>2, RunsOfAppend
  <2>4. run = rt[s].running
    BY <1>4, <2>1 DEF RunAgrees
  <2>5. RunAgrees(rt[s], live'[s], inbox'[s])
    BY <1>4, <2>1, <2>3, <2>4 DEF RunAgrees
  <2> QED BY <1>1, <1>3, <1>4, <2>5, KeptLife DEF Sound, Kept
<1>7. ASSUME NEW e \in Events, Send(s, e), e.kind # "exited", live' = live
      PROVE  Sound(s)
  <2>1. RunsOf(inbox'[s], "exited") = RunsOf(inbox[s], "exited")
    <3>1. inbox'[s] = Append(inbox[s], e)
      BY <1>7 DEF Send, DataType
    <3>2. RunsOf(inbox'[s], "exited") =
            RunsOf(inbox[s], "exited") \cup (IF e.kind = "exited" THEN {e.run} ELSE {})
      BY <1>2, <3>1, RunsOfAppend
    <3> QED BY <1>7, <3>2
  <2>2. RunAgrees(rt[s], live'[s], inbox'[s])
    BY <1>4, <1>7, <2>1 DEF RunAgrees
  <2> QED BY <1>1, <1>3, <1>4, <2>2, KeptLife DEF Sound, Kept
<1>8. ASSUME SignalProcess(s, run) \/ ReaderEnds(s, run)
      PROVE  Sound(s)
  <2>1. PICK e \in Events : Send(s, e) /\ e.kind # "exited"
    BY <1>2, <1>8, EventType DEF SignalProcess, ReaderEnds, Event
  <2> QED BY <1>7, <1>8, <2>1 DEF SignalProcess, ReaderEnds
<1>9. ASSUME NEW verdict \in {"healthy", "unhealthy"}, ProbeReports(s, run, verdict)
      PROVE  Sound(s)
  <2>1. PICK e \in Events : Send(s, e) /\ e.kind # "exited"
    BY <1>2, <1>9, EventType DEF ProbeReports, Event
  <2> QED BY <1>7, <1>9, <2>1 DEF ProbeReports, runVars
<1> QED BY <1>5, <1>6, <1>8, <1>9 DEF RunStep

\* All steps together.
LEMMA SoundStep ==
  ASSUME LoopType, DataType, StateMatchesRun, RunsAgree, [Next]_vars, NEW t \in Services
  PROVE  Sound(t)
<1>1. CASE UNCHANGED vars
  BY <1>1, SoundSame DEF vars, runVars
<1>2. CASE UNCHANGED <<live, inbox>> /\ KeepsRuns
  BY <1>2, SoundKept DEF KeepsRuns
<1>3. CASE \E s \in Services, stable \in BOOLEAN : Receive(s, stable)
  BY <1>3, SoundReceive
<1>4. CASE PassStart \/ PassStartFails
  BY <1>4, SoundStart
<1>5. CASE \E s \in Services : \E run \in live[s] \cup readers[s] : RunStep(s, run)
  BY <1>5, SoundRunStep
<1> QED BY <1>1, <1>2, <1>3, <1>4, <1>5, StepKinds

-----------------------------------------------------------------------------
(***************************************************************************)
(* The theorems.                                                           *)
(***************************************************************************)

\* The inductive invariant: types, agreement of the records' fields, and
\* agreement of the records with the processes and the exits on their way.
IInv == TypeOK /\ StateMatchesRun /\ RunsAgree

\* It holds at the start, ...
LEMMA Initially == Init => IInv
<1> SUFFICES ASSUME Init PROVE IInv
  OBVIOUS
<1>1. TypeOK
  BY InitType
<1>2. ASSUME NEW s \in Services
      PROVE  StateAgrees(rt[s]) /\ RunAgrees(rt[s], live[s], inbox[s])
  <2>1. rt[s] = NewRuntime(s \notin Disabled, config.restart[s]) /\ live[s] = {} /\ inbox[s] = <<>>
    BY DEF Init
  <2>2. /\ rt[s].running = NoRun /\ rt[s].nextRun = 0 /\ rt[s].lastRun = NoRun
        /\ ~rt[s].clearLogs /\ ~rt[s].startRequested
        /\ \/ rt[s].desired = "enabled" /\ rt[s].state = "pending"
           \/ rt[s].desired = "disabled" /\ rt[s].state = "disabled"
    BY <2>1 DEF NewRuntime
  <2>3. StateAgrees(rt[s])
    BY <2>2 DEF StateAgrees, RunGeneration, NoRun
  <2>4. RunsOf(<<>>, "exited") = {}
    BY DEF RunsOf
  <2> QED BY <2>1, <2>2, <2>3, <2>4 DEF RunAgrees, NoRun
<1> QED BY <1>1, <1>2, RunsAgreeParts DEF IInv, StateMatchesRun

\* ... every step keeps it, ...
LEMMA Inductive == IInv /\ [Next]_vars => IInv'
<1> SUFFICES ASSUME IInv, [Next]_vars PROVE IInv'
  OBVIOUS
<1>1. LoopType /\ DataType
  BY TypeParts DEF IInv
<1>2. \A t \in Services : Sound(t)
  BY <1>1, SoundStep DEF IInv
<1>3. TypeOK'
  BY TypeStep DEF IInv
<1>4. StateMatchesRun'
  BY <1>2 DEF StateMatchesRun, Sound
<1>5. RunsAgree'
  BY <1>2 DEF RunsAgree, RunAgrees, Sound
<1> QED BY <1>3, <1>4, <1>5 DEF IInv

\* ... and so it holds always.
THEOREM Invariance == Spec => []IInv
BY Initially, Inductive, PTL DEF Spec

\* Whatever the interleaving of commands, exits, reloads and the shutdown, no
\* service ever has a process beside the run that the scheduler tracks.
THEOREM OneProcessHolds == Spec => []OneProcess
<1>1. IInv => OneProcess
  BY DEF IInv, RunsAgree, OneProcess
<1> QED BY <1>1, Invariance, PTL

\* A run the scheduler tracks is alive, or its exit is queued.
THEOREM RunAccountedHolds == Spec => []RunAccounted
<1>1. IInv => RunAccounted
  BY DEF IInv, RunsAgree, RunAccounted
<1> QED BY <1>1, Invariance, PTL

\* The displayed state, the intent, the run handle and the run counters agree.
THEOREM StateMatchesRunHolds == Spec => []StateMatchesRun
<1>1. IInv => StateMatchesRun
  BY DEF IInv
<1> QED BY <1>1, Invariance, PTL

\* The scheduler implements the abstract supervisor: one run at a time with a
\* fresh generation, no start against the operator's intent, no revival of a
\* run that is being stopped.
THEOREM Implements == Spec => ImplementsSupervision
<1> DEFINE life == [s \in Services |-> LifeOf(rt[s])]
<1>1. Init => Supervisor!Init
  <2> SUFFICES ASSUME Init PROVE Supervisor!Init
    OBVIOUS
  <2>1. ASSUME NEW s \in Services
        PROVE  /\ LifeOf(rt[s]) \in Supervisor!Life
               /\ LifeOf(rt[s]).phase = "down" /\ LifeOf(rt[s]).generation = 0
    <3>1. rt[s] = NewRuntime(s \notin Disabled, config.restart[s])
      BY DEF Init
    <3>2. /\ rt[s].running = NoRun /\ rt[s].nextRun = 0
          /\ rt[s].desired \in {"enabled", "disabled"}
      BY <3>1 DEF NewRuntime
    <3> QED BY <3>2 DEF LifeOf, Supervisor!Life
  <2> QED BY <2>1 DEF Supervisor!Init
<1>2. IInv /\ [Next]_vars => [Supervisor!Next]_life
  <2> SUFFICES ASSUME IInv, [Next]_vars
               PROVE  Supervisor!Next
    OBVIOUS
  <2>1. LoopType /\ DataType
    BY TypeParts DEF IInv
  <2>2. \A t \in Services : Sound(t)
    BY <2>1, SoundStep DEF IInv
  <2> QED BY <2>2 DEF Supervisor!Next, Sound
<1> QED BY <1>1, <1>2, Invariance, PTL DEF Spec, ImplementsSupervision, Supervisor!Spec

-----------------------------------------------------------------------------
(***************************************************************************)
(* Accounts: the log reader threads of each service, its restart budget,   *)
(* the runs left at the end of a drain, and what a schedule pass has       *)
(* already looked at.                                                      *)
(***************************************************************************)

(***************************************************************************)
(* The records.                                                            *)
(***************************************************************************)

\* The fields that the count of the readers is about agree in two records.
SameReaders(r, q) ==
  /\ q.running = r.running /\ q.nextRun = r.nextRun
  /\ q.readerHeld = r.readerHeld /\ q.draining = r.draining

\* Beside them, the budget.
SameBooks(r, q) == SameReaders(r, q) /\ q.remaining = r.remaining

\* Turning a service off leaves its readers and its budget alone.
LEMMA DisableBooks ==
  ASSUME NEW r \in Runtime
  PROVE  SameBooks(r, Disable(r))
BY DEF SameBooks, SameReaders, Disable, ClearBackoff, Runtime

\* A reload leaves the readers alone and gives a service a fresh budget exactly
\* if the command is about it or the configured budget changed.
LEMMA ReloadBooks ==
  ASSUME NEW r \in Runtime, NEW old \in Policies, NEW p \in Policies, NEW s
  PROVE  LET q == Apply(s, Reconfigure(r, old, p), p)
         IN  /\ SameReaders(r, q)
             /\ q.remaining = IF s \in Targets \/ OnFailureMax(old) # OnFailureMax(p)
                              THEN OnFailureMax(p) ELSE r.remaining
<1> DEFINE c == Reconfigure(r, old, p)
<1>1. c \in Runtime /\ SameReaders(r, c)
  BY ReconfigureType DEF Reconfigure, SameReaders, Runtime
<1>2. c.remaining = IF OnFailureMax(old) # OnFailureMax(p) THEN OnFailureMax(p) ELSE r.remaining
  BY DEF Reconfigure, Runtime
<1> HIDE DEF c
<1>3. SameReaders(c, RequestRestart(c, p)) /\ RequestRestart(c, p).remaining = OnFailureMax(p)
  BY <1>1 DEF RequestRestart, ResetFailureBudget, ClearBackoff, SameReaders, Runtime
<1>4. SameReaders(c, RequestEnable(c, p)) /\ RequestEnable(c, p).remaining = OnFailureMax(p)
  BY <1>1 DEF RequestEnable, ResetFailureBudget, ClearBackoff, SameReaders, Runtime
<1> QED BY <1>1, <1>2, <1>3, <1>4 DEF Apply, SameReaders, c

\* The end of a run or of a failed start leaves the readers alone, and renews
\* the budget only after a stable run.
LEMMA FinishRunStateBooks ==
  ASSUME NEW r \in Runtime, NEW p, NEW outcome, NEW run, NEW stable \in BOOLEAN
  PROVE  LET q == FinishRunState(r, p, outcome, run, stable)
         IN  /\ SameReaders(r, q)
             /\ q.remaining = r.remaining \/ (stable /\ q.remaining = OnFailureMax(p))
             /\ q.blockedOn = r.blockedOn
             /\ q.lastExit = outcome
BY DEF FinishRunState, ApplyBackoff, ClearBackoff, ResetFailureBudget, SameReaders, Runtime

\* What every start attempt does to a candidate: the next run id is taken, and
\* an automatic restart is paid for.
LEMMA BeginStartBooks ==
  ASSUME NEW r \in Runtime, NEW p
  PROVE  LET b == BeginStart(r, p)
         IN  /\ b.running = r.running /\ b.nextRun = r.nextRun + 1
             /\ b.readerHeld = r.readerHeld /\ b.draining = r.draining
             /\ b.remaining = DecrementFailureBudget(r, p).remaining
             /\ b.blockedOn = {}
BY DEF BeginStart, DecrementFailureBudget, Runtime

\* A failed start changes no more than that.
LEMMA FailedStartBooks ==
  ASSUME NEW r \in Runtime, NEW p \in Policies
  PROVE  LET b == BeginStart(r, p)
             q == FailedStart(r, p)
         IN  SameBooks(b, q) /\ q.blockedOn = {} /\ q.lastExit = "failure"
<1> DEFINE b == BeginStart(r, p)
<1>1. b \in Runtime /\ b.blockedOn = {}
  BY BeginStartType, BeginStartBooks
<1>2. FailedStart(r, p) = FinishRunState(b, p, "failure", b.nextRun, FALSE)
  BY DEF FailedStart
<1> HIDE DEF b
<1>3. LET q == FinishRunState(b, p, "failure", b.nextRun, FALSE)
      IN  SameBooks(b, q) /\ q.blockedOn = b.blockedOn /\ q.lastExit = "failure"
  BY <1>1 DEF FinishRunState, ApplyBackoff, ClearBackoff, ResetFailureBudget, SameBooks,
     SameReaders, Runtime
<1> QED BY <1>1, <1>2, <1>3 DEF b

-----------------------------------------------------------------------------
(***************************************************************************)
(* The steps.                                                              *)
(***************************************************************************)

\* A step that changes neither the threads, the queues, the counts nor the
\* fields of the records that go with them.
KeepsBooks ==
  /\ UNCHANGED <<readers, inbox, config, spent>>
  /\ \A t \in Services : SameBooks(rt[t], rt'[t])

\* Changing the record of one service in other fields only is one.
LEMMA BooksUpdate ==
  ASSUME DataType, NEW s \in Services, NEW q, SameBooks(rt[s], q),
         rt' = [rt EXCEPT ![s] = q]
  PROVE  \A t \in Services : SameBooks(rt[t], rt'[t])
<1> SUFFICES ASSUME NEW t \in Services PROVE SameBooks(rt[t], rt'[t])
  OBVIOUS
<1>1. CASE t = s
  BY <1>1 DEF DataType
<1>2. CASE t # s
  BY <1>2 DEF DataType, SameBooks, SameReaders
<1> QED BY <1>1, <1>2

\* The six kinds of step: of StepKinds, with the reload apart.
LEMMA BookKinds ==
  ASSUME LoopType, DataType, Next
  PROVE  \/ KeepsBooks
         \/ ReloadSucceeds
         \/ \E s \in Services, stable \in BOOLEAN : Receive(s, stable)
         \/ PassStart
         \/ PassStartFails
         \/ \E s \in Services : \E run \in live[s] \cup readers[s] : RunStep(s, run)
<1>p. \A s \in Services : rt[s] \in Runtime
  BY DEF DataType
<1>u. UNCHANGED <<readers, inbox, config, spent, rt>> => KeepsBooks
  BY DEF KeepsBooks, SameBooks, SameReaders
<1>1. ASSUME NEW s \in Services, CommandStep(s)
      PROVE  KeepsBooks
  <2>1. CASE DisableService(s)
    <3>1. SameBooks(rt[s], Disable(rt[s]))
      BY <1>p, DisableBooks
    <3> QED BY <2>1, <3>1, BooksUpdate DEF DisableService, runVars, KeepsBooks
  <2>2. CASE Restart(s) \/ RestartRefused(s) \/ Enable(s)
    BY <2>2, <1>u DEF Restart, RestartRefused, Enable, AwaitReload, runVars
  <2> QED BY <1>1, <2>1, <2>2 DEF CommandStep
<1>2. ASSUME NEW s \in Services, EventStep(s)
      PROVE  \E stable \in BOOLEAN : Receive(s, stable)
  BY <1>2 DEF EventStep, HandleEvent, HandleEventInReload, HandleEventInDrain
<1>3. ASSUME NEW s \in Services, BackoffElapses(s)
      PROVE  KeepsBooks
  <2>1. SameBooks(rt[s], [rt[s] EXCEPT !.timer = "due"])
    BY <1>p DEF SameBooks, SameReaders, Runtime
  <2> QED BY <1>3, <2>1, BooksUpdate DEF BackoffElapses, runVars, KeepsBooks
<1>4. CASE ReloadFails \/ ReloadInterrupted
  BY <1>4, <1>u DEF ReloadFails, ReloadInterrupted, runVars
<1>5. CASE PassSkip
  <2>1. Current \in Services
    BY <1>5, CurrentType DEF PassSkip
  <2>2. SameBooks(rt[Current], [rt[Current] EXCEPT !.blockedOn = {}])
    BY <1>p, <2>1 DEF SameBooks, SameReaders, Runtime
  <2> QED BY <1>5, <2>1, <2>2, BooksUpdate DEF PassSkip, runVars, KeepsBooks
<1>6. CASE PassEnd
  <2>1. ASSUME NEW s \in Services
        PROVE  SameBooks(rt[s], rt'[s])
    <3>1. rt'[s] \in {rt[s], [rt[s] EXCEPT !.blockedOn = Blockers(s)]}
      BY <1>6 DEF PassEnd
    <3> QED BY <3>1, <1>p DEF SameBooks, SameReaders, Runtime
  <2> QED BY <1>6, <2>1 DEF PassEnd, KeepsBooks, runVars
<1>7. CASE PassBlocked \/ PassRepeat
  BY <1>7, <1>u DEF PassBlocked, PassRepeat, runVars
<1>8. CASE RestartAll \/ QuietWake \/ BackoffTimer
  BY <1>8, <1>u DEF RestartAll, AwaitReload, QuietWake, BackoffTimer, runVars
<1>9. CASE ShutdownStep \/ DrainTimesOut \/ CommandChannelCloses \/ RequestShutdown
  BY <1>9, <1>u
     DEF ShutdownStep, ObserveShutdown, CancelAllRunning, DrainComplete, DrainTimesOut,
         CommandChannelCloses, RequestShutdown, runVars
<1>10. ASSUME NEW s \in Services, NEW run, DrainTimer(s, run)
       PROVE  KeepsBooks
  BY <1>10, <1>u DEF DrainTimer, runVars
<1> QED BY <1>1, <1>2, <1>3, <1>4, <1>5, <1>6, <1>7, <1>8, <1>9, <1>10
        DEF Next, PassStep, ReloadStep

-----------------------------------------------------------------------------
(***************************************************************************)
(* The log readers.  A handle is kept for exactly the threads whose end    *)
(* has not been received: that is inductive once no end is queued twice or *)
(* for a thread that still runs, and no handle is of a run to come.        *)
(***************************************************************************)

\* The end of a reader is queued at most once.
ReaderOnce(q) ==
  \A i, j \in DOMAIN q :
    (q[i].kind = "reader_finished" /\ q[j].kind = "reader_finished" /\ q[i].run = q[j].run)
      => i = j

\* The part of the invariant about one service.
ReaderAgrees(r, threads, q) ==
  /\ HeldReaders(r) = threads \cup RunsOf(q, "reader_finished")
  /\ threads \cap RunsOf(q, "reader_finished") = {}
  /\ ReaderOnce(q)
  /\ \A run \in HeldReaders(r) : run <= r.nextRun
  /\ r.readerHeld => r.running # NoRun

ReadersAgree == \A s \in Services : ReaderAgrees(rt[s], readers[s], inbox[s])

\* An event that is sent is not the second end of a reader if its run has none
\* in the queue.
LEMMA OnceAppend ==
  ASSUME NEW q \in Seq(Events), NEW e \in Events, ReaderOnce(q),
         e.kind = "reader_finished" => e.run \notin RunsOf(q, "reader_finished")
  PROVE  ReaderOnce(Append(q, e))
<1> DEFINE a == Append(q, e)
<1>1. /\ Len(q) \in Nat /\ DOMAIN q = 1 .. Len(q) /\ DOMAIN a = 1 .. Len(q) + 1
      /\ \A i \in 1 .. Len(q) : a[i] = q[i]
      /\ a[Len(q) + 1] = e
  BY AppendProperties, LenProperties
<1> HIDE DEF a
<1>2. \A i \in DOMAIN q : q[i].kind = "reader_finished" => q[i].run \in RunsOf(q, "reader_finished")
  BY DEF RunsOf
<1> SUFFICES ASSUME NEW i \in DOMAIN a, NEW j \in DOMAIN a,
                    a[i].kind = "reader_finished", a[j].kind = "reader_finished",
                    a[i].run = a[j].run
             PROVE  i = j
  BY DEF ReaderOnce, a
<1>3. CASE i \in DOMAIN q /\ j \in DOMAIN q
  BY <1>1, <1>3 DEF ReaderOnce
<1>4. CASE i \notin DOMAIN q \/ j \notin DOMAIN q
  <2>1. \A k \in DOMAIN a : k \notin DOMAIN q => k = Len(q) + 1
    BY <1>1
  <2> QED BY <1>1, <1>2, <1>4, <2>1
<1> QED BY <1>3, <1>4

\* Receiving the head leaves no second end of a reader.
LEMMA OnceTail ==
  ASSUME NEW q \in Seq(Events), q # <<>>, ReaderOnce(q)
  PROVE  /\ ReaderOnce(Tail(q))
         /\ Head(q).kind = "reader_finished" => Head(q).run \notin RunsOf(Tail(q), "reader_finished")
<1> DEFINE t == Tail(q)
<1>1. /\ Len(q) \in Nat \ {0} /\ DOMAIN q = 1 .. Len(q) /\ DOMAIN t = 1 .. Len(q) - 1
      /\ \A i \in 1 .. Len(q) - 1 : t[i] = q[i + 1]
      /\ Head(q) = q[1]
  BY HeadTailProperties, LenProperties, EmptySeq
<1> HIDE DEF t
<1>2. \A i \in DOMAIN t : i + 1 \in DOMAIN q /\ t[i] = q[i + 1] /\ i \in Nat /\ i + 1 # 1
  BY <1>1
<1>3. ReaderOnce(t)
  <2> SUFFICES ASSUME NEW i \in DOMAIN t, NEW j \in DOMAIN t,
                      t[i].kind = "reader_finished", t[j].kind = "reader_finished",
                      t[i].run = t[j].run
               PROVE  i = j
    BY DEF ReaderOnce
  <2>1. i + 1 = j + 1
    BY <1>2 DEF ReaderOnce
  <2> QED BY <1>2, <2>1
<1>4. ASSUME Head(q).kind = "reader_finished", Head(q).run \in RunsOf(t, "reader_finished")
      PROVE  FALSE
  <2>1. PICK i \in DOMAIN t : t[i].kind = "reader_finished" /\ t[i].run = Head(q).run
    BY <1>4 DEF RunsOf
  <2>2. 1 \in DOMAIN q /\ i + 1 \in DOMAIN q /\ i + 1 # 1
    BY <1>1, <1>2
  <2>3. i + 1 = 1
    BY <1>1, <1>2, <1>4, <2>1, <2>2 DEF ReaderOnce
  <2> QED BY <2>2, <2>3
<1> QED BY <1>3, <1>4 DEF t

\* An event is the end of a reader, whose handle is dropped, or it keeps the
\* handles, parking that of a run that exits.
LEMMA AfterEventReaders ==
  ASSUME NEW r \in Runtime, NEW p \in Policies, NEW e \in Events, NEW stable \in BOOLEAN,
         r.readerHeld => r.running # NoRun,
         e.kind = "reader_finished" => e.run \in HeldReaders(r)
  PROVE  LET q == AfterEvent(r, p, e, stable)
         IN  /\ HeldReaders(q) =
                  HeldReaders(r) \ (IF e.kind = "reader_finished" THEN {e.run} ELSE {})
             /\ q.nextRun = r.nextRun
             /\ q.readerHeld => q.running # NoRun
<1>1. CASE ~Relevant(r, e)
  <2>1. AfterEvent(r, p, e, stable) = r /\ e.kind # "reader_finished"
    BY <1>1 DEF AfterEvent, Relevant, HeldReaders
  <2> QED BY <2>1
<1>2. CASE Relevant(r, e) /\ e.kind = "exited"
  <2> DEFINE parked == IF r.readerHeld THEN r.draining \cup {r.running} ELSE r.draining
             freed == [r EXCEPT !.running = NoRun, !.readerHeld = FALSE, !.draining = parked]
             q == FinishRunState(freed, p, e.outcome, r.running, stable)
  <2>1. AfterEvent(r, p, e, stable) = q
    BY <1>2 DEF AfterEvent, FinishCurrentRun
  <2>2. parked = HeldReaders(r) /\ parked \in SUBSET Runs
    BY DEF HeldReaders, Runtime, Runs, RunOrNone, NoRun
  <2>3. /\ freed \in Runtime /\ freed.readerHeld = FALSE /\ freed.draining = parked
        /\ freed.nextRun = r.nextRun
    <3> HIDE DEF parked
    <3> QED BY <2>2 DEF Runtime, NoRun, RunOrNone
  <2>4. SameReaders(freed, q)
    <3> HIDE DEF freed
    <3> QED BY <2>3, FinishRunStateBooks
  <2> HIDE DEF parked, freed, q
  <2> QED BY <1>2, <2>1, <2>2, <2>3, <2>4 DEF SameReaders, HeldReaders
<1>3. CASE Relevant(r, e) /\ e.kind \in {"healthy", "unhealthy"}
  <2>1. AfterEvent(r, p, e, stable) = MarkHealth(r, e.kind)
    BY <1>3 DEF AfterEvent
  <2>2. SameReaders(r, MarkHealth(r, e.kind))
    BY DEF MarkHealth, SameReaders, Runtime
  <2> QED BY <1>3, <2>1, <2>2 DEF SameReaders, HeldReaders
<1>4. CASE Relevant(r, e) /\ e.kind = "killed"
  <2>1. AfterEvent(r, p, e, stable) = MarkKilled(r)
    BY <1>4 DEF AfterEvent
  <2>2. SameReaders(r, MarkKilled(r))
    BY DEF MarkKilled, SameReaders, Runtime
  <2> QED BY <1>4, <2>1, <2>2 DEF SameReaders, HeldReaders
<1>5. CASE Relevant(r, e) /\ e.kind = "reader_finished"
  <2>1. AfterEvent(r, p, e, stable) = FinishLogReader(r, e.run)
    BY <1>5 DEF AfterEvent
  <2> DEFINE q == FinishLogReader(r, e.run)
  <2>2. /\ q.running = r.running /\ q.nextRun = r.nextRun
        /\ q.readerHeld = (r.readerHeld /\ r.running # e.run)
        /\ q.draining = r.draining \ {e.run}
    BY DEF FinishLogReader, Runtime
  <2> HIDE DEF q
  <2> QED BY <1>5, <2>1, <2>2 DEF HeldReaders, q
<1> QED BY <1>1, <1>2, <1>3, <1>4, <1>5 DEF Events
\* A service whose handles, threads and queue a step leaves alone.
LEMMA ReadersSame ==
  ASSUME ReadersAgree, NEW t \in Services, SameReaders(rt[t], rt'[t]),
         UNCHANGED <<readers[t], inbox[t]>>
  PROVE  ReaderAgrees(rt'[t], readers'[t], inbox'[t])
BY DEF ReadersAgree, ReaderAgrees, SameReaders, HeldReaders

\* Handles are of runs.
LEMMA HeldType ==
  ASSUME NEW r \in Runtime
  PROVE  HeldReaders(r) \subseteq Nat
BY DEF HeldReaders, Runtime, Runs, RunOrNone

\* Receiving an event.
LEMMA ReadersReceive ==
  ASSUME DataType, ReadersAgree, NEW s \in Services, NEW stable \in BOOLEAN,
         Receive(s, stable), NEW t \in Services
  PROVE  ReaderAgrees(rt'[t], readers'[t], inbox'[t])
<1> DEFINE e == Head(inbox[s])
           q == AfterEvent(rt[s], Policy(s), e, stable)
<1>1. inbox[s] \in Seq(Events) /\ inbox[s] # <<>>
  BY DEF DataType, Receive
<1>2. e \in Events /\ Policy(s) \in Policies /\ rt[s] \in Runtime
  BY <1>1, HeadTailProperties, ConfigType DEF Policy, DataType
<1>3. /\ rt' = [rt EXCEPT ![s] = q]
      /\ inbox' = [inbox EXCEPT ![s] = Tail(inbox[s])]
      /\ readers' = readers
  BY DEF Receive, runVars
<1>4. CASE t # s
  <2>1. SameReaders(rt[t], rt'[t]) /\ UNCHANGED <<readers[t], inbox[t]>>
    BY <1>3, <1>4 DEF DataType, SameReaders
  <2> QED BY <2>1, ReadersSame
<1>5. CASE t = s
  <2>1. rt'[s] = q /\ inbox'[s] = Tail(inbox[s]) /\ readers'[s] = readers[s]
    BY <1>3 DEF DataType
  <2>2. ReaderAgrees(rt[s], readers[s], inbox[s])
    BY DEF ReadersAgree
  <2>3. RunsOf(inbox[s], "reader_finished") =
          RunsOf(Tail(inbox[s]), "reader_finished")
            \cup (IF e.kind = "reader_finished" THEN {e.run} ELSE {})
    BY <1>1, RunsOfTail
  <2>4. /\ ReaderOnce(Tail(inbox[s]))
        /\ e.kind = "reader_finished" => e.run \notin RunsOf(Tail(inbox[s]), "reader_finished")
    BY <1>1, <2>2, OnceTail DEF ReaderAgrees
  <2> HIDE DEF q, e
  <2>5. /\ HeldReaders(q) =
             HeldReaders(rt[s]) \ (IF e.kind = "reader_finished" THEN {e.run} ELSE {})
        /\ q.nextRun = rt[s].nextRun
        /\ q.readerHeld => q.running # NoRun
    <3>1. e.kind = "reader_finished" => e.run \in HeldReaders(rt[s])
      BY <2>2, <2>3 DEF ReaderAgrees
    <3>2. rt[s].readerHeld => rt[s].running # NoRun
      BY <2>2 DEF ReaderAgrees
    <3> QED BY <1>2, <3>1, <3>2, AfterEventReaders DEF q
  <2>6. HeldReaders(q) = readers[s] \cup RunsOf(Tail(inbox[s]), "reader_finished")
    BY <2>2, <2>3, <2>4, <2>5 DEF ReaderAgrees
  <2>7. readers[s] \cap RunsOf(Tail(inbox[s]), "reader_finished") = {}
    BY <2>2, <2>3 DEF ReaderAgrees
  <2>8. \A run \in HeldReaders(q) : run <= q.nextRun
    BY <2>2, <2>5 DEF ReaderAgrees
  <2> QED BY <1>5, <2>1, <2>4, <2>5, <2>6, <2>7, <2>8 DEF ReaderAgrees
<1> QED BY <1>4, <1>5

\* A start begins a reader of its own, whose run no handle and no queued end
\* can have; an attempt that fails begins none.
LEMMA ReadersStart ==
  ASSUME LoopType, DataType, ReadersAgree, PassStart \/ PassStartFails, NEW t \in Services
  PROVE  ReaderAgrees(rt'[t], readers'[t], inbox'[t])
<1> DEFINE s == Current
           r == rt[s]
           run == r.nextRun + 1
<1>1. s \in Services
  BY CurrentType DEF PassStart, PassStartFails
<1>2. r \in Runtime /\ Policy(s) \in Policies /\ ReaderAgrees(r, readers[s], inbox[s])
  BY <1>1, ConfigType DEF Policy, DataType, ReadersAgree
<1>3. ShouldConsiderStart(r, Policy(s)) /\ inbox' = inbox
  BY DEF PassStart, PassStartFails, MayStart, Considered, PrepareStart
<1>4. r.running = NoRun /\ r.readerHeld = FALSE /\ r.nextRun \in Nat
  BY <1>2, <1>3 DEF ShouldConsiderStart, ReaderAgrees, Runtime, RunOrNone
<1>5. HeldReaders(r) = r.draining /\ HeldReaders(r) \subseteq Nat
  BY <1>2, <1>4, HeldType DEF HeldReaders
<1>6. run \notin HeldReaders(r) /\ \A x \in HeldReaders(r) : x <= run
  BY <1>2, <1>4, <1>5 DEF ReaderAgrees
<1> DEFINE b == BeginStart(r, Policy(s))
<1>7. /\ b \in Runtime /\ b.running = NoRun /\ b.nextRun = run
      /\ b.readerHeld = FALSE /\ b.draining = r.draining
  BY <1>2, <1>4, BeginStartBooks, BeginStartType
<1>8. CASE PassStart
  <2>1. rt' = [rt EXCEPT ![s] = StartedRun(r, Policy(s))]
        /\ readers' = [readers EXCEPT ![s] = readers[s] \cup {run}]
    BY <1>8 DEF PassStart
  <2>2. CASE t # s
    <3>1. SameReaders(rt[t], rt'[t]) /\ UNCHANGED <<readers[t], inbox[t]>>
      BY <1>3, <2>1, <2>2 DEF DataType, SameReaders
    <3> QED BY <3>1, ReadersSame
  <2>3. CASE t = s
    <3> DEFINE q == StartedRun(r, Policy(s))
    <3>1. rt'[s] = q /\ readers'[s] = readers[s] \cup {run} /\ inbox'[s] = inbox[s]
      BY <1>1, <1>3, <2>1 DEF DataType
    <3>2. q.running = run /\ q.nextRun = run /\ q.readerHeld = TRUE /\ q.draining = r.draining
      <4> HIDE DEF b
      <4>1. q = [b EXCEPT !.running = b.nextRun, !.readerHeld = TRUE, !.state = "running"]
        BY DEF StartedRun, b
      <4> QED BY <1>7, <4>1 DEF Runtime
    <3> HIDE DEF q
    <3>3. HeldReaders(q) = HeldReaders(r) \cup {run} /\ run # NoRun
      BY <1>4, <1>5, <3>2 DEF HeldReaders, NoRun
    <3>4. ReaderAgrees(q, readers[s] \cup {run}, inbox[s])
      BY <1>2, <1>4, <1>6, <3>2, <3>3 DEF ReaderAgrees
    <3> QED BY <2>3, <3>1, <3>4
  <2> QED BY <2>2, <2>3
<1>9. CASE PassStartFails
  <2>1. rt' = [rt EXCEPT ![s] = FailedStart(r, Policy(s))] /\ readers' = readers
    BY <1>9 DEF PassStartFails
  <2>2. CASE t # s
    <3>1. SameReaders(rt[t], rt'[t]) /\ UNCHANGED <<readers[t], inbox[t]>>
      BY <1>3, <2>1, <2>2 DEF DataType, SameReaders
    <3> QED BY <3>1, ReadersSame
  <2>3. CASE t = s
    <3> DEFINE q == FailedStart(r, Policy(s))
    <3>1. rt'[s] = q /\ readers'[s] = readers[s] /\ inbox'[s] = inbox[s]
      BY <1>1, <1>3, <2>1 DEF DataType
    <3>2. SameReaders(b, q)
      BY <1>2, FailedStartBooks DEF SameBooks
    <3> HIDE DEF q, b
    <3>3. HeldReaders(q) = HeldReaders(r) /\ q.nextRun = run /\ q.readerHeld = FALSE
      BY <1>5, <1>7, <3>2 DEF HeldReaders, SameReaders
    <3>4. ReaderAgrees(q, readers[s], inbox[s])
      BY <1>2, <1>6, <3>3 DEF ReaderAgrees
    <3> QED BY <2>3, <3>1, <3>4
  <2> QED BY <2>2, <2>3
<1> QED BY <1>8, <1>9

\* A step of a run's own tasks: a thread that ends queues its end.
LEMMA ReadersRunStep ==
  ASSUME DataType, ReadersAgree, NEW s \in Services, NEW run \in live[s] \cup readers[s],
         RunStep(s, run), NEW t \in Services
  PROVE  ReaderAgrees(rt'[t], readers'[t], inbox'[t])
<1>1. rt' = rt
  BY DEF RunStep, SignalProcess, ProcessExits, ProbeReports, ReaderEnds
<1>2. run \in Runs /\ inbox[s] \in Seq(Events) /\ ReaderAgrees(rt[s], readers[s], inbox[s])
  BY DEF DataType, ReadersAgree
<1>3. ASSUME t # s
      PROVE  ReaderAgrees(rt'[t], readers'[t], inbox'[t])
  <2>1. SameReaders(rt[t], rt'[t]) /\ UNCHANGED <<readers[t], inbox[t]>>
    BY <1>1, <1>3 DEF RunStep, SignalProcess, ProcessExits, ProbeReports, ReaderEnds, Send,
         DataType, runVars, SameReaders
  <2> QED BY <2>1, ReadersSame
<1>4. CASE ReaderEnds(s, run)
  <2> DEFINE e == Event("reader_finished", run)
  <2>1. /\ run \in readers[s] /\ readers'[s] = readers[s] \ {run}
        /\ inbox'[s] = Append(inbox[s], e)
    BY <1>4 DEF ReaderEnds, Send, DataType
  <2>2. e \in Events /\ e.kind = "reader_finished" /\ e.run = run
    BY <1>2, EventType DEF Event
  <2> HIDE DEF e
  <2>3. RunsOf(inbox'[s], "reader_finished") = RunsOf(inbox[s], "reader_finished") \cup {run}
    BY <1>2, <2>1, <2>2, RunsOfAppend
  <2>4. run \notin RunsOf(inbox[s], "reader_finished")
    BY <1>2, <2>1 DEF ReaderAgrees
  <2>5. ReaderOnce(inbox'[s])
    BY <1>2, <2>1, <2>2, <2>4, OnceAppend DEF ReaderAgrees
  <2>6. ReaderAgrees(rt[s], readers'[s], inbox'[s])
    BY <1>2, <2>1, <2>3, <2>4, <2>5 DEF ReaderAgrees
  <2> QED BY <1>1, <1>3, <2>6
<1>5. ASSUME NEW e \in Events, Send(s, e), e.kind # "reader_finished", readers' = readers
      PROVE  ReaderAgrees(rt'[s], readers'[s], inbox'[s])
  <2>1. inbox'[s] = Append(inbox[s], e)
    BY <1>5 DEF Send, DataType
  <2>2. RunsOf(inbox'[s], "reader_finished") = RunsOf(inbox[s], "reader_finished")
    <3>1. RunsOf(inbox'[s], "reader_finished") =
            RunsOf(inbox[s], "reader_finished") \cup (IF e.kind = "reader_finished" THEN {e.run} ELSE {})
      BY <1>2, <2>1, RunsOfAppend
    <3> QED BY <1>5, <3>1
  <2>3. ReaderOnce(inbox'[s])
    BY <1>2, <1>5, <2>1, OnceAppend DEF ReaderAgrees
  <2> QED BY <1>1, <1>2, <1>5, <2>2, <2>3 DEF ReaderAgrees
<1>6. CASE \/ SignalProcess(s, run)
           \/ \E outcome \in Outcomes : ProcessExits(s, run, outcome)
           \/ \E verdict \in {"healthy", "unhealthy"} : ProbeReports(s, run, verdict)
  <2>1. PICK e \in Events : Send(s, e) /\ e.kind # "reader_finished"
    BY <1>2, <1>6, EventType DEF SignalProcess, ProcessExits, ProbeReports, Event, ExitEvent
  <2>2. readers' = readers
    BY <1>6 DEF SignalProcess, ProcessExits, ProbeReports, runVars
  <2> QED BY <1>3, <1>5, <2>1, <2>2
<1> QED BY <1>4, <1>6 DEF RunStep

\* All steps together.
LEMMA ReadersStep ==
  ASSUME LoopType, DataType, ReadersAgree, [Next]_vars
  PROVE  ReadersAgree'
<1> SUFFICES ASSUME NEW t \in Services
             PROVE  ReaderAgrees(rt'[t], readers'[t], inbox'[t])
  BY DEF ReadersAgree
<1>1. CASE UNCHANGED vars
  BY <1>1, ReadersSame DEF vars, runVars, SameReaders
<1>2. CASE KeepsBooks
  BY <1>2, ReadersSame DEF KeepsBooks, SameBooks
<1>3. CASE ReloadSucceeds
  <2>1. PICK new \in Configs :
          rt' = [s \in Services |->
                   Apply(s, Reconfigure(rt[s], Policy(s), new.restart[s]), new.restart[s])]
    BY <1>3 DEF ReloadSucceeds
  <2>2. rt[t] \in Runtime /\ Policy(t) \in Policies /\ new.restart[t] \in Policies
    BY ConfigType DEF DataType, Policy
  <2>3. SameReaders(rt[t], rt'[t])
    BY <2>1, <2>2, ReloadBooks
  <2> QED BY <1>3, <2>3, ReadersSame DEF ReloadSucceeds, runVars
<1>4. CASE \E s \in Services, stable \in BOOLEAN : Receive(s, stable)
  BY <1>4, ReadersReceive
<1>5. CASE PassStart \/ PassStartFails
  BY <1>5, ReadersStart
<1>6. CASE \E s \in Services : \E run \in live[s] \cup readers[s] : RunStep(s, run)
  BY <1>6, ReadersRunStep
<1> QED BY <1>1, <1>2, <1>3, <1>4, <1>5, <1>6, BookKinds
-----------------------------------------------------------------------------
(***************************************************************************)
(* The restart budget.  What has been spent and what remains never exceed  *)
(* the configured budget together.                                         *)
(***************************************************************************)

\* The part of the invariant about one service with policy p and n automatic
\* restarts.
BudgetAgrees(r, p, n) ==
  OnFailureMax(p) # NoLimit => r.remaining \in Nat /\ n + r.remaining <= OnFailureMax(p)

BudgetsAgree == \A s \in Services : BudgetAgrees(rt[s], Policy(s), spent[s])

\* A budget is a number.
LEMMA BudgetNumber ==
  ASSUME NEW p \in Policies, OnFailureMax(p) # NoLimit
  PROVE  OnFailureMax(p) \in Nat /\ p.kind = "on-failure" /\ p.max = OnFailureMax(p)
BY DEF OnFailureMax, Policies, Limits

\* An event keeps what remains, unless it ends a stable run.
LEMMA AfterEventBudget ==
  ASSUME NEW r \in Runtime, NEW p \in Policies, NEW e \in Events, NEW stable \in BOOLEAN
  PROVE  LET q == AfterEvent(r, p, e, stable)
         IN  q.remaining = r.remaining \/ (stable /\ q.remaining = OnFailureMax(p))
<1>1. CASE ~Relevant(r, e)
  BY <1>1 DEF AfterEvent
<1>2. CASE Relevant(r, e) /\ e.kind = "exited"
  <2> DEFINE parked == IF r.readerHeld THEN r.draining \cup {r.running} ELSE r.draining
             freed == [r EXCEPT !.running = NoRun, !.readerHeld = FALSE, !.draining = parked]
             q == FinishRunState(freed, p, e.outcome, r.running, stable)
  <2>1. AfterEvent(r, p, e, stable) = q
    BY <1>2 DEF AfterEvent, FinishCurrentRun
  <2>2. r.running # NoRun
    BY <1>2 DEF Relevant, Events, Runs, NoRun
  <2>3. parked \in SUBSET Runs
    BY <2>2 DEF Runtime, Runs, RunOrNone, NoRun
  <2>4. freed \in Runtime /\ freed.remaining = r.remaining
    <3> HIDE DEF parked
    <3> QED BY <2>3 DEF Runtime, NoRun, RunOrNone
  <2>5. q.remaining = freed.remaining \/ (stable /\ q.remaining = OnFailureMax(p))
    <3> HIDE DEF freed
    <3> QED BY <2>4, FinishRunStateBooks
  <2> QED BY <2>1, <2>4, <2>5
<1>3. CASE Relevant(r, e) /\ e.kind # "exited"
  <2>1. AfterEvent(r, p, e, stable) \in {MarkHealth(r, e.kind), MarkKilled(r), FinishLogReader(r, e.run)}
    BY <1>3 DEF AfterEvent
  <2>2. /\ MarkHealth(r, e.kind).remaining = r.remaining
        /\ MarkKilled(r).remaining = r.remaining
        /\ FinishLogReader(r, e.run).remaining = r.remaining
    BY DEF MarkHealth, MarkKilled, FinishLogReader, Runtime
  <2> QED BY <2>1, <2>2
<1> QED BY <1>1, <1>2, <1>3

\* An attempt to start pays for an automatic restart.
LEMMA BeginStartBudget ==
  ASSUME NEW r \in Runtime, NEW p \in Policies, NEW n \in Nat,
         ShouldConsiderStart(r, p), BudgetAgrees(r, p, n)
  PROVE  BudgetAgrees(BeginStart(r, p), p,
                      IF ~r.startRequested /\ r.state = "exited" THEN n + 1 ELSE n)
<1> SUFFICES ASSUME OnFailureMax(p) # NoLimit
             PROVE  LET m == IF ~r.startRequested /\ r.state = "exited" THEN n + 1 ELSE n
                        d == DecrementFailureBudget(r, p)
                    IN  d.remaining \in Nat /\ m + d.remaining <= OnFailureMax(p)
  BY BeginStartBooks DEF BudgetAgrees
<1>1. r.remaining \in Nat /\ n + r.remaining <= OnFailureMax(p) /\ OnFailureMax(p) \in Nat
  BY BudgetNumber DEF BudgetAgrees
<1>2. CASE ~r.startRequested /\ r.state = "exited"
  <2>1. p.kind = "on-failure" /\ p.max # NoLimit
    BY BudgetNumber
  <2>2. r.lastExit = "failure" /\ r.remaining \in Nat \ {0}
    BY <1>2, <2>1 DEF ShouldConsiderStart, WillAutoRestart, HasBudget
  <2>3. DecrementFailureBudget(r, p).remaining = r.remaining - 1
    BY <1>2, <2>2 DEF DecrementFailureBudget, Runtime
  <2> QED BY <1>1, <1>2, <2>2, <2>3
<1>3. CASE ~(~r.startRequested /\ r.state = "exited")
  <2>1. DecrementFailureBudget(r, p).remaining = r.remaining
    BY <1>3 DEF DecrementFailureBudget
  <2> QED BY <1>1, <1>3, <2>1
<1> QED BY <1>2, <1>3

\* A start keeps the budget of every service.
LEMMA BudgetsStart ==
  ASSUME LoopType, DataType, BudgetsAgree, PassStart \/ PassStartFails
  PROVE  BudgetsAgree'
<1> DEFINE s == Current
           b == BeginStart(rt[s], Policy(s))
           n == IF ~rt[s].startRequested /\ rt[s].state = "exited"
                THEN spent[s] + 1 ELSE spent[s]
<1>1. s \in Services
  BY CurrentType DEF PassStart, PassStartFails
<1>2. rt[s] \in Runtime /\ Policy(s) \in Policies /\ BudgetAgrees(rt[s], Policy(s), spent[s])
  BY <1>1, ConfigType DEF Policy, DataType, BudgetsAgree
<1>3. ShouldConsiderStart(rt[s], Policy(s)) /\ config' = config
  BY DEF PassStart, PassStartFails, MayStart, Considered, PrepareStart
<1>4. spent' = [spent EXCEPT ![s] = n]
  BY DEF PassStart, PassStartFails, PrepareStart, AutomaticRestart
<1>5. b \in Runtime /\ BudgetAgrees(b, Policy(s), n)
  BY <1>1, <1>2, <1>3, BeginStartBudget, BeginStartType DEF DataType
<1>6. PICK q : q.remaining = b.remaining /\ rt' = [rt EXCEPT ![s] = q]
  <2> HIDE DEF b
  <2>1. StartedRun(rt[s], Policy(s)).remaining = b.remaining
    <3>1. StartedRun(rt[s], Policy(s)) =
            [b EXCEPT !.running = b.nextRun, !.readerHeld = TRUE, !.state = "running"]
      BY DEF StartedRun, b
    <3> QED BY <1>5, <3>1 DEF Runtime
  <2>2. FailedStart(rt[s], Policy(s)).remaining = b.remaining
    BY <1>2, FailedStartBooks DEF SameBooks, b
  <2> QED BY <2>1, <2>2 DEF PassStart, PassStartFails
<1> HIDE DEF b, n
<1>7. ASSUME NEW t \in Services
      PROVE  BudgetAgrees(rt'[t], Policy(t)', spent'[t])
  <2>1. Policy(t)' = Policy(t)
    BY <1>3 DEF Policy
  <2>2. CASE t = s
    <3>1. rt'[t] = q /\ spent'[t] = n
      BY <1>1, <1>4, <1>6, <2>2 DEF DataType
    <3> QED BY <1>5, <1>6, <2>1, <2>2, <3>1 DEF BudgetAgrees
  <2>3. CASE t # s
    <3>1. rt'[t] = rt[t] /\ spent'[t] = spent[t]
      BY <1>4, <1>6, <2>3 DEF DataType
    <3> QED BY <2>1, <3>1 DEF BudgetsAgree
  <2> QED BY <2>2, <2>3
<1> QED BY <1>7 DEF BudgetsAgree

\* So does every step.
LEMMA BudgetsStep ==
  ASSUME LoopType, DataType, BudgetsAgree, [Next]_vars
  PROVE  BudgetsAgree'
<1>p. \A s \in Services :
        rt[s] \in Runtime /\ Policy(s) \in Policies /\ spent[s] \in Nat
        /\ BudgetAgrees(rt[s], Policy(s), spent[s])
  BY ConfigType DEF Policy, DataType, BudgetsAgree
<1>u. ASSUME \A t \in Services : rt'[t].remaining = rt[t].remaining, UNCHANGED <<config, spent>>
      PROVE  BudgetsAgree'
  BY <1>p, <1>u DEF BudgetsAgree, BudgetAgrees, Policy
<1>1. CASE UNCHANGED vars
  BY <1>1, <1>u DEF vars
<1>2. CASE KeepsBooks
  BY <1>2, <1>u DEF KeepsBooks, SameBooks
<1>3. CASE ReloadSucceeds
  <2>1. PICK new \in Configs :
          /\ config' = new
          /\ rt' = [s \in Services |->
                     Apply(s, Reconfigure(rt[s], Policy(s), new.restart[s]), new.restart[s])]
          /\ spent' = ResetSpent(new)
    BY <1>3 DEF ReloadSucceeds
  <2>2. ASSUME NEW t \in Services
        PROVE  BudgetAgrees(rt'[t], Policy(t)', spent'[t])
    <3> DEFINE fresh == t \in Targets \/ OnFailureMax(Policy(t)) # OnFailureMax(new.restart[t])
    <3>1. new.restart[t] \in Policies /\ Policy(t)' = new.restart[t]
      BY <2>1, ConfigType DEF Policy
    <3>2. rt'[t].remaining = IF fresh THEN OnFailureMax(new.restart[t]) ELSE rt[t].remaining
      BY <1>p, <2>1, <3>1, ReloadBooks
    <3>3. spent'[t] = IF fresh THEN 0 ELSE spent[t]
      BY <2>1 DEF ResetSpent
    <3>4. CASE fresh
      BY <3>1, <3>2, <3>3, <3>4, BudgetNumber DEF BudgetAgrees
    <3>5. CASE ~fresh
      BY <1>p, <3>1, <3>2, <3>3, <3>5 DEF BudgetAgrees
    <3> QED BY <3>4, <3>5
  <2> QED BY <2>2 DEF BudgetsAgree
<1>4. ASSUME NEW s \in Services, NEW stable \in BOOLEAN, Receive(s, stable)
      PROVE  BudgetsAgree'
  <2> DEFINE e == Head(inbox[s])
             q == AfterEvent(rt[s], Policy(s), e, stable)
  <2>1. e \in Events
    <3>1. inbox[s] \in Seq(Events) /\ inbox[s] # <<>>
      BY <1>4 DEF DataType, Receive
    <3> QED BY <3>1, HeadTailProperties
  <2>2. /\ rt' = [rt EXCEPT ![s] = q]
        /\ spent' = [spent EXCEPT ![s] = IF stable THEN 0 ELSE spent[s]]
        /\ config' = config
    BY <1>4 DEF Receive
  <2> HIDE DEF e
  <2>3. q.remaining = rt[s].remaining \/ (stable /\ q.remaining = OnFailureMax(Policy(s)))
    BY <1>p, <2>1, AfterEventBudget
  <2> HIDE DEF q
  <2>4. ASSUME NEW t \in Services
        PROVE  BudgetAgrees(rt'[t], Policy(t)', spent'[t])
    <3>1. Policy(t)' = Policy(t)
      BY <2>2 DEF Policy
    <3>2. CASE t # s
      <4>1. rt'[t] = rt[t] /\ spent'[t] = spent[t]
        BY <2>2, <3>2 DEF DataType
      <4> QED BY <1>p, <3>1, <4>1
    <3>3. CASE t = s
      <4>1. rt'[t] = q /\ spent'[t] = IF stable THEN 0 ELSE spent[s]
        BY <2>2, <3>3 DEF DataType
      <4>2. BudgetAgrees(q, Policy(s), IF stable THEN 0 ELSE spent[s])
        BY <1>p, <2>3, BudgetNumber DEF BudgetAgrees
      <4> QED BY <3>1, <3>3, <4>1, <4>2
    <3> QED BY <3>2, <3>3
  <2> QED BY <2>4 DEF BudgetsAgree
<1>5. CASE PassStart \/ PassStartFails
  BY <1>5, BudgetsStart
<1>6. CASE \E s \in Services : \E run \in live[s] \cup readers[s] : RunStep(s, run)
  BY <1>6, <1>u DEF RunStep, SignalProcess, ProcessExits, ProbeReports, ReaderEnds
<1> QED BY <1>1, <1>2, <1>3, <1>4, <1>5, <1>6, BookKinds
-----------------------------------------------------------------------------
(***************************************************************************)
(* The drain.  It ends on its own only when no run is tracked.             *)
(***************************************************************************)

DrainedOut == (pc = "done" /\ ~timedOut) => \A s \in Services : rt[s].running = NoRun

\* Where an iteration of the loop may end.
LEMMA SettlePlaces ==
  ASSUME NEW needs \in BOOLEAN, NEW runtimes, NEW restart, Settle(needs, runtimes, restart)
  PROVE  /\ cursor' = 1
         /\ pc' \in {"cancel", "select", "reload", "pass"}
         /\ pc' = "select" => ~needs /\ ~shutdown
BY DEF Settle, GoTo

\* The scheduler is done when it was, or when the drain ends.
LEMMA DoneStep ==
  ASSUME LoopType, DataType, Next, pc' = "done"
  PROVE  \/ pc = "done" /\ UNCHANGED timedOut /\ \A t \in Services : rt'[t].running = rt[t].running
         \/ DrainComplete
         \/ DrainTimesOut
<1> DEFINE Rest == /\ pc = "done" /\ UNCHANGED timedOut
                   /\ \A t \in Services : rt'[t].running = rt[t].running
<1>1. ASSUME NEW s \in Services, CommandStep(s)
      PROVE  FALSE
  BY <1>1, SettlePlaces
     DEF CommandStep, Restart, RestartRefused, Enable, DisableService, AwaitReload, GoTo
<1>2. ASSUME NEW s \in Services, EventStep(s)
      PROVE  FALSE
  <2>1. NeedsSchedule(s) \in BOOLEAN
    BY DEF NeedsSchedule
  <2> QED BY <1>2, <2>1, SettlePlaces
          DEF EventStep, HandleEvent, HandleEventInReload, HandleEventInDrain, loopVars
<1>3. ASSUME NEW s \in Services, BackoffElapses(s)
      PROVE  Rest
  BY <1>3 DEF BackoffElapses, loopVars, DataType, Runtime
<1>4. CASE ReloadStep
  BY <1>4, SettlePlaces DEF ReloadStep, ReloadSucceeds, ReloadFails, ReloadInterrupted, GoTo
<1>5. CASE PassStep
  BY <1>5 DEF PassStep, PassSkip, PassBlocked, PassStart, PassStartFails, PassRepeat, PassEnd,
              InRound, Advance, GoTo
<1>6. CASE RestartAll \/ QuietWake \/ BackoffTimer
  BY <1>6, SettlePlaces DEF RestartAll, AwaitReload, QuietWake, BackoffTimer, GoTo
<1>7. CASE ObserveShutdown \/ CancelAllRunning \/ CommandChannelCloses
  BY <1>7 DEF ObserveShutdown, CancelAllRunning, CommandChannelCloses, GoTo
<1>8. CASE RequestShutdown
  BY <1>8 DEF RequestShutdown, loopVars
<1>9. ASSUME NEW s \in Services, NEW run, DrainTimer(s, run)
      PROVE  FALSE
  BY <1>9, SettlePlaces DEF DrainTimer
<1>10. ASSUME NEW s \in Services, NEW run, RunStep(s, run)
       PROVE  Rest
  BY <1>10 DEF RunStep, SignalProcess, ProcessExits, ProbeReports, ReaderEnds, loopVars
<1> QED BY <1>1, <1>2, <1>3, <1>4, <1>5, <1>6, <1>7, <1>8, <1>9, <1>10 DEF Next, ShutdownStep

\* Every step keeps that.
LEMMA DrainedStep ==
  ASSUME LoopType, DataType, DrainedOut, [Next]_vars
  PROVE  DrainedOut'
<1>1. CASE UNCHANGED vars
  BY <1>1 DEF vars, loopVars, DrainedOut
<1>2. CASE Next /\ pc' = "done"
  <2>1. CASE pc = "done" /\ UNCHANGED timedOut /\ \A t \in Services : rt'[t].running = rt[t].running
    BY <2>1 DEF DrainedOut
  <2>2. CASE DrainComplete
    BY <2>2 DEF DrainComplete, DrainedOut
  <2>3. CASE DrainTimesOut
    BY <2>3 DEF DrainTimesOut, DrainedOut
  <2> QED BY <1>2, <2>1, <2>2, <2>3, DoneStep
<1>3. CASE pc' # "done"
  BY <1>3 DEF DrainedOut
<1> QED BY <1>1, <1>2, <1>3
-----------------------------------------------------------------------------
(***************************************************************************)
(* The schedule pass.  The services that a round without a start has been  *)
(* at are settled: nothing but a backoff that ends since can make one of   *)
(* them a candidate that nothing blocks, because a round only takes        *)
(* services down.                                                          *)
(***************************************************************************)

\* What a pass leaves behind when it has been at s without starting it.
PassedOver(s) ==
  \/ OutOfRuns(s)
  \/ Considered(s) /\ Blockers(s) # {}
  \/ rt[s].blockedOn = {} /\ (Considered(s) => rt[s].timer = "due")

\* The services that the round has been at.
Visited == {config.order[i] : i \in {j \in 1 .. Len(config.order) : j < cursor}}

RoundSoFar == (pc = "pass" /\ ~progress) => \A s \in Visited : PassedOver(s)

PassesAgree == RoundSoFar /\ NoMissedStart /\ BlockedAccurate

\* The fields that a pass reads, beside the backoff, agree in two records.
SameCandidate(r, q) ==
  /\ q.desired = r.desired /\ q.startRequested = r.startRequested
  /\ q.running = r.running /\ q.state = r.state /\ q.lastExit = r.lastExit
  /\ q.remaining = r.remaining /\ q.nextRun = r.nextRun

\* The end of a reader is nothing to a pass.
LEMMA ReaderOfCandidate ==
  ASSUME NEW r \in Runtime, NEW run
  PROVE  LET q == FinishLogReader(r, run)
         IN  SameCandidate(r, q) /\ q.timer = r.timer /\ q.blockedOn = r.blockedOn
BY DEF FinishLogReader, SameCandidate, Runtime

\* A step that no pass would notice.
Unnoticed ==
  /\ UNCHANGED config
  /\ \A t \in Services :
       /\ SameCandidate(rt[t], rt'[t])
       /\ rt'[t].timer = rt[t].timer /\ rt'[t].blockedOn = rt[t].blockedOn

\* What blocks a service, and whether the model's bound holds it back, is read
\* off those fields.
LEMMA BlockersSame ==
  ASSUME config \in Configs, UNCHANGED config, \A t \in Services : SameCandidate(rt[t], rt'[t]),
         NEW s \in Services
  PROVE  Blockers(s)' = Blockers(s) /\ OutOfRuns(s)' = OutOfRuns(s)
<1>1. config.deps[s] \in SUBSET Dependencies
  <2>1. config \in Config
    BY SchedulerAssumption
  <2> QED BY <2>1 DEF Config
<1>2. \A d \in config.deps[s] :
        DependencyReady(d, rt'[d.service]) = DependencyReady(d, rt[d.service])
  BY <1>1 DEF Dependencies, DependencyReady, SameCandidate
<1>3. Blockers(s)' = Blockers(s)
  BY <1>2 DEF Blockers, BlockingDependencies
<1>4. OutOfRuns(s)' = OutOfRuns(s)
  BY DEF OutOfRuns, SameCandidate
<1> QED BY <1>3, <1>4

\* Whether it is a candidate needs the backoff as well.
LEMMA ConsideredSame ==
  ASSUME UNCHANGED config, NEW s \in Services, SameCandidate(rt[s], rt'[s])
  PROVE  /\ rt'[s].timer = rt[s].timer => Considered(s)' = Considered(s)
         /\ rt'[s].timer = "due" /\ Considered(s) => Considered(s)'
BY DEF Considered, ShouldConsiderStart, WillAutoRestart, HasBudget, Policy, SameCandidate

\* An attempt that fails leaves a service that is no candidate and that makes
\* no other service ready.
LEMMA FailedStartRests ==
  ASSUME NEW r \in Runtime, NEW p \in Policies, ShouldConsiderStart(r, p)
  PROVE  LET q == FailedStart(r, p)
         IN  /\ ~ShouldConsiderStart(q, p)
             /\ q.blockedOn = {}
             /\ \A d : ~DependencyReady(d, q)
<1> DEFINE b == BeginStart(r, p)
           q == FailedStart(r, p)
<1>1. b \in Runtime /\ b.desired = "enabled" /\ ~b.startRequested
  BY BeginStartType, BeginStartFields DEF ShouldConsiderStart
<1>2. q = FinishRunState(b, p, "failure", b.nextRun, FALSE)
  BY DEF FailedStart
<1>3. q.blockedOn = {} /\ q.lastExit = "failure" /\ q.remaining = b.remaining
  BY FailedStartBooks DEF SameBooks
<1> HIDE DEF b, q
<1>4. q.state = "exited" /\ ~q.startRequested
  BY <1>1, <1>2 DEF FinishRunState, ApplyBackoff, ClearBackoff, ResetFailureBudget, Runtime
<1>5. WillAutoRestart(b, p, "failure") => q.timer = "waiting"
  BY <1>1, <1>2 DEF FinishRunState, ApplyBackoff, Runtime
<1>6. WillAutoRestart(q, p, "failure") = WillAutoRestart(b, p, "failure")
  BY <1>3 DEF WillAutoRestart, HasBudget
<1>7. ~ShouldConsiderStart(q, p)
  BY <1>3, <1>4, <1>5, <1>6 DEF ShouldConsiderStart
<1>8. \A d : ~DependencyReady(d, q)
  BY <1>3, <1>4 DEF DependencyReady, LiveStates
<1> QED BY <1>3, <1>7, <1>8 DEF q

\* The kinds of step, as a pass sees them.
LEMMA PassKinds ==
  ASSUME LoopType, DataType, Next
  PROVE  \/ pc' \notin {"select", "pass"}
         \/ pc' = "pass" /\ cursor' = 1
         \/ pc' = "select" /\ shutdown'
         \/ pc' = "select" /\ pc = "select" /\ Unnoticed /\ UNCHANGED shutdown
         \/ pc' = "pass" /\ pc = "pass" /\ UNCHANGED <<cursor, progress>> /\ Unnoticed
         \/ \E s \in Services : BackoffElapses(s)
         \/ PassSkip \/ PassBlocked \/ PassStart \/ PassStartFails \/ PassEnd
<1> DEFINE Elsewhere == pc' \notin {"select", "pass"} \/ (pc' = "pass" /\ cursor' = 1)
           Waits == pc' = "select" /\ pc = "select" /\ Unnoticed /\ UNCHANGED shutdown
           Passes == pc' = "pass" /\ pc = "pass" /\ UNCHANGED <<cursor, progress>> /\ Unnoticed
<1>u. UNCHANGED <<config, rt>> => Unnoticed
  BY DEF Unnoticed, SameCandidate
<1>1. ASSUME NEW s \in Services, CommandStep(s)
      PROVE  Elsewhere
  BY <1>1, SettlePlaces
     DEF CommandStep, Restart, RestartRefused, Enable, DisableService, AwaitReload, GoTo
<1>2. ASSUME NEW s \in Services, EventStep(s)
      PROVE  Elsewhere \/ Waits
  <2>1. CASE HandleEventInReload(s) \/ HandleEventInDrain(s)
    BY <2>1 DEF HandleEventInReload, HandleEventInDrain, loopVars
  <2>2. CASE HandleEvent(s)
    <3>1. NeedsSchedule(s) \in BOOLEAN
      BY DEF NeedsSchedule
    <3>2. PICK stable \in BOOLEAN : Receive(s, stable)
      BY <2>2 DEF HandleEvent
    <3>3. CASE NeedsSchedule(s)
      BY <2>2, <3>1, <3>3, SettlePlaces DEF HandleEvent
    <3>4. CASE ~NeedsSchedule(s)
      <4> DEFINE e == Head(inbox[s])
                 q == AfterEvent(rt[s], Policy(s), e, stable)
      <4>1. q = rt[s] \/ q = FinishLogReader(rt[s], e.run)
        BY <3>4 DEF NeedsSchedule, AfterEvent
      <4>2. /\ SameCandidate(rt[s], q)
            /\ q.timer = rt[s].timer /\ q.blockedOn = rt[s].blockedOn
        <5>1. rt[s] \in Runtime
          BY DEF DataType
        <5> HIDE DEF q
        <5>2. CASE q = rt[s]
          BY <5>2 DEF SameCandidate
        <5>3. CASE q = FinishLogReader(rt[s], e.run)
          BY <5>1, <5>3, ReaderOfCandidate
        <5> QED BY <4>1, <5>2, <5>3
      <4>3. rt' = [rt EXCEPT ![s] = q] /\ UNCHANGED <<config, shutdown>>
        BY <3>2 DEF Receive
      <4> HIDE DEF q, e
      <4>4. Unnoticed
        BY <4>2, <4>3 DEF Unnoticed, SameCandidate, DataType
      <4> QED BY <2>2, <3>1, <4>3, <4>4, SettlePlaces DEF HandleEvent
    <3> QED BY <3>1, <3>3, <3>4
  <2> QED BY <1>2, <2>1, <2>2 DEF EventStep
<1>3. CASE ReloadStep
  <2>1. CASE ReloadSucceeds \/ ReloadFails
    BY <2>1, SettlePlaces DEF ReloadSucceeds, ReloadFails, GoTo
  <2>2. CASE ReloadInterrupted
    BY <2>2 DEF ReloadInterrupted, GoTo
  <2> QED BY <1>3, <2>1, <2>2 DEF ReloadStep
<1>4. CASE PassRepeat
  BY <1>4 DEF PassRepeat
<1>5. CASE RestartAll
  BY <1>5 DEF RestartAll, AwaitReload, GoTo
<1>6. CASE QuietWake \/ BackoffTimer
  BY <1>6, <1>u, SettlePlaces DEF QuietWake, BackoffTimer
<1>7. CASE ShutdownStep \/ DrainTimesOut \/ CommandChannelCloses
  BY <1>7 DEF ShutdownStep, ObserveShutdown, CancelAllRunning, DrainComplete, DrainTimesOut,
              CommandChannelCloses, GoTo
<1>8. CASE RequestShutdown
  BY <1>8, <1>u DEF RequestShutdown, loopVars
<1>9. ASSUME NEW s \in Services, NEW run, DrainTimer(s, run)
      PROVE  Elsewhere \/ Waits
  BY <1>9, <1>u, SettlePlaces DEF DrainTimer
<1>10. ASSUME NEW s \in Services, NEW run, RunStep(s, run)
       PROVE  Elsewhere \/ Waits \/ Passes
  BY <1>10, <1>u
     DEF RunStep, SignalProcess, ProcessExits, ProbeReports, ReaderEnds, loopVars
<1> QED BY <1>1, <1>2, <1>3, <1>4, <1>5, <1>6, <1>7, <1>8, <1>9, <1>10 DEF Next, PassStep
\* A step that no pass would notice keeps what was passed over, ...
LEMMA PassedOverSame ==
  ASSUME DataType, Unnoticed, NEW s \in Services, PassedOver(s)
  PROVE  PassedOver(s)'
<1>1. config \in Configs /\ UNCHANGED config /\ \A t \in Services : SameCandidate(rt[t], rt'[t])
  BY DEF DataType, Unnoticed
<1>2. Blockers(s)' = Blockers(s) /\ OutOfRuns(s)' = OutOfRuns(s)
  BY <1>1, BlockersSame
<1>3. /\ Considered(s)' = Considered(s)
      /\ rt'[s].timer = rt[s].timer /\ rt'[s].blockedOn = rt[s].blockedOn
  BY <1>1, ConsideredSame DEF Unnoticed
<1> QED BY <1>2, <1>3 DEF PassedOver

\* ... and so does a backoff that ends.
LEMMA ElapsedSame ==
  ASSUME DataType, NEW b \in Services, BackoffElapses(b), NEW s \in Services
  PROVE  /\ Blockers(s)' = Blockers(s) /\ OutOfRuns(s)' = OutOfRuns(s)
         /\ rt'[s].blockedOn = rt[s].blockedOn
         /\ Considered(s) => Considered(s)'
         /\ Considered(s)' = Considered(s) \/ rt'[s].timer = "due"
         /\ rt'[s].timer = rt[s].timer \/ rt'[s].timer = "due"
<1>1. /\ rt' = [rt EXCEPT ![b] = [rt[b] EXCEPT !.timer = "due"]]
      /\ UNCHANGED config
  BY DEF BackoffElapses
<1>2. ASSUME NEW t \in Services
      PROVE  /\ SameCandidate(rt[t], rt'[t]) /\ rt'[t].blockedOn = rt[t].blockedOn
             /\ rt'[t].timer = rt[t].timer \/ rt'[t].timer = "due"
  BY <1>1 DEF DataType, SameCandidate, Runtime
<1>3. Blockers(s)' = Blockers(s) /\ OutOfRuns(s)' = OutOfRuns(s)
  BY <1>1, <1>2, BlockersSame DEF DataType
<1>4. /\ Considered(s) => Considered(s)'
      /\ Considered(s)' = Considered(s) \/ rt'[s].timer = "due"
  BY <1>1, <1>2, ConsideredSame
<1> QED BY <1>2, <1>3, <1>4

\* A step of the pass that starts nothing settles the service it is at and
\* keeps the others so.
LEMMA PassedOverStep ==
  ASSUME LoopType, DataType, PassSkip \/ PassBlocked \/ PassStartFails,
         NEW c \in Services, c = Current
  PROVE  /\ PassedOver(c)'
         /\ \A s \in Services : PassedOver(s) => PassedOver(s)'
<1>1. config \in Configs /\ UNCHANGED config
  BY DEF PassSkip, PassBlocked, PassStartFails, PrepareStart, DataType
<1>2. rt[c] \in Runtime /\ Policy(c) \in Policies
  BY <1>1, ConfigType DEF DataType, Policy
<1>3. CASE PassSkip
  <2>1. rt' = [rt EXCEPT ![c] = [rt[c] EXCEPT !.blockedOn = {}]] /\ ~Considered(c)
    BY <1>3 DEF PassSkip
  <2>2. \A t \in Services :
          /\ SameCandidate(rt[t], rt'[t]) /\ rt'[t].timer = rt[t].timer
          /\ rt'[t].blockedOn = {} \/ rt'[t].blockedOn = rt[t].blockedOn
    BY <1>2, <2>1 DEF DataType, SameCandidate, Runtime
  <2>3. rt'[c].blockedOn = {}
    BY <1>1, <1>2, <2>1 DEF DataType, Runtime
  <2>4. \A t \in Services :
          /\ Blockers(t)' = Blockers(t) /\ OutOfRuns(t)' = OutOfRuns(t)
          /\ Considered(t)' = Considered(t)
    BY <1>1, <2>2, BlockersSame, ConsideredSame
  <2>5. PassedOver(c)'
    BY <1>1, <2>1, <2>3, <2>4 DEF PassedOver
  <2>6. \A s \in Services : PassedOver(s) => PassedOver(s)'
    BY <2>2, <2>4 DEF PassedOver
  <2> QED BY <2>5, <2>6
<1>4. CASE PassBlocked
  <2>1. UNCHANGED rt /\ PassedOver(c)
    BY <1>4 DEF PassBlocked, PassedOver
  <2>2. Unnoticed
    BY <1>1, <2>1 DEF Unnoticed, SameCandidate
  <2> QED BY <1>1, <2>1, <2>2, PassedOverSame
<1>5. CASE PassStartFails
  <2> DEFINE q == FailedStart(rt[c], Policy(c))
  <2>1. rt' = [rt EXCEPT ![c] = q] /\ ShouldConsiderStart(rt[c], Policy(c))
    BY <1>5 DEF PassStartFails, MayStart, Considered
  <2>2. ~ShouldConsiderStart(q, Policy(c)) /\ q.blockedOn = {} /\ \A d : ~DependencyReady(d, q)
    BY <1>2, <2>1, FailedStartRests
  <2> HIDE DEF q
  <2>3. rt'[c] = q /\ \A t \in Services \ {c} : rt'[t] = rt[t]
    BY <1>1, <2>1 DEF DataType
  <2>4. ~Considered(c)' /\ rt'[c].blockedOn = {}
    BY <1>1, <2>2, <2>3 DEF Considered, Policy
  <2>5. PassedOver(c)'
    BY <2>4 DEF PassedOver
  <2>6. ASSUME NEW s \in Services \ {c}, PassedOver(s)
        PROVE  PassedOver(s)'
    <3>1. Considered(s)' = Considered(s) /\ OutOfRuns(s)' = OutOfRuns(s)
      BY <1>1, <2>3 DEF Considered, Policy, OutOfRuns
    <3>2. Blockers(s) \subseteq Blockers(s)'
      <4>1. config.deps[s] \in SUBSET Dependencies
        <5>1. config \in Config
          BY <1>1, SchedulerAssumption
        <5> QED BY <5>1 DEF Config
      <4>2. \A d \in config.deps[s] :
              DependencyReady(d, rt'[d.service]) => DependencyReady(d, rt[d.service])
        BY <2>2, <2>3, <4>1 DEF Dependencies
      <4> QED BY <1>1, <4>2 DEF Blockers, BlockingDependencies
    <3>3. rt'[s] = rt[s]
      BY <2>3
    <3> QED BY <2>6, <3>1, <3>2, <3>3 DEF PassedOver
  <2> QED BY <2>5, <2>6
<1> QED BY <1>3, <1>4, <1>5
\* When a round is over it has been at every service.
LEMMA AllVisited ==
  ASSUME LoopType, DataType
  PROVE  /\ Visited \subseteq Services
         /\ cursor > Len(config.order) => Visited = Services
<1>1. /\ \A i \in 1 .. Len(config.order) : config.order[i] \in Services
      /\ Len(config.order) \in Nat /\ cursor \in Nat
  BY ConfigType DEF LoopType, DataType
<1>2. \A s \in Services : \E i \in 1 .. Len(config.order) : config.order[i] = s
  BY ConfigAssumption DEF DataType
<1>3. Visited \subseteq Services
  BY <1>1 DEF Visited
<1>4. ASSUME cursor > Len(config.order), NEW s \in Services
      PROVE  s \in Visited
  <2>1. PICK i \in 1 .. Len(config.order) : config.order[i] = s
    BY <1>2
  <2>2. i < cursor
    BY <1>1, <1>4
  <2> QED BY <2>1, <2>2 DEF Visited
<1> QED BY <1>3, <1>4

\* A pass that moves on has been at one more service.
LEMMA VisitedNext ==
  ASSUME LoopType, DataType, InRound, UNCHANGED config, cursor' = cursor + 1
  PROVE  Visited' \subseteq Visited \cup {Current}
<1>1. Len(config.order) \in Nat /\ cursor \in Nat
  BY ConfigType DEF LoopType, DataType
<1> SUFFICES ASSUME NEW i \in 1 .. Len(config.order), i < cursor + 1
             PROVE  config.order[i] \in Visited \cup {Current}
  BY DEF Visited
<1>2. i < cursor \/ i = cursor
  BY <1>1
<1> QED BY <1>2 DEF Visited, Current

\* Every step keeps what is known of the pass.
LEMMA PassesStep ==
  ASSUME LoopType, DataType, PassesAgree, [Next]_vars
  PROVE  PassesAgree'
<1>s. Visited \subseteq Services
  BY AllVisited
<1>k. ASSUME Unnoticed, NEW s \in Services
      PROVE  /\ Blockers(s)' = Blockers(s) /\ OutOfRuns(s)' = OutOfRuns(s)
             /\ Considered(s)' = Considered(s)
             /\ rt'[s].timer = rt[s].timer /\ rt'[s].blockedOn = rt[s].blockedOn
  BY <1>k, BlockersSame, ConsideredSame DEF Unnoticed, DataType
<1>1. CASE pc' \notin {"select", "pass"} \/ (pc' = "select" /\ shutdown')
  BY <1>1 DEF PassesAgree, RoundSoFar, NoMissedStart, BlockedAccurate
<1>2. CASE pc' = "pass" /\ cursor' = 1
  <2>1. Visited' = {}
    BY <1>2 DEF Visited
  <2> QED BY <1>2, <2>1 DEF PassesAgree, RoundSoFar, NoMissedStart, BlockedAccurate
<1>3. CASE pc' = "select" /\ pc = "select" /\ Unnoticed /\ UNCHANGED shutdown
  <2>1. NoMissedStart' /\ BlockedAccurate'
    BY <1>3, <1>k DEF PassesAgree, NoMissedStart, BlockedAccurate, MayStart
  <2> QED BY <1>3, <2>1 DEF PassesAgree, RoundSoFar
<1>4. CASE pc' = "pass" /\ pc = "pass" /\ UNCHANGED <<cursor, progress>> /\ Unnoticed
  <2>1. Visited' = Visited
    BY <1>4 DEF Visited, Unnoticed
  <2>2. RoundSoFar'
    BY <1>s, <1>4, <2>1, PassedOverSame DEF PassesAgree, RoundSoFar
  <2> QED BY <1>4, <2>2 DEF PassesAgree, NoMissedStart, BlockedAccurate
<1>5. ASSUME NEW b \in Services, BackoffElapses(b)
      PROVE  PassesAgree'
  <2>1. /\ UNCHANGED <<pc, cursor, progress, config, shutdown>>
    BY <1>5 DEF BackoffElapses, loopVars
  <2>2. ASSUME NEW s \in Services
        PROVE  /\ Blockers(s)' = Blockers(s) /\ OutOfRuns(s)' = OutOfRuns(s)
               /\ rt'[s].blockedOn = rt[s].blockedOn
               /\ Considered(s) => Considered(s)'
               /\ Considered(s)' = Considered(s) \/ rt'[s].timer = "due"
               /\ rt'[s].timer = rt[s].timer \/ rt'[s].timer = "due"
    BY <1>5, ElapsedSame
  <2>3. Visited' = Visited
    BY <2>1 DEF Visited
  <2>4. RoundSoFar'
    <3>1. \A s \in Services : PassedOver(s) => PassedOver(s)'
      BY <2>2 DEF PassedOver
    <3> QED BY <1>s, <2>1, <2>3, <3>1 DEF PassesAgree, RoundSoFar
  <2>5. NoMissedStart'
    BY <2>1, <2>2 DEF PassesAgree, NoMissedStart, MayStart
  <2>6. BlockedAccurate'
    BY <2>1, <2>2 DEF PassesAgree, BlockedAccurate
  <2> QED BY <2>4, <2>5, <2>6 DEF PassesAgree
<1>6. CASE PassSkip \/ PassBlocked \/ PassStartFails
  <2>1. /\ InRound /\ pc' = "pass" /\ cursor' = cursor + 1 /\ UNCHANGED config
        /\ ~progress' => ~progress
    BY <1>6 DEF PassSkip, PassBlocked, PassStartFails, PrepareStart, InRound, Advance
  <2>2. PICK c \in Services : c = Current
    BY <2>1, CurrentType
  <2>3. PassedOver(c)' /\ \A s \in Services : PassedOver(s) => PassedOver(s)'
    BY <1>6, <2>2, PassedOverStep
  <2>4. Visited' \subseteq Visited \cup {c}
    BY <2>1, <2>2, VisitedNext
  <2>5. RoundSoFar'
    BY <1>s, <2>1, <2>3, <2>4 DEF PassesAgree, RoundSoFar, InRound
  <2> QED BY <2>1, <2>5 DEF PassesAgree, NoMissedStart, BlockedAccurate
<1>7. CASE PassStart
  <2>1. pc' = "pass" /\ progress'
    BY <1>7 DEF PassStart, InRound, Advance
  <2> QED BY <2>1 DEF PassesAgree, RoundSoFar, NoMissedStart, BlockedAccurate
<1>8. CASE PassEnd
  <2>1. /\ pc = "pass" /\ cursor > Len(config.order) /\ ~progress /\ pc' = "select"
        /\ UNCHANGED config
        /\ rt' = [s \in Services |->
                    IF Considered(s) /\ Blockers(s) # {}
                    THEN [rt[s] EXCEPT !.blockedOn = Blockers(s)] ELSE rt[s]]
    BY <1>8 DEF PassEnd, GoTo
  <2>2. \A s \in Services : PassedOver(s)
    BY <2>1, AllVisited DEF PassesAgree, RoundSoFar
  <2>3. ASSUME NEW s \in Services
        PROVE  /\ SameCandidate(rt[s], rt'[s]) /\ rt'[s].timer = rt[s].timer
               /\ rt'[s].blockedOn =
                    IF Considered(s) /\ Blockers(s) # {} THEN Blockers(s) ELSE rt[s].blockedOn
    BY <2>1 DEF DataType, SameCandidate, Runtime
  <2>4. ASSUME NEW s \in Services
        PROVE  /\ Blockers(s)' = Blockers(s) /\ OutOfRuns(s)' = OutOfRuns(s)
               /\ Considered(s)' = Considered(s)
    BY <2>1, <2>3, BlockersSame, ConsideredSame DEF DataType
  <2>5. NoMissedStart'
    BY <2>2, <2>3, <2>4 DEF NoMissedStart, MayStart, PassedOver
  <2>6. BlockedAccurate'
    BY <2>2, <2>3, <2>4 DEF BlockedAccurate, PassedOver
  <2> QED BY <2>1, <2>5, <2>6 DEF PassesAgree, RoundSoFar
<1>9. CASE UNCHANGED vars
  <2>1. Unnoticed /\ UNCHANGED <<pc, cursor, progress, shutdown>>
    BY <1>9 DEF vars, loopVars, Unnoticed, SameCandidate
  <2>2. pc \in {"select", "pass"} \/ pc' \notin {"select", "pass"}
    BY <2>1
  <2> QED BY <1>1, <1>3, <1>4, <2>1, <2>2
<1> QED BY <1>1, <1>2, <1>3, <1>4, <1>5, <1>6, <1>7, <1>8, <1>9, PassKinds

-----------------------------------------------------------------------------
(***************************************************************************)
(* The theorems.                                                           *)
(***************************************************************************)

\* The inductive invariant beyond that of SchedulerProofs.
Accounts == ReadersAgree /\ BudgetsAgree /\ DrainedOut /\ PassesAgree

\* It holds at the start, ...
LEMMA AccountsInitially == Init => Accounts
<1> SUFFICES ASSUME Init PROVE Accounts
  OBVIOUS
<1>1. ASSUME NEW s \in Services
      PROVE  ReaderAgrees(rt[s], readers[s], inbox[s]) /\ BudgetAgrees(rt[s], Policy(s), spent[s])
  <2>1. /\ rt[s] = NewRuntime(s \notin Disabled, config.restart[s])
        /\ readers[s] = {} /\ inbox[s] = <<>> /\ spent[s] = 0
    BY DEF Init
  <2>2. /\ rt[s].draining = {} /\ rt[s].readerHeld = FALSE
        /\ rt[s].remaining = OnFailureMax(config.restart[s])
    BY <2>1 DEF NewRuntime
  <2>3. RunsOf(<<>>, "reader_finished") = {} /\ ReaderOnce(<<>>)
    BY DEF RunsOf, ReaderOnce
  <2>4. config.restart[s] \in Policies
    BY ConfigType DEF Init
  <2>5. ReaderAgrees(rt[s], readers[s], inbox[s])
    BY <2>1, <2>2, <2>3 DEF ReaderAgrees, HeldReaders
  <2>6. BudgetAgrees(rt[s], Policy(s), spent[s])
    BY <2>1, <2>2, <2>4, BudgetNumber DEF BudgetAgrees, Policy
  <2> QED BY <2>5, <2>6
<1>2. Visited = {}
  BY DEF Init, Visited
<1> QED BY <1>1, <1>2
        DEF Init, Accounts, ReadersAgree, BudgetsAgree, DrainedOut, PassesAgree, RoundSoFar,
            NoMissedStart, BlockedAccurate

\* ... every well-typed step keeps it, ...
LEMMA AccountsInductive == TypeOK /\ Accounts /\ [Next]_vars => Accounts'
BY TypeParts, ReadersStep, BudgetsStep, DrainedStep, PassesStep DEF Accounts

\* ... and so it holds always: in particular the handles of log readers, the
\* budgets, the end of the drain and the schedule pass are in order whatever
\* the services, configurations and bounds.
THEOREM AccountsInvariance == Spec => []Accounts
BY AccountsInitially, AccountsInductive, TypeCorrect, PTL DEF Spec

\* No reader handle leaks and none is lost: the scheduler holds one for exactly
\* the threads whose completion it has not received (FinishCurrentRun,
\* FinishLogReader).
THEOREM ReadersAccountedHolds == Spec => []ReadersAccounted
<1>1. Accounts => ReadersAccounted
  BY DEF Accounts, ReadersAgree, ReaderAgrees, ReadersAccounted
<1> QED BY <1>1, AccountsInvariance, PTL

\* An on-failure service is never restarted automatically more often than its
\* budget, whatever renews the budget in between.
THEOREM BudgetRespectedHolds == Spec => []BudgetRespected
<1>1. TypeOK /\ Accounts => BudgetRespected
  <2> SUFFICES ASSUME DataType, BudgetsAgree, NEW s \in Services,
                      Policy(s).kind = "on-failure", Policy(s).max # NoLimit
               PROVE  spent[s] <= Policy(s).max
    BY TypeParts DEF Accounts, BudgetRespected
  <2>1. Policy(s) \in Policies /\ spent[s] \in Nat
    BY ConfigType DEF Policy, DataType
  <2>2. OnFailureMax(Policy(s)) = Policy(s).max /\ Policy(s).max \in Nat
    BY <2>1, BudgetNumber DEF OnFailureMax
  <2>3. rt[s].remaining \in Nat /\ spent[s] + rt[s].remaining <= Policy(s).max
    BY <2>2 DEF BudgetsAgree, BudgetAgrees
  <2> QED BY <2>1, <2>2, <2>3
<1> QED BY <1>1, AccountsInvariance, TypeCorrect, PTL

\* A drain that did not time out leaves no process behind: no run is tracked
\* then, and every process is of a run that is (OneProcess).
THEOREM ShutdownReapsHolds == Spec => []ShutdownReaps
<1>1. IInv /\ Accounts => ShutdownReaps
  <2> SUFFICES ASSUME DataType, RunsAgree, DrainedOut, pc = "done", ~timedOut, NEW s \in Services
               PROVE  live[s] = {}
    BY TypeParts DEF IInv, Accounts, ShutdownReaps
  <2>1. live[s] \subseteq {NoRun} /\ live[s] \subseteq Runs
    BY DEF RunsAgree, DrainedOut, DataType
  <2> QED BY <2>1 DEF Runs, NoRun
<1> QED BY <1>1, AccountsInvariance, Invariance, PTL

\* When the scheduler waits, nothing that could start was left behind by the
\* pass, but for a service whose backoff has ended since.
THEOREM NoMissedStartHolds == Spec => []NoMissedStart
<1>1. Accounts => NoMissedStart
  BY DEF Accounts, PassesAgree
<1> QED BY <1>1, AccountsInvariance, PTL

\* `blocked_on` is non-empty exactly while dependencies hold the service back.
THEOREM BlockedAccurateHolds == Spec => []BlockedAccurate
<1>1. Accounts => BlockedAccurate
  BY DEF Accounts, PassesAgree
<1> QED BY <1>1, AccountsInvariance, PTL
=============================================================================
