--------------------------------- MODULE Waits ---------------------------------
(***************************************************************************)
(* The waiting tools of the MCP server (micromux-mcp lib.rs,               *)
(* tools/health.rs, convert.rs) against one service of a session: what a   *)
(* tool reads, asks for, polls and attaches, one request at a time, while  *)
(* the service runs, exits, restarts and is commanded by other clients.    *)
(*                                                                         *)
(* The service's record and what commands and exits do to it are those of  *)
(* ServiceRuntime; a client sees the snapshot that is projected from it.   *)
(* A dependency that is not ready stands for all of them.                  *)
(***************************************************************************)
EXTENDS Naturals, Sequences, SequencesExt

CONSTANTS
  AwaitedPolicies, \* restart policies, of which the service has one
  NoLimit,         \* as in ServiceRuntime
  MaxAwaited,      \* bound: runs begun
  MaxLines,        \* bound: log lines
  MaxCommands      \* bound: commands of other clients and dependency changes

R == INSTANCE ServiceRuntime WITH Services <- {"dependency"}, MaxBackoff <- 1

\* Assumed by the modules that instantiate this one.
WaitsAssumption == AwaitedPolicies \subseteq R!Policies /\ NoLimit \notin Nat

VARIABLES
  policy, checked,  \* the restart policy; whether there is a healthcheck
  rt,               \* the service's runtime
  retired,          \* it is retired, as a dynamic service may be
  starting,         \* a start has been shown and not decided yet
  ready,            \* its dependency is ready
  log,              \* the run of every line, by seq
  first,            \* the first seq of the visible log
  attempt,          \* the run of the latest healthcheck attempt, or NoRun
  exits,            \* history: the outcome of each run that is over
  healthy,          \* history: the runs whose healthcheck succeeded
  waiting,          \* the tool's call
  commands          \* bound

awaitedVars ==
  <<policy, checked, rt, retired, starting, ready, log, first, attempt, exits,
    healthy, commands>>
waitVars == <<awaitedVars, waiting>>

Unset == "none"

\* "After no run" and "after run 0" mean the same: any run will do.
AnyRun == 0

-----------------------------------------------------------------------------
(* What a client sees. *)

\* project_execution.
Execution ==
  IF starting THEN "starting"
  ELSE IF rt.running # R!NoRun
    THEN CASE rt.state \in R!LiveStates -> "running"
           [] rt.state \in {"killed", "disabled"} -> "stopping"
           [] OTHER -> "starting"
    ELSE CASE rt.state \in {"pending", "exited"} /\ rt.blockedOn # {} -> "blocked"
           [] rt.state = "disabled" -> IF rt.lastRun # R!NoRun THEN "exited" ELSE "pending"
           [] OTHER -> rt.state

\* project_snapshot.
Snapshot ==
  [desired |-> rt.desired, retired |-> retired, execution |-> Execution,
   health |-> IF Execution = "running" THEN rt.state ELSE Unset,
   generation |-> R!RunGeneration(rt), exit |-> rt.lastExit]

\* Mutant: the run before the restart will do.
GenerationReadyAtOnce(snapshot, after) ==
  snapshot.generation # R!NoRun /\ snapshot.generation >= after

\* generation_ready.
GenerationReady(snapshot, after) == snapshot.generation > after

\* convert::evaluate.
Evaluate(snapshot, after) ==
  IF snapshot.desired = "disabled" THEN "invalid"
  ELSE IF ~GenerationReady(snapshot, after) THEN "pending"
  ELSE CASE snapshot.execution = "exited" -> "exited"
         [] snapshot.execution = "running" ->
              IF ~checked \/ snapshot.health = "healthy" THEN "healthy" ELSE "pending"
         [] OTHER -> "pending"

\* classify_exit.
ClassifyExit(snapshot, after) ==
  LET inFlight == /\ GenerationReady(snapshot, after)
                  /\ snapshot.execution \in {"starting", "running", "stopping"}
  IN  IF GenerationReady(snapshot, after) /\ snapshot.execution = "exited" THEN "exited"
      ELSE IF (snapshot.desired = "disabled" \/ snapshot.retired) /\ ~inFlight THEN "invalid"
      ELSE "pending"

\* health_attempt_matches_snapshot: the attempt, if it is of the snapshot's run.
AttemptFor(snapshot) ==
  IF snapshot.execution = "running" /\ attempt = snapshot.generation THEN attempt ELSE R!NoRun

\* current_service_cursor.
Cursor == IF first > Len(log) THEN 0 ELSE Len(log)

-----------------------------------------------------------------------------
(* The service. *)

\* The service goes on until the answer, after which nothing matters here.
ServerUnchanged == waiting.stage # "over" /\ UNCHANGED <<policy, checked>>

\* The schedule pass considers a start: it is blocked, or shown as starting.
Consider ==
  /\ ~starting /\ R!ShouldConsiderStart(rt, policy) /\ rt.nextRun < MaxAwaited
  /\ IF ready
       THEN starting' = TRUE /\ rt' = [rt EXCEPT !.blockedOn = {}]
       ELSE /\ rt.blockedOn = {}
            /\ rt' = [rt EXCEPT !.blockedOn = {"dependency"}] /\ UNCHANGED starting
  /\ ServerUnchanged
  /\ UNCHANGED <<retired, ready, log, first, attempt, exits, healthy, waiting, commands>>

\* start_service_if_ready: the run begins with its log, and is spawned or not.
StartAwaited ==
  /\ starting
  /\ starting' = FALSE
  /\ first' = IF rt.clearLogs THEN Len(log) + 1 ELSE first
  /\ \/ rt' = R!StartedRun(rt, policy) /\ UNCHANGED exits
     \/ rt' = R!FailedStart(rt, policy) /\ exits' = Append(exits, "failure")
  /\ ServerUnchanged
  /\ UNCHANGED <<retired, ready, log, attempt, healthy, waiting, commands>>

EndAwaited(outcome) ==
  /\ ~starting /\ rt.running # R!NoRun
  /\ rt' = R!FinishCurrentRun(rt, policy, outcome, FALSE)
  /\ exits' = Append(exits, outcome)
  /\ ServerUnchanged
  /\ UNCHANGED <<retired, starting, ready, log, first, attempt, healthy, waiting, commands>>

BackoffDue ==
  /\ rt.timer = "waiting"
  /\ rt' = [rt EXCEPT !.timer = "due"]
  /\ ServerUnchanged
  /\ UNCHANGED <<retired, starting, ready, log, first, attempt, exits, healthy, waiting, commands>>

\* A probe ends: its attempt is recorded, of the last run too, and then the
\* verdict reaches the scheduler if the run is still the current one.
Attempt(run) ==
  /\ checked /\ run \in {rt.running, rt.lastRun} \ {R!NoRun}
  /\ attempt' = run
  /\ ServerUnchanged
  /\ UNCHANGED <<rt, retired, starting, ready, log, first, exits, healthy, waiting, commands>>

Verdict(health) ==
  /\ checked /\ ~starting /\ rt.running # R!NoRun /\ attempt = rt.running
  /\ rt' = R!MarkHealth(rt, health)
  /\ healthy' = IF health = "healthy" THEN healthy \cup {rt.running} ELSE healthy
  /\ ServerUnchanged
  /\ UNCHANGED <<retired, starting, ready, log, first, attempt, exits, waiting, commands>>

\* Lines of the current run; a run that is over no longer shows any once the
\* next one has begun.
Write ==
  /\ ~starting /\ R!RunGeneration(rt) # R!NoRun /\ Len(log) < MaxLines
  /\ log' = Append(log, R!RunGeneration(rt))
  /\ ServerUnchanged
  /\ UNCHANGED <<rt, retired, starting, ready, first, attempt, exits, healthy, waiting, commands>>

-----------------------------------------------------------------------------
(* Commands, as the scheduler handles them. *)

CanApply(command) ==
  CASE command = "restart" -> ~retired /\ rt.desired = "enabled"
    [] command \in {"enable", "stop"} -> ~retired
    [] command = "disable" -> TRUE
    [] command = "replace" -> TRUE

\* apply_restart, apply_enable, apply_disable, stop_dynamic, replace_dynamic.
Apply(command) ==
  /\ rt' = CASE command \in {"restart", "replace"} -> R!RequestRestart(rt, policy)
             [] command = "enable" -> R!RequestEnable(rt, policy)
             [] command \in {"disable", "stop"} -> R!Disable(rt)
  /\ retired' = CASE command = "replace" -> FALSE
                  [] command = "stop" -> TRUE
                  [] OTHER -> retired

OtherClient(command) ==
  /\ ~starting /\ commands < MaxCommands /\ CanApply(command)
  /\ Apply(command)
  /\ commands' = commands + 1
  /\ waiting' = [waiting EXCEPT !.disturbed = TRUE]
  /\ ServerUnchanged
  /\ UNCHANGED <<starting, ready, log, first, attempt, exits, healthy>>

DependencyChanges ==
  /\ commands < MaxCommands
  /\ ready' = ~ready
  /\ commands' = commands + 1
  /\ ServerUnchanged
  /\ UNCHANGED <<rt, retired, starting, log, first, attempt, exits, healthy, waiting>>

-----------------------------------------------------------------------------
(* The tools.  "restart" is restart_service_and_wait; "enable" is            *)
(* enable_service and then wait_for_healthy after the generation it returned;*)
(* "ensure" is ensure_service_ready; "exit" is wait_for_exit, and "job" the  *)
(* same after a restart_service.                                             *)

Tools == {"restart", "enable", "ensure", "exit", "job"}
WaitsForExit == waiting.tool \in {"exit", "job"}

NoWait ==
  [tool |-> Unset, stage |-> "idle", cursor |-> 0, after |-> AnyRun, command |-> Unset,
   snapshot |-> Unset, outcome |-> Unset, attempt |-> R!NoRun, logs |-> <<>>,
   disturbed |-> FALSE]

Fails == waiting' = [waiting EXCEPT !.stage = "over", !.outcome = "error"]

\* The request that a tool begins with.
BeginTool(tool) ==
  /\ waiting.stage = "idle"
  /\ LET asks(command, stage) ==
           waiting' = [waiting EXCEPT !.tool = tool, !.command = command, !.stage = stage,
                                !.disturbed = FALSE]
     IN  CASE tool = "restart" ->
                IF rt.desired = "disabled" THEN Fails ELSE asks("restart", "cursor")
           [] tool = "enable" -> asks("enable", "mutate")
           [] tool = "exit" -> asks(Unset, "cursor")
           [] tool = "job" -> asks("restart", "mutate")
           [] tool = "ensure" ->
                CASE Evaluate(Snapshot, AnyRun) = "healthy" ->
                       waiting' = [waiting EXCEPT !.tool = tool, !.snapshot = Snapshot,
                                            !.outcome = "healthy", !.stage = "over"]
                  [] Evaluate(Snapshot, AnyRun) # "healthy" /\ retired -> Fails
                  [] OTHER -> IF rt.desired = "disabled" THEN asks("enable", "mutate")
                              ELSE asks(Unset, "poll")
  /\ UNCHANGED awaitedVars

TakeCursor ==
  /\ waiting.stage = "cursor"
  /\ waiting' = [waiting EXCEPT !.cursor = Cursor,
                          !.stage = IF waiting.tool = "restart" THEN "mutate" ELSE "poll"]
  /\ UNCHANGED awaitedVars

\* The command of the call, with the generation observed before it.
Mutate ==
  /\ waiting.stage = "mutate" /\ ~starting
  /\ IF CanApply(waiting.command)
       THEN /\ Apply(waiting.command)
            /\ waiting' = [waiting EXCEPT !.after = R!RunGeneration(rt), !.disturbed = FALSE,
                          !.stage = IF waiting.tool = "job" THEN "cursor" ELSE "poll"]
       ELSE Fails /\ UNCHANGED <<rt, retired>>
  /\ ServerUnchanged
  /\ UNCHANGED <<starting, ready, log, first, attempt, exits, healthy, commands>>

\* One look of wait_for_snapshot, past its deadline or not.
Poll(late) ==
  /\ waiting.stage = "poll"
  /\ LET seen == Snapshot
         verdict == IF WaitsForExit THEN ClassifyExit(seen, waiting.after)
                    ELSE Evaluate(seen, waiting.after)
     IN  CASE verdict = "invalid" -> Fails
           [] verdict = "pending" ->
                /\ late
                /\ waiting' = [waiting EXCEPT !.snapshot = seen, !.outcome = "timeout",
                                        !.stage = IF WaitsForExit THEN "logs" ELSE "health"]
           [] OTHER ->
                waiting' = [waiting EXCEPT !.snapshot = seen, !.outcome = verdict,
                                     !.stage = IF waiting.tool \in {"restart", "exit", "job"}
                                               THEN "logs" ELSE "over"]
  /\ UNCHANGED awaitedVars

\* latest_health_for_snapshot, in a request of its own.
Health ==
  /\ waiting.stage = "health"
  /\ waiting' = [waiting EXCEPT !.attempt = AttemptFor(waiting.snapshot),
                          !.stage = IF waiting.tool = "restart" THEN "logs" ELSE "over"]
  /\ UNCHANGED awaitedVars

\* compact_logs_since, in another.
Logs ==
  /\ waiting.stage = "logs"
  /\ waiting' = [waiting EXCEPT !.stage = "over",
                !.logs = LET from == IF first > waiting.cursor THEN first ELSE waiting.cursor + 1
                         IN  SubSeq(log, from, Len(log))]
  /\ UNCHANGED awaitedVars

-----------------------------------------------------------------------------

WaitsInit ==
  /\ policy \in AwaitedPolicies
  /\ checked \in BOOLEAN
  /\ rt = R!NewRuntime(TRUE, policy)
  /\ retired = FALSE /\ starting = FALSE /\ ready = TRUE
  /\ log = <<>> /\ first = 1
  /\ attempt = R!NoRun
  /\ exits = <<>> /\ healthy = {}
  /\ waiting = NoWait
  /\ commands = 0

WaitsNext ==
  \/ Consider \/ StartAwaited \/ BackoffDue \/ Write \/ DependencyChanges
  \/ \E outcome \in {"success", "failure"} : EndAwaited(outcome)
  \/ \E run \in {rt.running, rt.lastRun} : Attempt(run)
  \/ \E health \in {"healthy", "unhealthy"} : Verdict(health)
  \/ \E command \in {"restart", "enable", "disable", "stop", "replace"} : OtherClient(command)
  \/ \E tool \in Tools : BeginTool(tool)
  \/ TakeCursor \/ Mutate \/ Health \/ Logs
  \/ \E late \in BOOLEAN : Poll(late)

WaitsSpec == WaitsInit /\ [][WaitsNext]_waitVars

-----------------------------------------------------------------------------

\* A tool's answer is about one run, and about one that its caller may ask for:
\* later than the command that the call made; healthy by a check of its own,
\* when there are checks; with the exit status of that run and an attempt of
\* that run, though they are read in requests of their own.  The logs that
\* accompany a restart which was seen through, and did not time out, are of no
\* earlier run, unless another client's command came after it: an enable keeps
\* the log that the restart was to clear.  After a timeout they may be of the old
\* run, which has perhaps still to stop.
AnswerOfOneRun ==
  waiting.stage = "over" /\ waiting.outcome \in {"healthy", "exited", "timeout"} =>
    LET run == waiting.snapshot.generation
    IN  /\ waiting.outcome # "timeout" => run > waiting.after
        /\ waiting.outcome = "healthy" /\ checked => run \in healthy
        /\ waiting.outcome = "exited" => waiting.snapshot.exit = exits[run]
        /\ waiting.attempt \in {R!NoRun, run}
        /\ (waiting.tool = "restart" /\ waiting.outcome # "timeout" /\ ~waiting.disturbed) =>
             \A i \in DOMAIN waiting.logs : waiting.logs[i] > waiting.after
=============================================================================
