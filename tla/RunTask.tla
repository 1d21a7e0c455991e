------------------------------- MODULE RunTask -------------------------------
(***************************************************************************)
(* One run of a service from its spawn to its last report: the termination *)
(* task (scheduler/pty.rs) that waits for the child, stops it when asked   *)
(* and escalates, and the health probe loop (health_check.rs) that it owns. *)
(* Scheduler.tla takes a run as four atomic events; this module is how the *)
(* tasks produce them.                                                     *)
(*                                                                         *)
(* Both tasks report on the bounded process event channel.  `sent` is all  *)
(* they ever put into it, `received` how much the scheduler took out.      *)
(* Timers are abstract: one that is running may elapse at any time.        *)
(***************************************************************************)
EXTENDS Integers, Sequences

CONSTANTS
  Platforms,   \* "unix" has SIGTERM; on "other" the first kill is final
  Retries,     \* HealthcheckSpec.retries, at least 1 after normalization
  Capacity,    \* of the process event channel
  MaxReports   \* bound: a verdict is sent only while fewer events were

ASSUME RunTaskAssumption ==
  /\ Platforms \subseteq {"unix", "other"}
  /\ Retries \in Nat \ {0}
  /\ Capacity \in Nat \ {0}
  /\ MaxReports \in Nat

VARIABLES
  child,       \* the service's process: running, or reaped by the wait thread
  endsOn,      \* what the process gives in to
  terminate,   \* the run's terminate token (or the session's shutdown token)
  waiter,      \* where the termination task is
  signal,      \* the strongest signal sent to the process group
  escalated,   \* termination_escalated
  hangupArmed, \* pty_hangup_deadline is set
  ptyOpen,     \* the master endpoints of the terminal are open
  killedPending, \* a detached task still has to send Killed
  health,      \* where the probe loop is
  outcome,     \* of the probe that is being wrapped up
  verdict,     \* the verdict being sent
  attempt,     \* failures counted so far
  unhealthy,   \* the loop has reported Unhealthy
  failures,    \* history: probes that failed since the last one that passed
  sent,        \* history: the events put into the channel
  received,    \* how many of them the scheduler received
  open         \* the receiver has not been dropped

stopVars == <<signal, escalated, hangupArmed, ptyOpen>>
probeVars == <<outcome, verdict, attempt, unhealthy, failures>>
channelVars == <<sent, received, open>>
vars == <<child, endsOn, terminate, waiter, stopVars, killedPending,
          health, probeVars, channelVars>>

Verdicts == {"healthy", "unhealthy"}
HealthOver == health \in {"off", "done"}

TypeOK ==
  /\ child \in {"running", "reaped"}
  /\ endsOn \in {"term", "kill", "hangup"}
  /\ terminate \in BOOLEAN
  /\ waiter \in {"select", "notify", "stopHealth", "report", "done"}
  /\ signal \in {"none", "term", "kill"}
  /\ escalated \in BOOLEAN
  /\ hangupArmed \in BOOLEAN
  /\ ptyOpen \in BOOLEAN
  /\ killedPending \in BOOLEAN
  /\ health \in {"off", "delay", "probe", "wrapUp", "report", "commit", "idle", "done"}
  /\ outcome \in {"none", "success", "failure", "cancelled"}
  /\ verdict \in Verdicts \cup {"none"}
  /\ attempt \in 0 .. Retries
  /\ unhealthy \in BOOLEAN
  /\ failures \in 0 .. Retries
  /\ sent \in Seq(Verdicts \cup {"killed", "exited"})
  /\ received \in 0 .. Len(sent)
  /\ open \in BOOLEAN

Init ==
  /\ child = "running" /\ endsOn \in {"term", "kill", "hangup"}
  /\ terminate = FALSE /\ waiter = "select"
  /\ signal = "none" /\ escalated = FALSE /\ hangupArmed = FALSE /\ ptyOpen = TRUE
  /\ killedPending = FALSE
  /\ health \in {"off", "delay", "probe"}
  /\ outcome = "none" /\ verdict = "none"
  /\ attempt = 0 /\ unhealthy = FALSE /\ failures = 0
  /\ sent = <<>> /\ received = 0 /\ open = TRUE

-----------------------------------------------------------------------------
\* The channel: a send waits for room; it fails once the receiver is gone.

Room == Len(sent) - received < Capacity
CanSend == Room \/ ~open
Push(event) == sent' = IF open THEN Append(sent, event) ELSE sent

Sent(event) == \E i \in DOMAIN sent : sent[i] = event

Receive ==
  /\ open /\ received < Len(sent)
  /\ received' = received + 1
  /\ UNCHANGED <<child, endsOn, terminate, waiter, stopVars, killedPending,
                 health, probeVars, sent, open>>

\* The scheduler ends, having drained the runs or given up.
CloseChannel ==
  /\ open
  /\ open' = FALSE
  /\ UNCHANGED <<child, endsOn, terminate, waiter, stopVars, killedPending,
                 health, probeVars, sent, received>>

-----------------------------------------------------------------------------
\* The process.

\* The process has been dealt what it cannot survive.
Doomed ==
  \/ endsOn = "term" /\ signal # "none"
  \/ endsOn = "kill" /\ signal = "kill"
  \/ endsOn = "hangup" /\ ~ptyOpen

\* It may also end on its own account, at any time.
ChildExits ==
  /\ child = "running"
  /\ child' = "reaped"
  /\ UNCHANGED <<endsOn, terminate, waiter, stopVars, killedPending,
                 health, probeVars, channelVars>>

\* The scheduler cancels the run, or the session shuts down.
RequestStop ==
  /\ ~terminate
  /\ terminate' = TRUE
  /\ UNCHANGED <<child, endsOn, waiter, stopVars, killedPending,
                 health, probeVars, channelVars>>

-----------------------------------------------------------------------------
(***************************************************************************)
(* The termination task: a biased select! that looks at the child first.   *)
(* The wait thread reaps the child before the task sees it, so every other *)
(* arm may still run then.                                                 *)
(***************************************************************************)

Started == signal # "none"

\* TerminationTarget.request: signal first, then announce it.
Request ==
  /\ waiter = "select" /\ terminate /\ ~Started
  /\ \E platform \in Platforms :
       /\ signal' = (IF platform = "unix" THEN "term" ELSE "kill")
       /\ escalated' = (platform # "unix")
       /\ hangupArmed' = (platform # "unix")
  /\ waiter' = "notify"
  /\ UNCHANGED <<child, endsOn, terminate, ptyOpen, killedPending,
                 health, probeVars, channelVars>>

SendKilled ==
  /\ waiter = "notify" /\ CanSend
  /\ Push("killed")
  /\ waiter' = "select"
  /\ UNCHANGED <<child, endsOn, terminate, stopVars, killedPending,
                 health, probeVars, received, open>>

\* TERMINATION_EVENT_NOTIFY_TIMEOUT: a task of its own goes on sending.
DetachKilled ==
  /\ waiter = "notify" /\ ~CanSend
  /\ killedPending' = TRUE
  /\ waiter' = "select"
  /\ UNCHANGED <<child, endsOn, terminate, stopVars, health, probeVars, channelVars>>

SendKilledDetached ==
  /\ killedPending /\ CanSend
  /\ Push("killed")
  /\ killedPending' = FALSE
  /\ UNCHANGED <<child, endsOn, terminate, waiter, stopVars,
                 health, probeVars, received, open>>

\* The grace period is over.
ForceKill ==
  /\ waiter = "select" /\ Started /\ ~escalated
  /\ signal' = "kill"
  /\ escalated' = TRUE
  /\ hangupArmed' = TRUE
  /\ UNCHANGED <<child, endsOn, terminate, waiter, ptyOpen, killedPending,
                 health, probeVars, channelVars>>

\* Mutant: the terminal is left to the process that holds it.
HangUpKeepsPty ==
  /\ waiter = "select" /\ hangupArmed
  /\ hangupArmed' = FALSE
  /\ UNCHANGED <<child, endsOn, terminate, waiter, signal, escalated, ptyOpen,
                 killedPending, health, probeVars, channelVars>>

HangUp ==
  /\ waiter = "select" /\ hangupArmed
  /\ ptyOpen' = FALSE
  /\ hangupArmed' = FALSE
  /\ UNCHANGED <<child, endsOn, terminate, waiter, signal, escalated,
                 killedPending, health, probeVars, channelVars>>

\* Mutant: the exit is reported without stopping the probe loop.
WaitDoneKeepsProbing ==
  /\ waiter = "select" /\ child = "reaped"
  /\ waiter' = "report"
  /\ UNCHANGED <<child, endsOn, terminate, stopVars, killedPending,
                 health, probeVars, channelVars>>

WaitDone ==
  /\ waiter = "select" /\ child = "reaped"
  /\ terminate' = TRUE
  /\ waiter' = "stopHealth"
  /\ UNCHANGED <<child, endsOn, stopVars, killedPending, health, probeVars, channelVars>>

HealthStopped ==
  /\ waiter = "stopHealth" /\ HealthOver
  /\ waiter' = "report"
  /\ UNCHANGED <<child, endsOn, terminate, stopVars, killedPending,
                 health, probeVars, channelVars>>

\* Mutant: the task is waited for as long as it takes.
StopHealthTimesOutNever == FALSE /\ UNCHANGED vars

\* Mutant: the task is left to itself instead of being aborted.
StopHealthTimesOutDetaches ==
  /\ waiter = "stopHealth" /\ ~HealthOver
  /\ waiter' = "report"
  /\ UNCHANGED <<child, endsOn, terminate, stopVars, killedPending,
                 health, probeVars, channelVars>>

\* HEALTH_TASK_STOP_TIMEOUT: the task is aborted, at one of its awaits.
StopHealthTimesOut ==
  /\ waiter = "stopHealth" /\ ~HealthOver /\ health # "commit"
  /\ health' = "done"
  /\ waiter' = "report"
  /\ UNCHANGED <<child, endsOn, terminate, stopVars, killedPending, probeVars, channelVars>>

\* Mutant: the detached Killed is not waited for.
SendExitedEarly ==
  /\ waiter = "report" /\ CanSend
  /\ Push("exited")
  /\ waiter' = "done"
  /\ UNCHANGED <<child, endsOn, terminate, stopVars, killedPending,
                 health, probeVars, received, open>>

SendExited ==
  /\ waiter = "report" /\ ~killedPending /\ CanSend
  /\ Push("exited")
  /\ waiter' = "done"
  /\ UNCHANGED <<child, endsOn, terminate, stopVars, killedPending,
                 health, probeVars, received, open>>

-----------------------------------------------------------------------------
(***************************************************************************)
(* The probe loop: a start delay, then one probe at a time.                *)
(***************************************************************************)

\* run_loop's sleeps: the delay before the first probe, the interval later.
NextProbe ==
  /\ health \in {"delay", "idle"}
  /\ health' = "probe"
  /\ UNCHANGED <<child, endsOn, terminate, waiter, stopVars, killedPending,
                 probeVars, channelVars>>

SleepCancelled ==
  /\ health \in {"delay", "idle"} /\ terminate
  /\ health' = "done"
  /\ UNCHANGED <<child, endsOn, terminate, waiter, stopVars, killedPending,
                 probeVars, channelVars>>

\* select_completion: the status counts before a cancellation, and a timeout
\* is a failure.
ProbeEnds(o) ==
  /\ health = "probe"
  /\ o = "cancelled" => terminate
  /\ health' = "wrapUp"
  /\ outcome' = o
  /\ failures' = CASE o = "success"   -> 0
                   [] o = "failure"   -> IF failures < Retries THEN failures + 1 ELSE failures
                   [] o = "cancelled" -> failures
  /\ UNCHANGED <<child, endsOn, terminate, waiter, stopVars, killedPending,
                 verdict, attempt, unhealthy, channelVars>>

\* cleanup_after_cancel and finish_with_exit take their time and are not
\* cancelled; then the loop looks at the result.
ProbePassed ==
  /\ health = "wrapUp" /\ outcome = "success"
  /\ health' = "report" /\ verdict' = "healthy"
  /\ outcome' = "none"
  /\ UNCHANGED <<child, endsOn, terminate, waiter, stopVars, killedPending,
                 attempt, unhealthy, failures, channelVars>>

\* Mutant: every failure past the limit is reported.
ProbeFailedRepeats ==
  LET reached == attempt + 1 >= Retries
  IN  /\ health = "wrapUp" /\ outcome = "failure"
      /\ attempt' = (IF attempt < Retries THEN attempt + 1 ELSE attempt)
      /\ unhealthy' = (unhealthy \/ reached)
      /\ health' = (IF reached THEN "report" ELSE "idle")
      /\ verdict' = (IF reached THEN "unhealthy" ELSE "none")
      /\ outcome' = "none"
      /\ UNCHANGED <<child, endsOn, terminate, waiter, stopVars, killedPending,
                     failures, channelVars>>

\* record_probe_failure
ProbeFailed ==
  LET reached == ~unhealthy /\ attempt + 1 >= Retries
  IN  /\ health = "wrapUp" /\ outcome = "failure"
      /\ attempt' = (IF unhealthy THEN attempt ELSE attempt + 1)
      /\ unhealthy' = (unhealthy \/ reached)
      /\ health' = (IF reached THEN "report" ELSE "idle")
      /\ verdict' = (IF reached THEN "unhealthy" ELSE "none")
      /\ outcome' = "none"
      /\ UNCHANGED <<child, endsOn, terminate, waiter, stopVars, killedPending,
                     failures, channelVars>>

ProbeCancelled ==
  /\ health = "wrapUp" /\ outcome = "cancelled"
  /\ health' = "done" /\ outcome' = "none"
  /\ UNCHANGED <<child, endsOn, terminate, waiter, stopVars, killedPending,
                 verdict, attempt, unhealthy, failures, channelVars>>

\* send_event, one poll in two steps: the tokens are looked at first, and may
\* be set before the event is in the channel.
CheckTokens ==
  /\ health = "report" /\ ~terminate
  /\ Len(sent) < MaxReports
  /\ health' = "commit"
  /\ UNCHANGED <<child, endsOn, terminate, waiter, stopVars, killedPending,
                 probeVars, channelVars>>

ReportCancelled ==
  /\ health = "report" /\ terminate
  /\ health' = "done" /\ verdict' = "none"
  /\ UNCHANGED <<child, endsOn, terminate, waiter, stopVars, killedPending,
                 outcome, attempt, unhealthy, failures, channelVars>>

SendVerdict ==
  /\ health = "commit" /\ open /\ Room
  /\ Push(verdict)
  /\ health' = "idle" /\ verdict' = "none"
  /\ attempt' = (IF verdict = "healthy" THEN 0 ELSE attempt)
  /\ unhealthy' = (verdict = "unhealthy")
  /\ UNCHANGED <<child, endsOn, terminate, waiter, stopVars, killedPending,
                 outcome, failures, received, open>>

\* The channel is full: the task waits, and looks at the tokens again.
SendWaits ==
  /\ health = "commit" /\ open /\ ~Room
  /\ health' = "report"
  /\ UNCHANGED <<child, endsOn, terminate, waiter, stopVars, killedPending,
                 probeVars, channelVars>>

SendFails ==
  /\ health = "commit" /\ ~open
  /\ health' = "done" /\ verdict' = "none"
  /\ UNCHANGED <<child, endsOn, terminate, waiter, stopVars, killedPending,
                 outcome, attempt, unhealthy, failures, channelVars>>

-----------------------------------------------------------------------------

WaiterStep ==
  \/ Request \/ SendKilled \/ DetachKilled \/ ForceKill \/ HangUp
  \/ WaitDone \/ HealthStopped \/ StopHealthTimesOut \/ SendExited
CommitStep == SendVerdict \/ SendWaits \/ SendFails
ProbeStep ==
  \/ NextProbe \/ SleepCancelled
  \/ \E o \in {"success", "failure", "cancelled"} : ProbeEnds(o)
  \/ ProbePassed \/ ProbeFailed \/ ProbeCancelled
  \/ CheckTokens \/ ReportCancelled \/ CommitStep

Next ==
  \/ ChildExits \/ RequestStop \/ Receive \/ CloseChannel
  \/ WaiterStep \/ SendKilledDetached \/ ProbeStep

Spec == Init /\ [][Next]_vars

(***************************************************************************)
(* Fairness.  Timers elapse and the tasks are polled; the scheduler keeps  *)
(* receiving in every place it waits; the channel serves waiting senders   *)
(* in order (strong fairness).  The process ends only when it is doomed.   *)
(* A probe need not end, nor its clean-up.                                 *)
(***************************************************************************)
Fairness ==
  /\ WF_vars(Receive)
  /\ WF_vars(Doomed /\ ChildExits)
  /\ WF_vars(Request) /\ WF_vars(ForceKill) /\ WF_vars(HangUp)
  /\ WF_vars(SendKilled \/ DetachKilled)
  /\ SF_vars(SendKilledDetached)
  /\ WF_vars(WaitDone) /\ WF_vars(HealthStopped \/ StopHealthTimesOut)
  /\ SF_vars(SendExited)
  /\ WF_vars(CommitStep)

FairSpec == Spec /\ Fairness

-----------------------------------------------------------------------------

\* The exit is the last thing the scheduler hears of a run from these tasks,
\* and comes once: it may forget the run then.
ExitIsLast == \A i \in DOMAIN sent : sent[i] = "exited" => i = Len(sent)

\* "`Killed` remains ordered before `Exited`": though a full channel makes a
\* detached task send it, a run that was signalled is announced as killed,
\* once, before its exit.
KilledAnnounced ==
  /\ Sent("exited") /\ Started => Sent("killed")
  /\ \A i, j \in DOMAIN sent : sent[i] = "killed" /\ sent[j] = "killed" => i = j

\* No probe outlives the run it probes: it could tell the scheduler, or run
\* commands, on behalf of a process that is gone.
ProbeOverAtExit == waiter = "done" => HealthOver

\* A verdict follows from the probes: Unhealthy takes as many failures in a
\* row as the configuration says, and is not repeated before a Healthy.
VerdictEarned ==
  /\ health = "commit" =>
       failures >= (IF verdict = "unhealthy" THEN Retries ELSE 0)
  /\ health = "commit" /\ verdict = "healthy" => failures = 0
  /\ \A i, j \in DOMAIN sent :
       (i < j /\ sent[i] = "unhealthy" /\ sent[j] = "unhealthy")
         => \E k \in i .. j : sent[k] = "healthy"

\* A run that is asked to stop, or ends, is reported as exited whatever its
\* process ignores, however full the channel is and whatever its probe does,
\* unless the scheduler is gone.
ExitReported == (terminate \/ child = "reaped") ~> (Sent("exited") \/ ~open)

\* And the process does end, and the task with it, even then.
StopCompletes == terminate ~> waiter = "done"
=============================================================================
