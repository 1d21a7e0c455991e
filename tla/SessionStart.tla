----------------------------- MODULE SessionStart -----------------------------
(***************************************************************************)
(* The start_session and stop_session tools against the processes of one   *)
(* project's sessions: `micromux serve` from its launch to its end, the    *)
(* locks it holds, process ids that are used again, probes of the runtime  *)
(* directories one at a time, and the child a start has spawned.           *)
(***************************************************************************)
EXTENDS Naturals, FiniteSets

CONSTANTS
  Starts, Stops,  \* calls of the two tools, each made once
  Processes,      \* sessions' processes, by identity
  Pids,           \* process ids; a reaped process's is free again
  RuntimeDirs,    \* usable runtime directories, each with an endpoint
  RuntimeDir      \* the one that a session started here uses

Nobody == "nobody"

\* Assumed by the modules that instantiate this one.
SessionStartAssumption ==
  /\ IsFiniteSet(Processes) /\ IsFiniteSet(Pids) /\ IsFiniteSet(RuntimeDirs)
  /\ RuntimeDir \in RuntimeDirs /\ Starts \cap Stops = {}
  /\ Nobody \notin Starts /\ 0 \notin Pids /\ 0 \notin Processes
  /\ Processes \cap {"absent", "unusable", "unprobed", "pid", "exited"} = {}

VARIABLES
  process,  \* each process: [life, pid, dir, parent]
  start,    \* each start: [pc, seen, child, reaped, pid, result, named]
  stop      \* each stop: [pc, seen, named, watch, result]

sessionStartVars == <<process, start, stop>>

-----------------------------------------------------------------------------
(* Processes.                                                               *)

Unborn == [life |-> "none", pid |-> 0, dir |-> 0, parent |-> Nobody]
Is(p, life) == process[p].life = life
Living(p) == process[p].life \in {"loading", "serving", "stopping", "draining"}
Exited(p) == process[p].life \in {"zombie", "gone"}
RunsServices(p) == process[p].life \in {"serving", "stopping", "draining"}

\* The locks go with the guard (serve, EndpointGuard::drop).
HoldsLock(p) == process[p].life \in {"serving", "stopping"}

FreePids == Pids \ {process[p].pid : p \in {q \in Processes : Living(q) \/ Is(q, "zombie")}}

Becomes(p, life) == process' = [process EXCEPT ![p].life = life]

\* An exit is a zombie until the parent waits for it; a start that has returned
\* has dropped its Child, and the runtime reaps it.
AfterExit(p) ==
  IF process[p].parent # Nobody /\ start[process[p].parent].pc # "done" THEN "zombie" ELSE "gone"

Spawn(parent, dir) ==
  LET unborn == {p \in Processes : Is(p, "none")}
      p == CHOOSE q \in unborn : TRUE
  IN  /\ unborn # {}
      /\ \E pid \in FreePids : process' = [process EXCEPT
           ![p] = [life |-> "loading", pid |-> pid, dir |-> dir, parent |-> parent]]

\* A session that no start here has spawned: another agent's or the user's.
LaunchSession ==
  /\ \E dir \in RuntimeDirs : Spawn(Nobody, dir)
  /\ UNCHANGED <<start, stop>>

\* run_headless: no control plane, no session.
ServeFails(p) ==
  /\ Is(p, "loading") /\ Becomes(p, AfterExit(p))
  /\ UNCHANGED <<start, stop>>

BindEndpoint(p) ==
  /\ Is(p, "loading")
  /\ IF \E q \in Processes : HoldsLock(q) THEN Becomes(p, AfterExit(p)) ELSE Becomes(p, "serving")
  /\ UNCHANGED <<start, stop>>

\* A signal cancels the token.
Interrupt(p) ==
  /\ Is(p, "serving") /\ Becomes(p, "stopping")
  /\ UNCHANGED <<start, stop>>

\* serve returns and drops the guard, while the scheduler drains.
ReleaseEndpoint(p) ==
  /\ Is(p, "stopping") /\ Becomes(p, "draining")
  /\ UNCHANGED <<start, stop>>

\* The runner has drained; or the process dies where it is.
Exit(p) ==
  /\ Living(p) /\ Becomes(p, AfterExit(p))
  /\ UNCHANGED <<start, stop>>

ProcessStep(p) ==
  ServeFails(p) \/ BindEndpoint(p) \/ Interrupt(p) \/ ReleaseEndpoint(p) \/ Exit(p)

-----------------------------------------------------------------------------
(* probe_endpoints: a Describe of each endpoint, in any order.  An answer   *)
(* names the instance; "unusable" stands for a mismatch and for every       *)
(* probe that did not come to an answer.                                    *)

Owner(dir) == {p \in Processes : HoldsLock(p) /\ process[p].dir = dir}
Absent == "absent"
Unusable == "unusable"

Results(dir) ==
  IF Owner(dir) = {} THEN {Absent} ELSE Owner(dir) \cup {Unusable}

Unprobed == [dir \in RuntimeDirs |-> "unprobed"]
Complete(seen) == "unprobed" \notin {seen[dir] : dir \in RuntimeDirs}
Probed(seen) ==
  UNION {{[seen EXCEPT ![dir] = result] : result \in Results(dir)} :
           dir \in {d \in RuntimeDirs : seen[d] = "unprobed"}}

\* unique_answering_session_probes.
Answering(seen) == {seen[dir] : dir \in RuntimeDirs} \cap Processes
TheOne(seen) == CHOOSE p \in Answering(seen) : TRUE

-----------------------------------------------------------------------------
(* start_for_target_unchecked.                                              *)

NewStart == [pc |-> "check", seen |-> Unprobed, child |-> 0, reaped |-> FALSE,
             pid |-> 0, result |-> "none", named |-> 0]

\* The call returns, its Child dropped or, if it kills, killed and waited for.
Return(s, kills, result, named) ==
  LET child == start[s].child
  IN  /\ start' = [start EXCEPT ![s] =
           [NewStart EXCEPT !.pc = "done", !.child = child, !.result = result, !.named = named]]
      /\ process' = IF child # 0 /\ (kills \/ Is(child, "zombie"))
                      THEN [process EXCEPT ![child].life = "gone"] ELSE process

ProbeForStart(s) ==
  /\ start[s].pc \in {"check", "probe"}
  /\ \E seen \in Probed(start[s].seen) : start' = [start EXCEPT ![s].seen = seen]
  /\ UNCHANGED <<process, stop>>

\* already_running_any; it takes an unusable endpoint for a running session only
\* if somebody holds its lock at that time.
Check(s) ==
  LET seen == start[s].seen
  IN  /\ start[s].pc = "check" /\ Complete(seen)
      /\ IF Cardinality(Answering(seen)) > 1 THEN Return(s, FALSE, "ambiguous", 0)
         ELSE IF Answering(seen) # {} THEN Return(s, FALSE, "already", TheOne(seen))
         ELSE IF \E dir \in RuntimeDirs : seen[dir] = Unusable /\ Owner(dir) # {}
           THEN Return(s, FALSE, "unreachable", 0)
         ELSE start' = [start EXCEPT ![s].pc = "spawn"] /\ UNCHANGED process
      /\ UNCHANGED stop

\* spawn_detached_serve.
SpawnServe(s) ==
  /\ start[s].pc = "spawn"
  /\ \/ /\ Spawn(s, RuntimeDir)
        /\ start' = [start EXCEPT ![s].pc = "poll",
             ![s].child = CHOOSE p \in Processes : Is(p, "none") /\ process'[p].life # "none"]
     \/ Return(s, FALSE, "failed", 0)
  /\ UNCHANGED stop

\* The child's id, while it cannot be another process's.
ChildPid(s, reaped) == IF reaped THEN 0 ELSE process[start[s].child].pid

\* The top of the loop: try_wait.
TryWait(s) ==
  LET child == start[s].child
      reaped == start[s].reaped \/ Is(child, "zombie")
  IN  /\ start[s].pc = "poll"
      /\ start' = [start EXCEPT ![s] = [@ EXCEPT
           !.pc = "probe", !.seen = Unprobed, !.reaped = reaped, !.pid = ChildPid(s, reaped)]]
      /\ process' = IF Is(child, "zombie") THEN [process EXCEPT ![child].life = "gone"]
                                           ELSE process
      /\ UNCHANGED stop

\* reachable_session_for_start, and what the loop makes of it.
Judge(s) ==
  LET seen == start[s].seen
      kills == ~start[s].reaped
      named == TheOne(seen)
      ours == start[s].pid # 0 /\ start[s].pid = process[named].pid
  IN  /\ start[s].pc = "probe" /\ Complete(seen)
      /\ \/ /\ Cardinality(Answering(seen)) > 1
            /\ Return(s, kills, "ambiguous", 0)
         \/ /\ Cardinality(Answering(seen)) = 1
            /\ Return(s, kills /\ ~ours, IF ours THEN "started" ELSE "already", named)
         \/ /\ Answering(seen) = {}
            /\ \/ start' = [start EXCEPT ![s].pc = "poll"] /\ UNCHANGED process
               \/ Return(s, kills, "failed", 0)
      /\ UNCHANGED stop

StartStep(s) == ProbeForStart(s) \/ Check(s) \/ SpawnServe(s) \/ TryWait(s) \/ Judge(s)

-----------------------------------------------------------------------------
(* stop_session.                                                            *)

NewStop == [pc |-> "resolve", seen |-> Unprobed, named |-> 0, watch |-> "none",
            result |-> "none"]

Finish(s, result) ==
  stop' = [stop EXCEPT ![s] = [NewStop EXCEPT !.pc = "done", !.named = stop[s].named,
                                              !.result = result]]

ProbeForStop(s) ==
  /\ stop[s].pc = "resolve"
  /\ \E seen \in Probed(stop[s].seen) : stop' = [stop EXCEPT ![s].seen = seen]
  /\ UNCHANGED <<process, start>>

Resolve(s) ==
  /\ stop[s].pc = "resolve" /\ Complete(stop[s].seen)
  /\ IF Cardinality(Answering(stop[s].seen)) = 1
       THEN stop' = [stop EXCEPT ![s].pc = "watch", ![s].named = TheOne(stop[s].seen)]
       ELSE Finish(s, "unresolved")
  /\ UNCHANGED <<process, start>>

\* Those a process id names; at most one.
Named(pid) == {p \in Processes : process[p].pid = pid /\ (Living(p) \/ Is(p, "zombie"))}

\* ProcessExitWatch::new: a pidfd, or the id itself where there is none.
Watch(s) ==
  LET pid == process[stop[s].named].pid
  IN  /\ stop[s].pc = "watch"
      /\ \E watch \in {"pid"} \cup (IF Named(pid) = {} THEN {"exited"} ELSE Named(pid)) :
           stop' = [stop EXCEPT ![s].pc = "send", ![s].watch = watch]
      /\ UNCHANGED <<process, start>>

\* Request::Shutdown goes to whoever listens there now; its answer may be lost.
SendShutdown(s) ==
  LET dir == CHOOSE d \in RuntimeDirs : stop[s].seen[d] = stop[s].named
  IN  /\ stop[s].pc = "send"
      /\ \/ \E p \in Owner(dir) :
              /\ process' = [process EXCEPT ![p].life = "stopping"]
              /\ stop' = [stop EXCEPT ![s].pc = "wait"]
         \/ \E p \in Owner(dir) : Becomes(p, "stopping") /\ Finish(s, "failed")
         \/ Owner(dir) = {} /\ Finish(s, "failed") /\ UNCHANGED process
      /\ UNCHANGED start

\* Mutant: the id is gone, or the session no longer listens.
HasExitedUnreachable(watch, named) == ~HoldsLock(named)

\* ProcessExitWatch::wait, process_alive.
HasExited(watch, named) ==
  \/ watch = "exited"
  \/ watch = "pid" /\ Named(process[named].pid) = {}
  \/ watch \in Processes /\ Exited(watch)

Confirm(s) ==
  /\ stop[s].pc = "wait" /\ HasExited(stop[s].watch, stop[s].named)
  /\ Finish(s, "stopped")
  /\ UNCHANGED <<process, start>>

WaitTimesOut(s) ==
  /\ stop[s].pc = "wait"
  /\ Finish(s, "unconfirmed")
  /\ UNCHANGED <<process, start>>

StopStep(s) ==
  ProbeForStop(s) \/ Resolve(s) \/ Watch(s) \/ SendShutdown(s) \/ Confirm(s) \/ WaitTimesOut(s)

-----------------------------------------------------------------------------
SessionStartInit ==
  /\ process = [p \in Processes |-> Unborn]
  /\ start = [s \in Starts |-> NewStart]
  /\ stop = [s \in Stops |-> NewStop]

SessionStartNext ==
  \/ LaunchSession
  \/ \E p \in Processes : ProcessStep(p)
  \/ \E s \in Starts : StartStep(s)
  \/ \E s \in Stops : StopStep(s)

SessionStartSpec == SessionStartInit /\ [][SessionStartNext]_sessionStartVars

-----------------------------------------------------------------------------
(* Properties.                                                              *)

\* A start that reports that it started a session names the process that it
\* spawned, although ids are used again and other sessions answer meanwhile.
\* However else it ends, its child is gone: no session that nobody knows of is
\* left to hold the ports.
StartAccounted ==
  \A s \in Starts :
    start[s].pc = "done" =>
      \/ start[s].result = "started" /\ start[s].named = start[s].child
      \/ start[s].result # "started" /\ (start[s].child = 0 \/ Is(start[s].child, "gone"))

\* A stop that reports that the session has stopped: the process that answered
\* it has exited, and with it the supervision of its services, although the
\* watch is by an id and the request goes to whoever listens.
StopMeansGone ==
  \A s \in Stops : stop[s].result = "stopped" => Exited(stop[s].named)

\* What the two tools report to have done took place (start_session,
\* stop_session), whatever other tools and sessions do in between.
OutcomesTrue == StartAccounted /\ StopMeansGone

\* "a successor (which cannot acquire the lock until this process exits)"
\* (server/unix.rs:92): two processes never run the services of one project.
\* They do: the guard is dropped when the shutdown begins.
SuccessorWaits ==
  \A p, q \in Processes : RunsServices(p) /\ RunsServices(q) => p = q
=============================================================================
