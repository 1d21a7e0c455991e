----------------------------- MODULE Supervision -----------------------------
(***************************************************************************)
(* What the supervisor promises about each service, without saying how:    *)
(* one run at a time, run generations that only grow, no launch of a       *)
(* service the operator turned off, and a stop that is never taken back.   *)
(* Scheduler.tla implements it.                                            *)
(***************************************************************************)
EXTENDS Naturals

CONSTANT Services

VARIABLE life    \* per service, what the operator wants and where its run is

Life ==
  [wanted : {"enabled", "disabled"}, phase : {"down", "up", "stopping"}, generation : Nat]

Init ==
  /\ life \in [Services -> Life]
  /\ \A s \in Services : life[s].phase = "down" /\ life[s].generation = 0

\* A run starts only when it is wanted and no other run exists.
Launch(l, m) ==
  /\ l.wanted = "enabled" /\ l.phase = "down"
  /\ m = [wanted |-> "enabled", phase |-> "up", generation |-> l.generation + 1]

\* An attempt to start that fails still uses up its generation.
FailToLaunch(l, m) ==
  /\ l.wanted = "enabled" /\ l.phase = "down"
  /\ m = [l EXCEPT !.generation = @ + 1]

\* From here on the run can only end.
Stopped(phase) == IF phase = "up" THEN "stopping" ELSE phase
Stop(l, m) == m = [l EXCEPT !.phase = Stopped(@)]

Reap(l, m) ==
  /\ l.phase # "down"
  /\ m = [l EXCEPT !.phase = "down"]

\* Turning a service off, or restarting it, stops its run; turning it on does
\* not rescue a run that is already stopping.
Turn(l, wanted) ==
  [wanted |-> wanted, phase |-> Stopped(l.phase), generation |-> l.generation]
TurnOff(l, m) == m = Turn(l, "disabled")
TurnOn(l, m) == m = Turn(l, "enabled")

ServiceStep(l, m) ==
  \/ m = l
  \/ Launch(l, m)
  \/ FailToLaunch(l, m)
  \/ Stop(l, m)
  \/ Reap(l, m)
  \/ TurnOff(l, m)
  \/ TurnOn(l, m)

\* One command may touch several services at once.
Next ==
  /\ DOMAIN life' = Services
  /\ \A s \in Services : ServiceStep(life[s], life'[s])

Spec == Init /\ [][Next]_life
=============================================================================
