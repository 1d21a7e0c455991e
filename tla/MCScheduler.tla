----------------------------- MODULE MCScheduler -----------------------------
(* Instances of Scheduler for TLC. *)
EXTENDS Scheduler, TLC

CONSTANTS db, web, none

OneService == {db}
Pair == {db, web}

OnFailure(n) == [kind |-> "on-failure", max |-> n]
Always == [kind |-> "always", max |-> none]
Never == [kind |-> "never", max |-> none]
DependsOn(s, c) == [service |-> s, condition |-> c]

\* The dependent is declared first, so that starting both in one pass takes
\* more than one round.
WebFirst(dbPolicy, webPolicy, condition) ==
  [order |-> <<web, db>>,
   restart |-> (db :> dbPolicy @@ web :> webPolicy),
   deps |-> (db :> {} @@ web :> {DependsOn(db, condition)})]

Alone(p) == [order |-> <<db>>, restart |-> (db :> p), deps |-> (db :> {})]

LifeConfigs == {Alone(OnFailure(1)), Alone(OnFailure(2)), Alone(Always)}
FairConfigs == {Alone(OnFailure(1))}
PairConfigs ==
  {WebFirst(OnFailure(1), Always, "started"), WebFirst(Always, Never, "healthy"),
   WebFirst(OnFailure(1), Always, "completed")}

TwoEach == [s \in Services |-> 2]
ThreeEach == [s \in Services |-> 3]
DbTwice == [s \in Services |-> IF s = db THEN 2 ELSE 1]

\* What the runs, and the token of the session, do while the scheduler is in a
\* pass is not seen by the pass, so it may as well come after it; and nothing
\* of interest comes after the end.
Reduction ==
  /\ pc # "done"
  /\ pc \in {"pass", "cancel"} => UNCHANGED <<inbox, shutdown>>
  /\ pc = "drain" => UNCHANGED shutdown

\* Readers end when nothing else of their service is in flight, and at most
\* one event of each service is queued; the session is not shut down.
Focus ==
  /\ Reduction
  /\ ~shutdown' /\ pc' # "cancel"
  /\ \A s \in Services : Len(inbox'[s]) <= 1
  /\ \A s \in Services :
       LET ended == readers[s] \ readers'[s]
       IN  ended # {} => inbox[s] = <<>> /\ ended \cap live[s] = {}

\* No backoff ends while the scheduler is in a pass.
QuickPass ==
  pc = "pass" =>
    \A s \in Services : rt'[s].timer = "due" => rt[s].timer = "due"
=============================================================================
