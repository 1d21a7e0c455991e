------------------------------ MODULE ToolProofs ------------------------------
(***************************************************************************)
(* What the tools of the MCP server report.                                *)
(*                                                                         *)
(* start_session and stop_session report to have done what took place.     *)
(* Both know sessions by process ids, which are used again; the proof is   *)
(* about the moments at which an id can be trusted.  A child that nobody   *)
(* has waited for keeps its id, so another session that answers with that  *)
(* id is none (`Starting`); and what a watch was opened on is the session  *)
(* that answered, or that session has already exited (`Stopping`).         *)
(*                                                                         *)
(* A waiting tool answers about one run.  Runs are numbered as they begin  *)
(* and each leaves its exit (`Numbered`), so what was seen of a run stays  *)
(* true of it (`SawOneRun`); and the log that a restart is to clear is not *)
(* shown again once a later run has begun (`ClearedFor`).                  *)
(***************************************************************************)
EXTENDS SessionStart, Waits, FiniteSetTheorems, SequenceTheorems, TLAPS

Lives == {"none", "loading", "serving", "stopping", "draining", "zombie", "gone"}
Seen == [RuntimeDirs -> Processes \cup {Absent, Unusable, "unprobed"}]

ProcessRecords ==
  [life : Lives, pid : Pids \cup {0}, dir : RuntimeDirs \cup {0}, parent : Starts \cup {Nobody}]
StartRecords ==
  [pc : {"check", "spawn", "poll", "probe", "done"}, seen : Seen,
   child : Processes \cup {0}, reaped : BOOLEAN, pid : Pids \cup {0},
   result : {"none", "started", "already", "ambiguous", "unreachable", "failed"},
   named : Processes \cup {0}]
StopRecords ==
  [pc : {"resolve", "watch", "send", "wait", "done"}, seen : Seen,
   named : Processes \cup {0}, watch : {"none", "pid", "exited"} \cup Processes,
   result : {"none", "stopped", "unresolved", "failed", "unconfirmed"}]

TypeOK ==
  /\ process \in [Processes -> ProcessRecords]
  /\ start \in [Starts -> StartRecords]
  /\ stop \in [Stops -> StopRecords]

\* A process id is one process's until that is reaped.
HasId(p) == Living(p) \/ Is(p, "zombie")
DistinctIds ==
  \A p, q \in Processes : HasId(p) /\ HasId(q) /\ process[p].pid = process[q].pid => p = q

\* The child of a start that is under way, and whom the start can take for it.
Starting(s) ==
  LET this == start[s]
  IN  /\ this.pc \in {"check", "spawn"} => this.child = 0 /\ ~this.reaped
      /\ this.pc \in {"poll", "probe"} =>
           /\ this.child \in Processes /\ ~Is(this.child, "none")
           /\ process[this.child].parent = s
           /\ this.reaped <=> Is(this.child, "gone")
      /\ this.pc = "probe" /\ this.pid # 0 =>
           /\ ~this.reaped /\ this.pid = process[this.child].pid
           /\ \A d \in RuntimeDirs :
                this.seen[d] \in Processes /\ process[this.seen[d]].pid = this.pid
                  => this.seen[d] = this.child
      /\ \A d \in RuntimeDirs : this.seen[d] \in Processes => ~Is(this.seen[d], "none")
      /\ this.pc = "done" =>
           \/ this.result = "started" /\ this.named = this.child
           \/ this.result # "started" /\ (this.child = 0 \/ Is(this.child, "gone"))

\* What a stop watches.
Stopping(s) ==
  LET this == stop[s]
  IN  /\ \A d \in RuntimeDirs : this.seen[d] \in Processes => ~Is(this.seen[d], "none")
      /\ this.pc \in {"watch", "send", "wait"} =>
           this.named \in Processes /\ ~Is(this.named, "none")
      /\ this.pc \in {"send", "wait"} =>
           \/ this.watch = "pid"
           \/ this.watch = "exited" /\ Exited(this.named)
           \/ this.watch \in Processes /\ (this.watch = this.named \/ Exited(this.named))
      /\ this.result # "none" => this.pc = "done"
      /\ this.result = "stopped" => this.named \in Processes /\ Exited(this.named)

IInv ==
  /\ TypeOK /\ DistinctIds
  /\ \A s \in Starts : Starting(s)
  /\ \A s \in Stops : Stopping(s)

-----------------------------------------------------------------------------
(* Processes.                                                               *)

\* Processes are born and age: only its life changes of one that was born, and
\* it does not come back.
Ages ==
  /\ process' \in [Processes -> ProcessRecords]
  /\ DistinctIds'
  /\ \A p \in Processes : ~Is(p, "none") =>
       /\ process'[p].pid = process[p].pid /\ process'[p].parent = process[p].parent
       /\ ~Is(p, "none")'
       /\ Exited(p) => Exited(p)'
       /\ Is(p, "gone") => Is(p, "gone")'

\* The child of a start under way is reaped by nobody else.
Spared(s) ==
  start[s].pc \in {"poll", "probe"} => (process'[start[s].child].life = "gone" <=> Is(start[s].child, "gone"))

\* Nothing changes.
LEMMA Resting == ASSUME TypeOK, DistinctIds, UNCHANGED process PROVE Ages
BY DEF Ages, TypeOK, DistinctIds, HasId, Living, Is, Exited

\* One process goes on to another place of its life.
LEMMA Ageing ==
  ASSUME TypeOK, DistinctIds, NEW p \in Processes, NEW l \in Lives \ {"none"},
         ~Is(p, "none"), Exited(p) => l = "gone", Becomes(p, l)
  PROVE  Ages
<1>1. process' \in [Processes -> ProcessRecords]
  BY DEF TypeOK, Becomes, ProcessRecords
<1>2. \A q \in Processes :
        /\ process'[q].pid = process[q].pid /\ process'[q].parent = process[q].parent
        /\ process'[q].life = IF q = p THEN l ELSE process[q].life
  BY DEF TypeOK, Becomes, ProcessRecords
<1>3. \A q \in Processes : HasId(q)' => HasId(q)
  <2> SUFFICES ASSUME HasId(p)' PROVE HasId(p)
    BY <1>2 DEF HasId, Living, Is
  <2>1. l # "gone" BY <1>2 DEF HasId, Living, Is
  <2>2. process[p].life \in Lives BY DEF TypeOK, ProcessRecords
  <2> QED BY <2>1, <2>2 DEF HasId, Living, Is, Exited, Lives
<1>4. DistinctIds' BY <1>2, <1>3 DEF DistinctIds
<1> QED BY <1>1, <1>2, <1>4 DEF Ages, Is, Exited

\* A process is born, with an id that nobody has.
LEMMA Born ==
  ASSUME SessionStartAssumption, TypeOK, DistinctIds,
         NEW parent \in Starts \cup {Nobody}, NEW dir \in RuntimeDirs, Spawn(parent, dir)
  PROVE  \E p \in Processes :
           /\ Ages /\ Is(p, "none") /\ process'[p].parent = parent /\ process'[p].life = "loading"
           /\ \A q \in Processes \ {p} : process'[q] = process[q]
<1>1. PICK p \in Processes, pid \in FreePids :
        /\ Is(p, "none")
        /\ process' = [process EXCEPT
             ![p] = [life |-> "loading", pid |-> pid, dir |-> dir, parent |-> parent]]
  BY DEF Spawn
<1>2. pid \in Pids /\ \A q \in Processes : HasId(q) => process[q].pid # pid
  BY DEF FreePids, HasId
<1>3. process' \in [Processes -> ProcessRecords]
  BY <1>1, <1>2 DEF TypeOK, ProcessRecords, Lives
<1>4. process'[p] = [life |-> "loading", pid |-> pid, dir |-> dir, parent |-> parent]
  BY <1>1 DEF TypeOK
<1>5. \A q \in Processes \ {p} : process'[q] = process[q]
  BY <1>1 DEF TypeOK
<1>6. DistinctIds'
  BY <1>2, <1>4, <1>5 DEF DistinctIds, HasId, Living, Is
<1>7. Ages
  BY <1>1, <1>3, <1>5, <1>6 DEF Ages, Is, Exited
<1> QED BY <1>1, <1>4, <1>5, <1>7

-----------------------------------------------------------------------------
(* A call that the step is not about.                                       *)

\* A start that does not move, and whose child is not reaped.
LEMMA StartRests ==
  ASSUME TypeOK, NEW s \in Starts, Starting(s), Ages, Spared(s), start'[s] = start[s]
  PROVE  Starting(s)'
<1>1. start[s].seen \in Seen /\ start[s].child \in Processes \cup {0}
  BY DEF TypeOK, StartRecords
<1>2. \A d \in RuntimeDirs : start[s].seen[d] \in Processes =>
        /\ ~Is(start[s].seen[d], "none")'
        /\ process'[start[s].seen[d]].pid = process[start[s].seen[d]].pid
  BY DEF Starting, Ages, Is
<1>3. start[s].pc \in {"poll", "probe"} =>
        /\ start[s].child \in Processes /\ ~Is(start[s].child, "none")'
        /\ process'[start[s].child].parent = s
        /\ process'[start[s].child].pid = process[start[s].child].pid
        /\ start[s].reaped <=> Is(start[s].child, "gone")'
  BY DEF Starting, Ages, Spared, Is
<1>4. start[s].child \in Processes /\ Is(start[s].child, "gone") => Is(start[s].child, "gone")'
  BY DEF Ages, Is
<1>5. start[s].pc = "done" =>
        \/ start[s].result = "started" /\ start[s].named = start[s].child
        \/ start[s].result # "started" /\ (start[s].child = 0 \/ Is(start[s].child, "gone")')
  BY <1>1, <1>4 DEF Starting
<1> QED BY <1>1, <1>2, <1>3, <1>5 DEF Starting, Is

\* A stop that does not move.
LEMMA StopRests ==
  ASSUME TypeOK, NEW s \in Stops, Stopping(s), Ages, stop'[s] = stop[s]
  PROVE  Stopping(s)'
<1>1. stop[s].seen \in Seen
  BY DEF TypeOK, StopRecords
<1>2. \A p \in Processes : (~Is(p, "none") => ~Is(p, "none")') /\ (Exited(p) => Exited(p)')
  BY DEF Ages, Is, Exited
<1>3. stop[s].pc \in {"send", "wait"} => stop[s].named \in Processes
  BY DEF Stopping
<1> QED BY <1>1, <1>2, <1>3 DEF Stopping, Is, Exited

\* What is left to show when only processes move.
LEMMA CallsRest ==
  ASSUME IInv, Ages, \A s \in Starts : Spared(s), UNCHANGED <<start, stop>>
  PROVE  IInv'
<1>1. TypeOK' BY DEF IInv, TypeOK, Ages
<1> QED BY <1>1, StartRests, StopRests DEF IInv, Ages

\* What is left to show of a step of a start,
LEMMA OthersRest ==
  ASSUME IInv, NEW s \in Starts, NEW this \in StartRecords, Ages, start' = [start EXCEPT ![s] = this],
         \A t \in Starts \ {s} : Spared(t), Starting(s)', UNCHANGED stop
  PROVE  IInv'
<1>1. TypeOK' BY DEF IInv, TypeOK, Ages
<1>2. \A t \in Starts \ {s} : start'[t] = start[t] BY DEF IInv, TypeOK
<1> QED BY <1>1, <1>2, StartRests, StopRests DEF IInv, Ages

\* and of a step of a stop.
LEMMA OtherStopsRest ==
  ASSUME IInv, NEW s \in Stops, NEW this \in StopRecords, Ages, stop' = [stop EXCEPT ![s] = this],
         \A t \in Starts : Spared(t), Stopping(s)', UNCHANGED start
  PROVE  IInv'
<1>1. TypeOK' BY DEF IInv, TypeOK, Ages
<1>2. \A t \in Stops \ {s} : stop'[t] = stop[t] BY DEF IInv, TypeOK
<1> QED BY <1>1, <1>2, StartRests, StopRests DEF IInv, Ages

-----------------------------------------------------------------------------
(* Processes on their own.                                                  *)

\* A process goes its way, but is not reaped before its start has returned.
LEMMA AgeingAlone ==
  ASSUME SessionStartAssumption, IInv, NEW p \in Processes, NEW l \in Lives \ {"none"}, Living(p),
         l = "gone" => l = AfterExit(p), Becomes(p, l), UNCHANGED <<start, stop>>
  PROVE  IInv'
<1>1. Ages
  BY Ageing DEF IInv, Living, Is, Exited
<1>2. ASSUME NEW s \in Starts, start[s].pc \in {"poll", "probe"}
      PROVE  process'[start[s].child].life = "gone" <=> Is(start[s].child, "gone")
  <2>1. start[s].child \in Processes /\ process[start[s].child].parent = s
    BY <1>2 DEF IInv, Starting
  <2>2. CASE start[s].child = p
    <3>1. s # Nobody BY DEF SessionStartAssumption
    <3>2. l # "gone" BY <1>2, <2>1, <2>2, <3>1 DEF AfterExit
    <3> QED BY <2>1, <2>2, <3>2 DEF IInv, TypeOK, Becomes, Is, Living, ProcessRecords
  <2>3. CASE start[s].child # p
    BY <2>1, <2>3 DEF IInv, TypeOK, Becomes, Is
  <2> QED BY <2>2, <2>3
<1> QED BY <1>1, <1>2, CallsRest DEF Spared

\* So it does in each of its steps.
LEMMA ProcessStepKeeps ==
  ASSUME SessionStartAssumption, IInv, NEW p \in Processes, ProcessStep(p)
  PROVE  IInv'
<1>1. AfterExit(p) \in {"zombie", "gone"} BY DEF AfterExit
<1>2. PICK l \in {"serving", "stopping", "draining", AfterExit(p)} :
        Living(p) /\ Becomes(p, l) /\ UNCHANGED <<start, stop>>
  BY DEF ProcessStep, ServeFails, BindEndpoint, Interrupt, ReleaseEndpoint, Exit, Living, Is
<1> QED BY <1>1, <1>2, AgeingAlone DEF Lives

\* A session that no tool has spawned.
LEMMA LaunchSessionKeeps ==
  ASSUME SessionStartAssumption, IInv, LaunchSession
  PROVE  IInv'
<1>1. PICK p \in Processes :
        /\ Ages /\ Is(p, "none") /\ process'[p].life = "loading"
        /\ \A q \in Processes \ {p} : process'[q] = process[q]
  BY Born DEF LaunchSession, IInv
<1>2. \A s \in Starts : Spared(s)
  BY <1>1 DEF IInv, Starting, Spared, Is
<1> QED BY <1>1, <1>2, CallsRest DEF LaunchSession

-----------------------------------------------------------------------------
(* Probes.                                                                  *)

\* A probe finds one who holds the lock, or nobody.
LEMMA Probing ==
  ASSUME SessionStartAssumption, NEW seen \in Seen, NEW after \in Probed(seen)
  PROVE  /\ after \in Seen
         /\ \A d \in RuntimeDirs :
              after[d] \in Processes => after[d] = seen[d] \/ HoldsLock(after[d])
<1>1. PICK d \in RuntimeDirs : \E result \in Results(d) : after = [seen EXCEPT ![d] = result]
  BY DEF Probed
<1>0. PICK result \in Results(d) : after = [seen EXCEPT ![d] = result] BY <1>1
<1>2. after \in Seen BY <1>0 DEF Seen, Results, Owner
<1>3. \A e \in RuntimeDirs : after[e] = IF e = d THEN result ELSE seen[e]
  BY <1>0 DEF Seen
<1>4. result \in Owner(d) \cup {Absent, Unusable} BY <1>0 DEF Results
<1> QED BY <1>2, <1>3, <1>4 DEF Owner, HoldsLock, SessionStartAssumption, Absent, Unusable

\* Nothing was probed yet.
LEMMA UnprobedSeen ==
  ASSUME SessionStartAssumption
  PROVE  Unprobed \in Seen /\ \A d \in RuntimeDirs : Unprobed[d] \notin Processes
BY DEF Unprobed, Seen, SessionStartAssumption

\* Another child that answers with the child's id while that has it is the child.
LEMMA ProbeForStartKeeps ==
  ASSUME SessionStartAssumption, IInv, NEW s \in Starts, ProbeForStart(s)
  PROVE  IInv'
<1> DEFINE this == start[s]
<1>1. this \in StartRecords /\ Starting(s) BY DEF IInv, TypeOK
<1>2. PICK seen \in Probed(this.seen) : start' = [start EXCEPT ![s].seen = seen]
  BY DEF ProbeForStart
<1>3. /\ seen \in Seen
      /\ \A d \in RuntimeDirs :
           seen[d] \in Processes => seen[d] = this.seen[d] \/ HoldsLock(seen[d])
  BY <1>1, <1>2, Probing DEF StartRecords
<1> DEFINE that == [this EXCEPT !.seen = seen]
<1>4. that \in StartRecords /\ start' = [start EXCEPT ![s] = that]
  BY <1>1, <1>2, <1>3 DEF StartRecords
<1>5. Ages BY Resting DEF IInv, ProbeForStart
<1>6. \A t \in Starts : Spared(t) BY DEF Spared, Is, ProbeForStart
<1>7. \A d \in RuntimeDirs : seen[d] \in Processes => ~Is(seen[d], "none")
  BY <1>1, <1>3 DEF Starting, HoldsLock, Is
<1>8. ASSUME this.pc = "probe", this.pid # 0, NEW d \in RuntimeDirs,
             seen[d] \in Processes, process[seen[d]].pid = this.pid
      PROVE  seen[d] = this.child
  <2>1. /\ this.child \in Processes /\ ~Is(this.child, "none") /\ ~Is(this.child, "gone")
        /\ this.pid = process[this.child].pid
    BY <1>1, <1>8 DEF Starting
  <2>2. HasId(this.child)
    BY <2>1 DEF IInv, TypeOK, ProcessRecords, Lives, HasId, Living, Is
  <2>3. CASE seen[d] = this.seen[d] BY <1>1, <1>8, <2>3 DEF Starting
  <2>4. CASE HoldsLock(seen[d])
    BY <1>8, <2>1, <2>2, <2>4 DEF IInv, DistinctIds, HasId, Living, HoldsLock
  <2> QED BY <1>3, <1>8, <2>3, <2>4
<1>9. this.pc \in {"check", "probe"} BY DEF ProbeForStart
<1>10. /\ start'[s].pc = this.pc /\ start'[s].child = this.child /\ start'[s].reaped = this.reaped
       /\ start'[s].pid = this.pid /\ start'[s].seen = seen
  BY <1>1, <1>2 DEF IInv, TypeOK, StartRecords
<1>11. UNCHANGED <<process, stop>> BY DEF ProbeForStart
<1>12. Starting(s)'
  BY <1>1, <1>7, <1>8, <1>9, <1>10, <1>11 DEF Starting, Is
<1> HIDE DEF this, that
<1> QED BY <1>4, <1>5, <1>6, <1>11, <1>12, OthersRest

-----------------------------------------------------------------------------
(* A start's return.                                                        *)

\* It returns without a child, with one that it names, or with one that is gone.
LEMMA ReturnKeeps ==
  ASSUME SessionStartAssumption, IInv, NEW s \in Starts, start[s].pc # "done",
         NEW kills \in BOOLEAN, NEW named \in Processes \cup {0},
         NEW result \in {"started", "already", "ambiguous", "unreachable", "failed"},
         start[s].child # 0 =>
           /\ start[s].pc \in {"poll", "probe"}
           /\ result = "started" => named = start[s].child
           /\ result # "started" => kills \/ start[s].reaped,
         start[s].child = 0 => result # "started",
         Return(s, kills, result, named), UNCHANGED stop
  PROVE  IInv'
<1> DEFINE child == start[s].child
           that == [NewStart EXCEPT !.pc = "done", !.child = child, !.result = result,
                                    !.named = named]
<1>1. /\ start[s] \in StartRecords /\ Starting(s)
      /\ child \in Processes \cup {0} /\ 0 \notin Processes
  BY DEF IInv, TypeOK, StartRecords, SessionStartAssumption
<1>2. that \in StartRecords /\ start' = [start EXCEPT ![s] = that]
  BY <1>1, UnprobedSeen DEF Return, NewStart, StartRecords
<1>3. start'[s] = that /\ that.seen = Unprobed /\ that.pc = "done" /\ that.child = child
        /\ that.result = result /\ that.named = named
  BY <1>2 DEF IInv, TypeOK, NewStart
<1>4. child # 0 => ~Is(child, "none") /\ process[child].parent = s /\ (start[s].reaped => Is(child, "gone"))
  BY <1>1 DEF Starting
<1>5. \/ UNCHANGED process /\ ~(child # 0 /\ kills)
      \/ child # 0 /\ Becomes(child, "gone")
  BY DEF Return, Becomes
<1>6. Ages
  <2>1. CASE UNCHANGED process BY <2>1, Resting DEF IInv
  <2>2. CASE child # 0 /\ Becomes(child, "gone")
    BY <1>1, <1>4, <2>2, Ageing DEF IInv, Lives
  <2> QED BY <1>5, <2>1, <2>2
<1>7. ASSUME NEW t \in Starts \ {s} PROVE Spared(t)
  <2>1. CASE UNCHANGED process BY <2>1 DEF Spared, Is
  <2>2. CASE child # 0 /\ Becomes(child, "gone")
    <3>1. start[t].pc \in {"poll", "probe"} =>
            start[t].child \in Processes /\ process[start[t].child].parent = t
      BY DEF IInv, Starting
    <3> QED BY <1>4, <2>2, <3>1 DEF IInv, TypeOK, Becomes, Is, Spared
  <2> QED BY <1>5, <2>1, <2>2
<1>8. child = 0 \/ result = "started" \/ process'[child].life = "gone"
  <2>1. CASE UNCHANGED process /\ ~(child # 0 /\ kills) BY <1>4, <2>1 DEF Is
  <2>2. CASE child # 0 /\ Becomes(child, "gone")
    BY <1>1, <2>2 DEF IInv, TypeOK, Becomes, Is, ProcessRecords
  <2> QED BY <1>5, <2>1, <2>2
<1>9. Starting(s)'
  BY <1>1, <1>3, <1>8, UnprobedSeen DEF Starting, Is
<1> HIDE DEF that
<1> QED BY <1>2, <1>6, <1>7, <1>9, OthersRest

\* The one that answered is a process.
LEMMA TheOneAnswered ==
  ASSUME NEW seen, Answering(seen) # {}
  PROVE  TheOne(seen) \in Answering(seen) /\ TheOne(seen) \in Processes
BY DEF TheOne, Answering

\* The check before a start.
LEMMA CheckKeeps ==
  ASSUME SessionStartAssumption, IInv, NEW s \in Starts, Check(s)
  PROVE  IInv'
<1> DEFINE this == start[s]
           that == [this EXCEPT !.pc = "spawn"]
<1>1. this \in StartRecords /\ Starting(s) /\ this.pc = "check" /\ this.child = 0 /\ UNCHANGED stop
  BY DEF IInv, TypeOK, Check, Starting
<1>2. CASE start' = [start EXCEPT ![s].pc = "spawn"] /\ UNCHANGED process
  <2>1. that \in StartRecords /\ start' = [start EXCEPT ![s] = that]
    BY <1>1, <1>2 DEF StartRecords
  <2>2. Ages BY <1>2, Resting DEF IInv
  <2>3. \A t \in Starts : Spared(t) BY <1>2 DEF Spared, Is
  <2>4. start'[s] = that BY <2>1 DEF IInv, TypeOK
  <2>5. that.pc = "spawn" /\ that.child = 0 /\ that.seen = this.seen
    BY <1>1 DEF StartRecords
  <2>6. Starting(s)'
    BY <1>1, <1>2, <2>4, <2>5 DEF Starting, Is
  <2> HIDE DEF that
  <2> QED BY <1>1, <2>1, <2>2, <2>3, <2>6, OthersRest
<1>3. ASSUME NEW result \in {"already", "ambiguous", "unreachable"},
             NEW named \in Processes \cup {0}, Return(s, FALSE, result, named)
      PROVE  IInv'
  BY <1>1, <1>3, ReturnKeeps
<1>4. Answering(this.seen) # {} => TheOne(this.seen) \in Processes
  BY TheOneAnswered
<1> HIDE DEF this
<1>5. \/ Return(s, FALSE, "ambiguous", 0) \/ Return(s, FALSE, "unreachable", 0)
      \/ Answering(this.seen) # {} /\ Return(s, FALSE, "already", TheOne(this.seen))
      \/ start' = [start EXCEPT ![s].pc = "spawn"] /\ UNCHANGED process
  BY DEF Check, this
<1> QED BY <1>2, <1>3, <1>4, <1>5

\* The child is born.
LEMMA SpawnServeKeeps ==
  ASSUME SessionStartAssumption, IInv, NEW s \in Starts, SpawnServe(s)
  PROVE  IInv'
<1> DEFINE this == start[s]
<1>1. /\ this \in StartRecords /\ Starting(s) /\ this.pc = "spawn" /\ this.child = 0
      /\ ~this.reaped /\ UNCHANGED stop
  BY DEF IInv, TypeOK, SpawnServe, Starting
<1>2. CASE Return(s, FALSE, "failed", 0)
  BY <1>1, <1>2, ReturnKeeps
<1>3. ASSUME Spawn(s, RuntimeDir),
             start' = [start EXCEPT ![s].pc = "poll",
               ![s].child = CHOOSE p \in Processes : Is(p, "none") /\ process'[p].life # "none"]
      PROVE  IInv'
  <2>1. PICK p \in Processes :
          /\ Ages /\ Is(p, "none") /\ process'[p].parent = s /\ process'[p].life = "loading"
          /\ \A q \in Processes \ {p} : process'[q] = process[q]
    BY <1>3, Born DEF IInv, SessionStartAssumption
  <2> DEFINE born == CHOOSE q \in Processes : Is(q, "none") /\ process'[q].life # "none"
  <2>9. start' = [start EXCEPT ![s].pc = "poll", ![s].child = born]
    BY <1>3
  <2>2. born = p
    BY <2>1 DEF Is
  <2> HIDE DEF born
  <2> DEFINE that == [this EXCEPT !.pc = "poll", !.child = p]
  <2>3. that \in StartRecords /\ start' = [start EXCEPT ![s] = that]
    BY <1>1, <2>2, <2>9 DEF StartRecords
  <2>4. \A t \in Starts \ {s} : Spared(t)
    BY <2>1 DEF IInv, Starting, Spared, Is
  <2>5. start'[s] = that BY <2>3 DEF IInv, TypeOK
  <2>6. that.pc = "poll" /\ that.child = p /\ that.seen = this.seen /\ that.reaped = this.reaped
    BY <1>1 DEF StartRecords
  <2>7. \A d \in RuntimeDirs : this.seen[d] \in Processes => process'[this.seen[d]].life # "none"
    BY <1>1, <2>1 DEF Starting, Ages, Is
  <2>8. Starting(s)'
    BY <1>1, <2>1, <2>5, <2>6, <2>7 DEF Starting, Is
  <2> HIDE DEF that
  <2> QED BY <1>1, <2>1, <2>3, <2>4, <2>8, OthersRest
<1> QED BY <1>2, <1>3 DEF SpawnServe

\* try_wait: a child that has exited is reaped, and its id is not trusted.
LEMMA TryWaitKeeps ==
  ASSUME SessionStartAssumption, IInv, NEW s \in Starts, TryWait(s)
  PROVE  IInv'
<1> DEFINE this == start[s]
           child == this.child
           reaped == this.reaped \/ Is(child, "zombie")
           that == [this EXCEPT !.pc = "probe", !.seen = Unprobed, !.reaped = reaped,
                                !.pid = ChildPid(s, reaped)]
<1>1. /\ this \in StartRecords /\ Starting(s) /\ this.pc = "poll" /\ UNCHANGED stop
      /\ child \in Processes /\ ~Is(child, "none") /\ process[child].parent = s
      /\ this.reaped <=> Is(child, "gone")
  BY DEF IInv, TypeOK, TryWait, Starting
<1>2. ChildPid(s, reaped) \in Pids \cup {0}
  BY <1>1 DEF ChildPid, IInv, TypeOK, ProcessRecords
<1>3. reaped \in BOOLEAN BY <1>1 DEF StartRecords
<1>4. that \in StartRecords /\ start' = [start EXCEPT ![s] = that]
  BY <1>1, <1>2, <1>3, UnprobedSeen DEF StartRecords, TryWait
<1>5. start'[s] = that BY <1>4 DEF IInv, TypeOK
<1>6. /\ that.pc = "probe" /\ that.child = child /\ that.seen = Unprobed
      /\ that.reaped = reaped /\ that.pid = ChildPid(s, reaped)
  BY <1>1 DEF StartRecords
<1>7. \/ Is(child, "zombie") /\ Becomes(child, "gone")
      \/ ~Is(child, "zombie") /\ UNCHANGED process
  BY DEF TryWait, Becomes
<1>8. Ages
  <2>1. CASE Is(child, "zombie") /\ Becomes(child, "gone")
    BY <1>1, <2>1, Ageing DEF IInv, Lives
  <2>2. CASE UNCHANGED process BY <2>2, Resting DEF IInv
  <2> QED BY <1>7, <2>1, <2>2
<1>9. ASSUME NEW t \in Starts \ {s} PROVE Spared(t)
  <2>1. CASE UNCHANGED process BY <2>1 DEF Spared, Is
  <2>2. CASE Becomes(child, "gone")
    <3>1. start[t].pc \in {"poll", "probe"} =>
            start[t].child \in Processes /\ process[start[t].child].parent = t
      BY DEF IInv, Starting
    <3> QED BY <1>1, <2>2, <3>1 DEF IInv, TypeOK, Becomes, Is, Spared
  <2> QED BY <1>7, <2>1, <2>2
<1>10. reaped <=> process'[child].life = "gone"
  BY <1>1, <1>7 DEF IInv, TypeOK, Becomes, Is, ProcessRecords
<1>11. /\ process'[child].life # "none" /\ process'[child].parent = s
       /\ process'[child].pid = process[child].pid
  BY <1>1, <1>8 DEF Ages, Is
<1>12. that.pid # 0 => ~reaped /\ that.pid = process[child].pid
  BY <1>6 DEF ChildPid
<1> HIDE DEF that, reaped
<1>13. Starting(s)'
  BY <1>1, <1>5, <1>6, <1>10, <1>11, <1>12, UnprobedSeen DEF Starting, Is
<1> QED BY <1>1, <1>4, <1>8, <1>9, <1>13, OthersRest

\* One that answers with the id of the child that is not reaped is the child.
LEMMA JudgeKeeps ==
  ASSUME SessionStartAssumption, IInv, NEW s \in Starts, Judge(s)
  PROVE  IInv'
<1> DEFINE this == start[s]
           named == TheOne(this.seen)
           kills == ~this.reaped
           ours == this.pid # 0 /\ this.pid = process[named].pid
<1>1. /\ this \in StartRecords /\ Starting(s) /\ this.pc = "probe" /\ UNCHANGED stop
      /\ this.child \in Processes /\ this.child # 0
  BY DEF IInv, TypeOK, Judge, Starting, SessionStartAssumption
<1>2. kills \in BOOLEAN /\ ours \in BOOLEAN OBVIOUS
<1>3. CASE Answering(this.seen) # {} /\
             Return(s, kills /\ ~ours, IF ours THEN "started" ELSE "already", named)
  <2>1. named \in Answering(this.seen) /\ named \in Processes BY <1>3, TheOneAnswered
  <2>2. ours => named = this.child
    <3>1. PICK d \in RuntimeDirs : named = this.seen[d] BY <2>1 DEF Answering
    <3> QED BY <1>1, <2>1, <3>1 DEF Starting
  <2> HIDE DEF named, ours
  <2>3. CASE ours
    <3>1. Return(s, FALSE, "started", named) BY <1>3, <2>3
    <3> QED BY <1>1, <2>1, <2>2, <2>3, <3>1, ReturnKeeps
  <2>4. CASE ~ours
    <3>1. Return(s, kills, "already", named) BY <1>2, <1>3, <2>4
    <3> QED BY <1>1, <1>2, <2>1, <3>1, ReturnKeeps
  <2> QED BY <2>3, <2>4
<1>4. ASSUME NEW result \in {"ambiguous", "failed"}, Return(s, kills, result, 0)
      PROVE  IInv'
  BY <1>1, <1>2, <1>4, ReturnKeeps
<1>5. CASE start' = [start EXCEPT ![s].pc = "poll"] /\ UNCHANGED process
  <2> DEFINE that == [this EXCEPT !.pc = "poll"]
  <2>1. that \in StartRecords /\ start' = [start EXCEPT ![s] = that]
    BY <1>1, <1>5 DEF StartRecords
  <2>2. Ages BY <1>5, Resting DEF IInv
  <2>3. \A t \in Starts : Spared(t) BY <1>5 DEF Spared, Is
  <2>4. start'[s] = that BY <2>1 DEF IInv, TypeOK
  <2>5. that.pc = "poll" /\ that.child = this.child /\ that.seen = this.seen
          /\ that.reaped = this.reaped
    BY <1>1 DEF StartRecords
  <2>6. Starting(s)' BY <1>1, <1>5, <2>4, <2>5 DEF Starting, Is
  <2> HIDE DEF that
  <2> QED BY <1>1, <2>1, <2>2, <2>3, <2>6, OthersRest
<1>6. Cardinality(Answering(this.seen)) = 1 => Answering(this.seen) # {}
  BY FS_EmptySet
<1>7. \/ Return(s, kills, "ambiguous", 0) \/ Return(s, kills, "failed", 0)
      \/ start' = [start EXCEPT ![s].pc = "poll"] /\ UNCHANGED process
      \/ Cardinality(Answering(this.seen)) = 1
           /\ Return(s, kills /\ ~ours, IF ours THEN "started" ELSE "already", named)
  BY DEF Judge
<1> QED BY <1>3, <1>4, <1>5, <1>6, <1>7

-----------------------------------------------------------------------------
(* Stops.                                                                   *)

\* A stop moves, and processes rest.
LEMMA StopAlone ==
  ASSUME IInv, NEW s \in Stops, NEW that \in StopRecords, stop' = [stop EXCEPT ![s] = that],
         Stopping(s)', UNCHANGED <<process, start>>
  PROVE  IInv'
<1>1. Ages BY Resting DEF IInv
<1>2. \A t \in Starts : Spared(t) BY DEF Spared, Is
<1> QED BY <1>1, <1>2, OtherStopsRest

\* A stop is over.
LEMMA Finishing ==
  ASSUME SessionStartAssumption, IInv, NEW s \in Stops,
         NEW result \in {"stopped", "unresolved", "failed", "unconfirmed"}, Finish(s, result)
  PROVE  \E that \in StopRecords :
           /\ stop' = [stop EXCEPT ![s] = that]
           /\ that.pc = "done" /\ that.named = stop[s].named /\ that.result = result
           /\ that.seen = Unprobed
<1> DEFINE that == [NewStop EXCEPT !.pc = "done", !.named = stop[s].named, !.result = result]
<1>1. stop[s].named \in Processes \cup {0} BY DEF IInv, TypeOK, StopRecords
<1>2. that \in StopRecords BY <1>1, UnprobedSeen DEF StopRecords, NewStop
<1>3. stop' = [stop EXCEPT ![s] = that] BY DEF Finish
<1>4. that.pc = "done" /\ that.named = stop[s].named /\ that.result = result /\ that.seen = Unprobed
  BY DEF NewStop
<1> HIDE DEF that
<1> QED BY <1>2, <1>3, <1>4

\* It may end without success wherever it is.
LEMMA FinishKeeps ==
  ASSUME SessionStartAssumption, IInv, NEW s \in Stops,
         NEW result \in {"stopped", "unresolved", "failed", "unconfirmed"}, Finish(s, result),
         result = "stopped" => stop[s].named \in Processes /\ Exited(stop[s].named),
         Ages, \A t \in Starts : Spared(t), UNCHANGED start
  PROVE  IInv'
<1>1. PICK that \in StopRecords :
        /\ stop' = [stop EXCEPT ![s] = that]
        /\ that.pc = "done" /\ that.named = stop[s].named /\ that.result = result
        /\ that.seen = Unprobed
  BY Finishing
<1>2. stop'[s] = that BY <1>1 DEF IInv, TypeOK
<1>3. result = "stopped" => that.named \in Processes /\ process'[that.named].life \in {"zombie", "gone"}
  BY <1>1 DEF Ages, Exited, Is
<1>4. Stopping(s)' BY <1>1, <1>2, <1>3, UnprobedSeen DEF Stopping, Exited
<1> QED BY <1>1, <1>4, OtherStopsRest

\* The probes of a stop.
LEMMA ProbeForStopKeeps ==
  ASSUME SessionStartAssumption, IInv, NEW s \in Stops, ProbeForStop(s)
  PROVE  IInv'
<1> DEFINE this == stop[s]
<1>1. this \in StopRecords /\ Stopping(s) /\ this.pc = "resolve" BY DEF IInv, TypeOK, ProbeForStop
<1>2. PICK seen \in Probed(this.seen) : stop' = [stop EXCEPT ![s].seen = seen]
  BY DEF ProbeForStop
<1>3. /\ seen \in Seen
      /\ \A d \in RuntimeDirs :
           seen[d] \in Processes => seen[d] = this.seen[d] \/ HoldsLock(seen[d])
  BY <1>1, <1>2, Probing DEF StopRecords
<1> DEFINE that == [this EXCEPT !.seen = seen]
<1>4. that \in StopRecords /\ stop' = [stop EXCEPT ![s] = that]
  BY <1>1, <1>2, <1>3 DEF StopRecords
<1>5. stop'[s] = that /\ that.seen = seen /\ that.pc = "resolve" /\ that.result = this.result
  BY <1>1, <1>4 DEF IInv, TypeOK, StopRecords
<1>6. \A d \in RuntimeDirs : seen[d] \in Processes => ~Is(seen[d], "none")
  BY <1>1, <1>3 DEF Stopping, HoldsLock, Is
<1>7. UNCHANGED <<process, start>> BY DEF ProbeForStop
<1>8. Stopping(s)' BY <1>1, <1>5, <1>6, <1>7 DEF Stopping, Is, Exited
<1> HIDE DEF that
<1> QED BY <1>4, <1>7, <1>8, StopAlone

\* The session that answered.
LEMMA ResolveKeeps ==
  ASSUME SessionStartAssumption, IInv, NEW s \in Stops, Resolve(s)
  PROVE  IInv'
<1> DEFINE this == stop[s]
           named == TheOne(this.seen)
           that == [this EXCEPT !.pc = "watch", !.named = named]
<1>1. this \in StopRecords /\ Stopping(s) /\ this.pc = "resolve" /\ UNCHANGED <<process, start>>
  BY DEF IInv, TypeOK, Resolve
<1>2. CASE Finish(s, "unresolved")
  <2>1. Ages BY <1>1, Resting DEF IInv
  <2>2. \A t \in Starts : Spared(t) BY <1>1 DEF Spared, Is
  <2> QED BY <1>1, <1>2, <2>1, <2>2, FinishKeeps
<1>3. CASE Cardinality(Answering(this.seen)) = 1
             /\ stop' = [stop EXCEPT ![s].pc = "watch", ![s].named = TheOne(this.seen)]
  <2>1. named \in Answering(this.seen) /\ named \in Processes
    BY <1>3, FS_EmptySet, TheOneAnswered
  <2>2. PICK d \in RuntimeDirs : named = this.seen[d] BY <2>1 DEF Answering
  <2>3. ~Is(named, "none") BY <1>1, <2>1, <2>2 DEF Stopping
  <2> HIDE DEF named
  <2>4. stop' = [stop EXCEPT ![s].pc = "watch", ![s].named = named] BY <1>3 DEF named
  <2>5. that \in StopRecords /\ stop' = [stop EXCEPT ![s] = that]
    BY <1>1, <2>1, <2>4 DEF StopRecords
  <2>6. stop'[s] = that /\ that.pc = "watch" /\ that.named = named /\ that.seen = this.seen
          /\ that.result = this.result
    BY <1>1, <2>5 DEF IInv, TypeOK, StopRecords
  <2>7. Stopping(s)' BY <1>1, <2>1, <2>3, <2>6 DEF Stopping, Is, Exited
  <2> HIDE DEF that
  <2> QED BY <1>1, <2>5, <2>7, StopAlone
<1> QED BY <1>2, <1>3 DEF Resolve

\* The id names the session that answered, or that has exited.
LEMMA WatchKeeps ==
  ASSUME SessionStartAssumption, IInv, NEW s \in Stops, Watch(s)
  PROVE  IInv'
<1> DEFINE this == stop[s]
           pid == process[this.named].pid
<1>1. /\ this \in StopRecords /\ Stopping(s) /\ this.pc = "watch" /\ UNCHANGED <<process, start>>
      /\ this.named \in Processes /\ ~Is(this.named, "none")
  BY DEF IInv, TypeOK, Watch, Stopping
<1>2. PICK watch \in {"pid"} \cup (IF Named(pid) = {} THEN {"exited"} ELSE Named(pid)) :
        stop' = [stop EXCEPT ![s].pc = "send", ![s].watch = watch]
  BY DEF Watch
<1>3. HasId(this.named) \/ Exited(this.named)
  BY <1>1 DEF IInv, TypeOK, ProcessRecords, Lives, HasId, Living, Is, Exited
<1>4. \/ watch = "pid"
      \/ watch = "exited" /\ Exited(this.named)
      \/ watch \in Processes /\ (watch = this.named \/ Exited(this.named))
  <2>1. CASE Named(pid) = {}
    BY <1>1, <1>2, <1>3, <2>1 DEF Named, HasId
  <2>2. CASE Named(pid) # {} /\ watch # "pid"
    <3>1. watch \in Processes /\ HasId(watch) /\ process[watch].pid = pid
      BY <1>2, <2>2 DEF Named, HasId
    <3> QED BY <1>1, <1>3, <3>1 DEF IInv, DistinctIds
  <2> QED BY <2>1, <2>2
<1> DEFINE that == [this EXCEPT !.pc = "send", !.watch = watch]
<1>5. that \in StopRecords /\ stop' = [stop EXCEPT ![s] = that]
  BY <1>1, <1>2, <1>4 DEF StopRecords
<1>6. stop'[s] = that /\ that.pc = "send" /\ that.named = this.named /\ that.seen = this.seen
        /\ that.result = this.result /\ that.watch = watch
  BY <1>1, <1>5 DEF IInv, TypeOK, StopRecords
<1>7. Stopping(s)' BY <1>1, <1>4, <1>6 DEF Stopping, Is, Exited
<1> HIDE DEF that
<1> QED BY <1>1, <1>5, <1>7, StopAlone

\* The request goes to whoever has the lock, and that one stops.
LEMMA SendShutdownKeeps ==
  ASSUME SessionStartAssumption, IInv, NEW s \in Stops, SendShutdown(s)
  PROVE  IInv'
<1> DEFINE this == stop[s]
           that == [this EXCEPT !.pc = "wait"]
<1>1. this \in StopRecords /\ Stopping(s) /\ this.pc = "send" /\ UNCHANGED start
  BY DEF IInv, TypeOK, SendShutdown
<1>2. /\ \/ UNCHANGED process
         \/ \E p \in Processes : HoldsLock(p) /\ Becomes(p, "stopping")
      /\ Finish(s, "failed") \/ stop' = [stop EXCEPT ![s].pc = "wait"]
  BY DEF SendShutdown, Owner, Becomes
<1>3. Ages /\ \A t \in Starts : Spared(t)
  <2>1. CASE UNCHANGED process BY <2>1, Resting DEF IInv, Spared, Is
  <2>2. ASSUME NEW p \in Processes, HoldsLock(p), Becomes(p, "stopping")
        PROVE  Ages /\ \A t \in Starts : Spared(t)
    <3>1. Ages BY <2>2, Ageing DEF IInv, Lives, HoldsLock, Is, Exited
    <3>2. \A t \in Starts : start[t].pc \in {"poll", "probe"} => start[t].child \in Processes
      BY DEF IInv, Starting
    <3> QED BY <2>2, <3>1, <3>2
          DEF IInv, TypeOK, ProcessRecords, Becomes, HoldsLock, Is, Spared
  <2> QED BY <1>2, <2>1, <2>2
<1>4. CASE Finish(s, "failed")
  BY <1>1, <1>3, <1>4, FinishKeeps
<1>5. CASE stop' = [stop EXCEPT ![s].pc = "wait"]
  <2>1. that \in StopRecords /\ stop' = [stop EXCEPT ![s] = that]
    BY <1>1, <1>5 DEF StopRecords
  <2>2. stop'[s] = that /\ that.pc = "wait" /\ that.named = this.named /\ that.seen = this.seen
          /\ that.result = this.result /\ that.watch = this.watch
    BY <1>1, <2>1 DEF IInv, TypeOK, StopRecords
  <2>3. /\ \A d \in RuntimeDirs : this.seen[d] \in Processes => process'[this.seen[d]].life # "none"
        /\ this.named \in Processes /\ process'[this.named].life # "none"
        /\ Exited(this.named) => process'[this.named].life \in {"zombie", "gone"}
    BY <1>1, <1>3 DEF Stopping, Ages, Is, Exited
  <2>4. Stopping(s)' BY <1>1, <2>2, <2>3 DEF Stopping, Is, Exited
  <2> HIDE DEF that
  <2> QED BY <1>1, <1>3, <2>1, <2>4, OtherStopsRest
<1> QED BY <1>2, <1>4, <1>5

\* What the watch takes for an exit is one of the session that answered.
LEMMA ConfirmKeeps ==
  ASSUME SessionStartAssumption, IInv, NEW s \in Stops, Confirm(s)
  PROVE  IInv'
<1> DEFINE this == stop[s]
<1>1. /\ Stopping(s) /\ this.pc = "wait" /\ this.named \in Processes /\ ~Is(this.named, "none")
      /\ HasExited(this.watch, this.named) /\ Finish(s, "stopped") /\ UNCHANGED <<process, start>>
  BY DEF IInv, Confirm, Stopping
<1>2. HasId(this.named) \/ Exited(this.named)
  BY <1>1 DEF IInv, TypeOK, ProcessRecords, Lives, HasId, Living, Is, Exited
<1>3. Exited(this.named)
  <2>1. CASE this.watch = "pid"
    <3>1. this.watch # "exited" /\ this.watch \notin Processes
      BY <2>1 DEF SessionStartAssumption
    <3>2. Named(process[this.named].pid) = {} BY <1>1, <3>1 DEF HasExited
    <3> QED BY <1>1, <1>2, <3>2 DEF Named, HasId
  <2>2. CASE this.watch \in Processes /\ (this.watch = this.named \/ Exited(this.named))
    <3>1. this.watch # "exited" /\ this.watch # "pid"
      BY <2>2 DEF SessionStartAssumption
    <3>2. Exited(this.watch) BY <1>1, <3>1 DEF HasExited
    <3> QED BY <2>2, <3>2
  <2> QED BY <1>1, <2>1, <2>2 DEF Stopping
<1>4. Ages BY <1>1, Resting DEF IInv
<1>5. \A t \in Starts : Spared(t) BY <1>1 DEF Spared, Is
<1> HIDE DEF this
<1> QED BY <1>1, <1>3, <1>4, <1>5, FinishKeeps DEF this

\* A stop that waits no longer.
LEMMA WaitTimesOutKeeps ==
  ASSUME SessionStartAssumption, IInv, NEW s \in Stops, WaitTimesOut(s)
  PROVE  IInv'
<1>1. Finish(s, "unconfirmed") /\ UNCHANGED <<process, start>> BY DEF WaitTimesOut
<1>2. Ages BY <1>1, Resting DEF IInv
<1>3. \A t \in Starts : Spared(t) BY <1>1 DEF Spared, Is
<1> QED BY <1>1, <1>2, <1>3, FinishKeeps

-----------------------------------------------------------------------------
(* The theorems.                                                            *)

\* The invariant holds at first.
LEMMA StartsWell == ASSUME SessionStartAssumption, SessionStartInit PROVE IInv
<1>1. TypeOK
  BY UnprobedSeen DEF SessionStartInit, TypeOK, Unborn, NewStart, NewStop, ProcessRecords,
    StartRecords, StopRecords, Lives
<1>2. DistinctIds BY DEF SessionStartInit, DistinctIds, HasId, Living, Is, Unborn
<1>3. \A s \in Starts : Starting(s) BY UnprobedSeen DEF SessionStartInit, Starting, NewStart
<1>4. \A s \in Stops : Stopping(s) BY UnprobedSeen DEF SessionStartInit, Stopping, NewStop
<1> QED BY <1>1, <1>2, <1>3, <1>4 DEF IInv

\* A step that changes nothing.
LEMMA Standing == ASSUME IInv, UNCHANGED sessionStartVars PROVE IInv'
<1>1. Ages BY Resting DEF IInv, sessionStartVars
<1>2. \A s \in Starts : Spared(s) BY DEF Spared, Is, sessionStartVars
<1> QED BY <1>1, <1>2, CallsRest DEF sessionStartVars

\* Whatever processes and tools do, ids are of one process at a time, and each
\* call knows of its process what `Starting` and `Stopping` say
\* (start_for_target_unchecked, stop_session).
THEOREM Invariance == ASSUME SessionStartAssumption PROVE SessionStartSpec => []IInv
<1>1. SessionStartInit => IInv BY StartsWell
<1>2. IInv /\ [SessionStartNext]_sessionStartVars => IInv'
  <2> SUFFICES ASSUME IInv, [SessionStartNext]_sessionStartVars PROVE IInv'
    OBVIOUS
  <2>1. CASE LaunchSession BY <2>1, LaunchSessionKeeps
  <2>2. CASE \E p \in Processes : ProcessStep(p) BY <2>2, ProcessStepKeeps
  <2>3. CASE \E s \in Starts : StartStep(s)
    BY <2>3, ProbeForStartKeeps, CheckKeeps, SpawnServeKeeps, TryWaitKeeps, JudgeKeeps
      DEF StartStep
  <2>4. CASE \E s \in Stops : StopStep(s)
    BY <2>4, ProbeForStopKeeps, ResolveKeeps, WatchKeeps, SendShutdownKeeps, ConfirmKeeps,
      WaitTimesOutKeeps DEF StopStep
  <2>5. CASE UNCHANGED sessionStartVars BY <2>5, Standing
  <2> QED BY <2>1, <2>2, <2>3, <2>4, <2>5 DEF SessionStartNext
<1> QED BY <1>1, <1>2, PTL DEF SessionStartSpec

\* What start_session and stop_session report to have done took place: a start
\* names its own child or leaves none behind, and a session that is reported as
\* stopped has exited, although ids are used again meanwhile.
THEOREM OutcomesTrueHolds == ASSUME SessionStartAssumption PROVE SessionStartSpec => []OutcomesTrue
<1>1. IInv => OutcomesTrue
  <2> SUFFICES ASSUME IInv PROVE OutcomesTrue OBVIOUS
  <2>1. StartAccounted BY DEF IInv, Starting, StartAccounted
  <2>2. StopMeansGone BY DEF IInv, Stopping, StopMeansGone
  <2> QED BY <2>1, <2>2 DEF OutcomesTrue
<1> QED BY <1>1, Invariance, PTL

-----------------------------------------------------------------------------
(***************************************************************************)
(* The waiting tools: what each change of the service's record leaves as   *)
(* it was.                                                                 *)
(***************************************************************************)

RuntimeFields ==
  {"desired", "startRequested", "clearLogs", "running", "readerHeld", "state",
   "lastRun", "nextRun", "lastExit", "timer", "delay", "remaining", "draining",
   "blockedOn"}

\* Two records agree in the runs that a service has had, and the second is as
\* good a record.
SameRuns(r, q) ==
  /\ DOMAIN q = RuntimeFields
  /\ q.running = r.running /\ q.nextRun = r.nextRun
  /\ q.lastRun = r.lastRun /\ q.lastExit = r.lastExit

\* What each change of a service's record leaves of those.
LEMMA NewRuntimeFields ==
  ASSUME NEW p
  PROVE  LET q == R!NewRuntime(TRUE, p)
         IN  /\ DOMAIN q = RuntimeFields
             /\ q.running = 0 /\ q.nextRun = 0 /\ q.lastRun = 0
             /\ q.state = "pending" /\ q.clearLogs = FALSE
BY DEF R!NewRuntime, R!NoRun, RuntimeFields

LEMMA RestartFields ==
  ASSUME NEW r, DOMAIN r = RuntimeFields, NEW p
  PROVE  LET q == R!RequestRestart(r, p)
         IN  SameRuns(r, q) /\ q.clearLogs = TRUE /\ (q.state = "healthy" => q.state = r.state)
BY DEF R!RequestRestart, R!ResetFailureBudget, R!ClearBackoff, RuntimeFields, SameRuns

LEMMA EnableFields ==
  ASSUME NEW r, DOMAIN r = RuntimeFields, NEW p
  PROVE  LET q == R!RequestEnable(r, p)
         IN  SameRuns(r, q) /\ (q.state = "healthy" => q.state = r.state)
BY DEF R!RequestEnable, R!EnableIsNoOp, R!ResetFailureBudget, R!ClearBackoff,
       RuntimeFields, SameRuns

LEMMA DisableFields ==
  ASSUME NEW r, DOMAIN r = RuntimeFields
  PROVE  SameRuns(r, R!Disable(r)) /\ R!Disable(r).state = "disabled"
BY DEF R!Disable, R!ClearBackoff, RuntimeFields, SameRuns

LEMMA MarkHealthFields ==
  ASSUME NEW r, DOMAIN r = RuntimeFields, NEW health
  PROVE  LET q == R!MarkHealth(r, health)
         IN  /\ SameRuns(r, q) /\ q.clearLogs = r.clearLogs
             /\ q.state \in {r.state, health}
BY DEF R!MarkHealth, RuntimeFields, SameRuns

LEMMA FinishFields ==
  ASSUME NEW r, DOMAIN r = RuntimeFields, NEW p, NEW outcome, NEW run
  PROVE  LET q == R!FinishRunState(r, p, outcome, run, FALSE)
         IN  /\ DOMAIN q = RuntimeFields
             /\ q.running = r.running /\ q.nextRun = r.nextRun
             /\ q.lastRun = run /\ q.lastExit = outcome
             /\ q.clearLogs = r.clearLogs /\ q.state \in {"disabled", "exited"}
BY DEF R!FinishRunState, R!ApplyBackoff, R!ResetFailureBudget, R!ClearBackoff, RuntimeFields

LEMMA FinishCurrentFields ==
  ASSUME NEW r, DOMAIN r = RuntimeFields, NEW p, NEW outcome
  PROVE  LET q == R!FinishCurrentRun(r, p, outcome, FALSE)
         IN  /\ DOMAIN q = RuntimeFields
             /\ q.running = 0 /\ q.nextRun = r.nextRun
             /\ q.lastRun = r.running /\ q.lastExit = outcome
             /\ q.clearLogs = r.clearLogs /\ q.state \in {"disabled", "exited"}
<1> DEFINE freed == [r EXCEPT !.running = 0, !.readerHeld = FALSE,
                       !.draining = IF r.readerHeld THEN r.draining \cup {r.running}
                                    ELSE r.draining]
<1>1. /\ DOMAIN freed = RuntimeFields /\ freed.running = 0
      /\ freed.nextRun = r.nextRun /\ freed.clearLogs = r.clearLogs
  BY DEF RuntimeFields
<1>2. R!FinishCurrentRun(r, p, outcome, FALSE)
        = R!FinishRunState(freed, p, outcome, r.running, FALSE)
  BY DEF R!FinishCurrentRun, R!NoRun
<1> HIDE DEF freed
<1> DEFINE q == R!FinishRunState(freed, p, outcome, r.running, FALSE)
<1>3. /\ DOMAIN q = RuntimeFields
      /\ q.running = freed.running /\ q.nextRun = freed.nextRun
      /\ q.lastRun = r.running /\ q.lastExit = outcome
      /\ q.clearLogs = freed.clearLogs /\ q.state \in {"disabled", "exited"}
  BY <1>1, FinishFields, Zenon
<1> HIDE DEF q
<1> QED BY <1>1, <1>2, <1>3 DEF q

StartedFrom(r, up) ==
  /\ DOMAIN up = RuntimeFields
  /\ up.running = r.nextRun + 1 /\ up.nextRun = r.nextRun + 1
  /\ up.lastRun = r.lastRun /\ up.lastExit = r.lastExit
  /\ up.state = "running" /\ up.clearLogs = FALSE

FailedFrom(r, failed) ==
  /\ DOMAIN failed = RuntimeFields
  /\ failed.running = r.running /\ failed.nextRun = r.nextRun + 1
  /\ failed.lastRun = r.nextRun + 1 /\ failed.lastExit = "failure"
  /\ failed.state \in {"disabled", "exited"} /\ failed.clearLogs = FALSE

LEMMA StartFields ==
  ASSUME NEW r, DOMAIN r = RuntimeFields, NEW p
  PROVE  /\ StartedFrom(r, R!StartedRun(r, p))
         /\ FailedFrom(r, R!FailedStart(r, p))
<1> DEFINE begun == R!BeginStart(r, p)
<1>1. /\ DOMAIN begun = RuntimeFields
      /\ begun.running = r.running /\ begun.nextRun = r.nextRun + 1
      /\ begun.lastRun = r.lastRun /\ begun.lastExit = r.lastExit
      /\ begun.clearLogs = FALSE
  BY DEF R!BeginStart, R!DecrementFailureBudget, RuntimeFields
<1>2. /\ R!StartedRun(r, p) =
           [begun EXCEPT !.running = begun.nextRun, !.readerHeld = TRUE, !.state = "running"]
      /\ R!FailedStart(r, p) = R!FinishRunState(begun, p, "failure", begun.nextRun, FALSE)
  BY DEF R!StartedRun, R!FailedStart
<1> HIDE DEF begun
<1> DEFINE q == R!FinishRunState(begun, p, "failure", begun.nextRun, FALSE)
<1>3. /\ DOMAIN q = RuntimeFields
      /\ q.running = begun.running /\ q.nextRun = begun.nextRun
      /\ q.lastRun = begun.nextRun /\ q.lastExit = "failure"
      /\ q.clearLogs = begun.clearLogs /\ q.state \in {"disabled", "exited"}
  BY <1>1, FinishFields, Zenon
<1> HIDE DEF q
<1>4. StartedFrom(r, R!StartedRun(r, p))  BY <1>1, <1>2 DEF StartedFrom, RuntimeFields
<1>5. FailedFrom(r, q)  BY <1>1, <1>3 DEF FailedFrom
<1>6. R!FailedStart(r, p) = q  BY <1>2 DEF q
<1> QED BY <1>4, <1>5, <1>6

-----------------------------------------------------------------------------
(***************************************************************************)
(* The invariant of a wait.                                                *)
(***************************************************************************)

CallFields ==
  {"tool", "stage", "cursor", "after", "command", "snapshot", "outcome",
   "attempt", "logs", "disturbed"}
Stages == {"idle", "cursor", "mutate", "poll", "health", "logs", "over"}
Answers == {"healthy", "exited", "timeout"}

\* Runs are numbered as they begin, and each leaves its exit.
Numbered ==
  /\ DOMAIN rt = RuntimeFields
  /\ rt.nextRun \in Nat /\ rt.lastRun \in Nat /\ rt.running \in {0, rt.nextRun}
  /\ exits \in Seq({"success", "failure"})
  /\ rt.lastRun = Len(exits)
  /\ rt.nextRun = IF rt.running = 0 THEN rt.lastRun ELSE rt.lastRun + 1
  /\ rt.lastRun # 0 => rt.lastExit = exits[rt.lastRun]
  /\ starting => rt.running = 0

Healthy == rt.state = "healthy" => rt.running \in healthy

Logged == log \in Seq(Nat) /\ first \in Nat \ {0}

\* How far the call is, and what it has by then.
Called ==
  /\ DOMAIN waiting = CallFields
  /\ waiting.stage \in Stages /\ waiting.after \in Nat /\ waiting.cursor \in Nat
  /\ waiting.stage = "idle" => waiting.after = 0
  /\ waiting.stage \in {"idle", "cursor", "mutate", "poll"} => waiting.outcome = "none"
  /\ waiting.stage \in {"idle", "cursor", "mutate", "poll", "health"} => waiting.attempt = 0
  /\ (waiting.tool = "restart" /\ waiting.stage \in {"cursor", "mutate"}) =>
       waiting.command = "restart"
  /\ waiting.stage = "mutate" => waiting.command \in {"restart", "enable"}

\* What the call saw stays true of the run that it saw.
SawOneRun ==
  waiting.outcome \in Answers =>
    LET run == waiting.snapshot.generation
    IN  /\ run \in Nat /\ run <= rt.nextRun
        /\ waiting.outcome # "timeout" => run > waiting.after
        /\ waiting.outcome = "healthy" /\ checked => run \in healthy
        /\ waiting.outcome = "exited" =>
             run \in 1 .. Len(exits) /\ waiting.snapshot.exit = exits[run]
        /\ waiting.attempt \in {0, run}

\* The log that an undisturbed restart is to clear is still to be cleared, or it
\* was, and what is in it is of later runs.
AllLater(run) == \A i \in first .. Len(log) : log[i] > run

ClearedFor ==
  (waiting.tool = "restart" /\ ~waiting.disturbed
     /\ waiting.stage \in {"poll", "health", "logs"}) =>
    \/ rt.clearLogs /\ rt.nextRun = waiting.after
    \/ rt.nextRun > waiting.after /\ AllLater(waiting.after)

LogsLater ==
  (waiting.tool = "restart" /\ ~waiting.disturbed
     /\ waiting.stage = "over" /\ waiting.outcome \in {"healthy", "exited"}) =>
    \A i \in DOMAIN waiting.logs : waiting.logs[i] > waiting.after

WaitsIInv ==
  Numbered /\ Healthy /\ Logged /\ Called /\ SawOneRun /\ ClearedFor /\ LogsLater

-----------------------------------------------------------------------------
(***************************************************************************)
(* The service's steps.                                                    *)
(***************************************************************************)

\* A step of the service that only adds to its history leaves what the call saw.
Extends(older, newer) == newer = older \/ \E o : newer = Append(older, o)

LEMMA CallKept ==
  ASSUME WaitsIInv, waiting.stage # "over", checked' = checked,
         waiting' = waiting \/ waiting' = [waiting EXCEPT !.disturbed = TRUE],
         rt'.nextRun \in Nat, rt.nextRun <= rt'.nextRun,
         healthy \subseteq healthy', Extends(exits, exits')
  PROVE  Called' /\ SawOneRun' /\ LogsLater'
<1>1. /\ waiting'.tool = waiting.tool /\ waiting'.stage = waiting.stage
      /\ waiting'.cursor = waiting.cursor /\ waiting'.after = waiting.after
      /\ waiting'.command = waiting.command /\ waiting'.snapshot = waiting.snapshot
      /\ waiting'.outcome = waiting.outcome /\ waiting'.attempt = waiting.attempt
      /\ DOMAIN waiting' = CallFields
  BY DEF WaitsIInv, Called, CallFields
<1>2. Called'  BY <1>1 DEF WaitsIInv, Called
<1>3. LogsLater'  BY <1>1 DEF LogsLater
<1>4. exits \in Seq({"success", "failure"})  BY DEF WaitsIInv, Numbered
<1>5. \A n \in 1 .. Len(exits) : n \in 1 .. Len(exits') /\ exits'[n] = exits[n]
  <2>1. CASE exits' = exits  BY <2>1
  <2>2. ASSUME NEW o, exits' = Append(exits, o)
        PROVE  \A n \in 1 .. Len(exits) : n \in 1 .. Len(exits') /\ exits'[n] = exits[n]
    <3>1. /\ Len(Append(exits, o)) = Len(exits) + 1 /\ Len(exits) \in Nat
          /\ \A n \in 1 .. Len(exits) : Append(exits, o)[n] = exits[n]
      BY <1>4
    <3> QED BY <3>1, <2>2
  <2> QED BY <2>1, <2>2 DEF Extends
<1>6. SawOneRun'
  <2> SUFFICES ASSUME waiting.outcome \in Answers
               PROVE  SawOneRun'
    BY <1>1 DEF SawOneRun
  <2> DEFINE run == waiting.snapshot.generation
  <2>1. /\ run \in Nat /\ run <= rt.nextRun
        /\ waiting.outcome # "timeout" => run > waiting.after
        /\ waiting.outcome = "healthy" /\ checked => run \in healthy
        /\ waiting.outcome = "exited" =>
             run \in 1 .. Len(exits) /\ waiting.snapshot.exit = exits[run]
        /\ waiting.attempt \in {0, run}
    BY DEF WaitsIInv, SawOneRun
  <2>2. run <= rt'.nextRun  BY <2>1 DEF WaitsIInv, Numbered
  <2>3. waiting.outcome = "healthy" /\ checked' => run \in healthy'  BY <2>1
  <2>4. waiting.outcome = "exited" =>
          run \in 1 .. Len(exits') /\ waiting.snapshot.exit = exits'[run]
    BY <2>1, <1>5
  <2> QED BY <1>1, <2>1, <2>2, <2>3, <2>4 DEF SawOneRun
<1> QED BY <1>2, <1>3, <1>6

\* A step that leaves the run numbers, the mark and the log leaves the log's
\* relation to the call.
LEMMA ClearedKept ==
  ASSUME WaitsIInv, waiting' = waiting, rt'.nextRun = rt.nextRun,
         rt'.clearLogs = rt.clearLogs, UNCHANGED <<log, first>>
  PROVE  ClearedFor'
BY DEF WaitsIInv, ClearedFor, AllLater

\* So does a step that changes nothing of the record but these.
LEMMA NumbersKept ==
  ASSUME WaitsIInv, SameRuns(rt, rt'), exits' = exits, starting' => rt.running = 0
  PROVE  Numbered'
BY DEF WaitsIInv, Numbered, SameRuns

LEMMA ConsiderPreserves == ASSUME WaitsIInv, Consider  PROVE WaitsIInv'
<1>1. /\ waiting.stage # "over" /\ checked' = checked /\ waiting' = waiting
      /\ UNCHANGED <<log, first, exits, healthy>>
  BY DEF Consider, ServerUnchanged
<1>2. /\ SameRuns(rt, rt') /\ rt'.state = rt.state /\ rt'.clearLogs = rt.clearLogs
  <2>1. DOMAIN rt = RuntimeFields  BY DEF WaitsIInv, Numbered
  <2>2. \/ rt' = [rt EXCEPT !.blockedOn = {}]
        \/ rt' = [rt EXCEPT !.blockedOn = {"dependency"}]
    BY DEF Consider
  <2> QED BY <2>1, <2>2 DEF SameRuns, RuntimeFields
<1>3. rt.running = 0  BY DEF Consider, R!ShouldConsiderStart, R!NoRun
<1>4. Numbered'  BY <1>1, <1>2, <1>3, NumbersKept
<1>5. Healthy' /\ Logged'  BY <1>1, <1>2 DEF WaitsIInv, Healthy, Logged, SameRuns
<1>6. ClearedFor'  BY <1>1, <1>2, ClearedKept DEF SameRuns
<1>7. Called' /\ SawOneRun' /\ LogsLater'
  BY <1>1, <1>2, CallKept DEF SameRuns, WaitsIInv, Numbered, Extends
<1> QED BY <1>4, <1>5, <1>6, <1>7 DEF WaitsIInv

\* A start takes the next number and clears the log if it was to.
LEMMA StartPreserves == ASSUME WaitsIInv, StartAwaited  PROVE WaitsIInv'
<1>1. /\ waiting.stage # "over" /\ checked' = checked /\ waiting' = waiting
      /\ UNCHANGED <<log, healthy>> /\ starting /\ starting' = FALSE
      /\ first' = IF rt.clearLogs THEN Len(log) + 1 ELSE first
  BY DEF StartAwaited, ServerUnchanged
<1>2. /\ DOMAIN rt = RuntimeFields /\ rt.running = 0 /\ rt.nextRun = Len(exits)
      /\ rt.lastRun = Len(exits) /\ Len(exits) \in Nat
      /\ exits \in Seq({"success", "failure"})
      /\ rt.lastRun # 0 => rt.lastExit = exits[rt.lastRun]
  BY <1>1 DEF WaitsIInv, Numbered
<1>3. \/ rt' = R!StartedRun(rt, policy) /\ exits' = exits
      \/ rt' = R!FailedStart(rt, policy) /\ exits' = Append(exits, "failure")
  BY DEF StartAwaited
<1>4. /\ rt'.nextRun = rt.nextRun + 1 /\ rt'.clearLogs = FALSE /\ rt'.state # "healthy"
      /\ Numbered' /\ Extends(exits, exits')
  <2>1. CASE rt' = R!StartedRun(rt, policy) /\ exits' = exits
    <3>1. /\ DOMAIN rt' = RuntimeFields /\ rt'.running = rt.nextRun + 1
          /\ rt'.nextRun = rt.nextRun + 1 /\ rt'.lastRun = rt.lastRun
          /\ rt'.lastExit = rt.lastExit /\ rt'.clearLogs = FALSE
          /\ rt'.state = "running"
      <4>1. StartedFrom(rt, R!StartedRun(rt, policy))  BY <1>2, StartFields
      <4>2. StartedFrom(rt, rt')  BY <2>1, <4>1
      <4> QED BY <4>2 DEF StartedFrom
    <3>2. Numbered'
      <4>1. /\ rt'.nextRun \in Nat /\ rt'.lastRun \in Nat /\ rt'.running # 0
            /\ rt'.nextRun = rt'.lastRun + 1 /\ rt'.running = rt'.nextRun
        BY <1>2, <3>1
      <4> QED BY <1>1, <1>2, <2>1, <3>1, <4>1 DEF Numbered
    <3> QED BY <2>1, <3>1, <3>2 DEF Extends
  <2>2. CASE rt' = R!FailedStart(rt, policy) /\ exits' = Append(exits, "failure")
    <3>1. /\ DOMAIN rt' = RuntimeFields /\ rt'.running = 0
          /\ rt'.nextRun = rt.nextRun + 1 /\ rt'.lastRun = rt.nextRun + 1
          /\ rt'.lastExit = "failure" /\ rt'.clearLogs = FALSE /\ rt'.state # "healthy"
      <4>1. FailedFrom(rt, R!FailedStart(rt, policy))  BY <1>2, StartFields
      <4>2. FailedFrom(rt, rt')  BY <2>2, <4>1
      <4> QED BY <1>2, <4>2 DEF FailedFrom
    <3>2. /\ exits' \in Seq({"success", "failure"}) /\ Len(exits') = Len(exits) + 1
          /\ exits'[Len(exits) + 1] = "failure"
      BY <1>2, <2>2
    <3> QED BY <1>1, <1>2, <2>2, <3>1, <3>2 DEF Numbered, Extends
  <2> QED BY <1>3, <2>1, <2>2
<1>5. Healthy'  BY <1>4 DEF Healthy
<1>6. log \in Seq(Nat) /\ Len(log) \in Nat /\ first \in Nat \ {0}
  BY DEF WaitsIInv, Logged
<1>7. Logged'  BY <1>1, <1>6 DEF Logged
<1>8. ClearedFor'
  <2> SUFFICES ASSUME waiting.tool = "restart", ~waiting.disturbed,
                      waiting.stage \in {"poll", "health", "logs"}
               PROVE  rt'.nextRun > waiting.after /\ AllLater(waiting.after)'
    BY <1>1 DEF ClearedFor
  <2>1. waiting.after \in Nat  BY DEF WaitsIInv, Called
  <2>2. CASE rt.clearLogs /\ rt.nextRun = waiting.after
    <3>1. first' = Len(log') + 1  BY <1>1, <2>2
    <3>2. AllLater(waiting.after)'  BY <1>1, <1>6, <3>1 DEF AllLater
    <3> QED BY <1>4, <2>1, <2>2, <3>2
  <2>3. CASE rt.nextRun > waiting.after /\ AllLater(waiting.after)
    <3>1. AllLater(waiting.after)'
      <4>1. CASE rt.clearLogs
        BY <1>1, <1>6, <4>1 DEF AllLater
      <4>2. CASE ~rt.clearLogs
        BY <1>1, <2>3, <4>2 DEF AllLater
      <4> QED BY <4>1, <4>2
    <3> QED BY <1>2, <1>4, <2>1, <2>3, <3>1
  <2> QED BY <2>2, <2>3 DEF WaitsIInv, ClearedFor
<1>9. Called' /\ SawOneRun' /\ LogsLater'
  BY <1>1, <1>2, <1>4, CallKept
<1> QED BY <1>4, <1>5, <1>7, <1>8, <1>9 DEF WaitsIInv

\* The end of a run adds its exit.
LEMMA EndPreserves ==
  ASSUME WaitsIInv, NEW outcome \in {"success", "failure"}, EndAwaited(outcome)
  PROVE  WaitsIInv'
<1>1. /\ waiting.stage # "over" /\ checked' = checked /\ waiting' = waiting
      /\ UNCHANGED <<log, first, healthy, starting>> /\ ~starting /\ rt.running # 0
      /\ exits' = Append(exits, outcome)
      /\ rt' = R!FinishCurrentRun(rt, policy, outcome, FALSE)
  BY DEF EndAwaited, ServerUnchanged, R!NoRun
<1>2. /\ DOMAIN rt = RuntimeFields /\ rt.nextRun \in Nat /\ rt.running = rt.nextRun
      /\ rt.nextRun = Len(exits) + 1 /\ exits \in Seq({"success", "failure"})
  BY <1>1 DEF WaitsIInv, Numbered
<1>3. /\ DOMAIN rt' = RuntimeFields /\ rt'.running = 0 /\ rt'.nextRun = rt.nextRun
      /\ rt'.lastRun = rt.running /\ rt'.lastExit = outcome
      /\ rt'.clearLogs = rt.clearLogs /\ rt'.state # "healthy"
  <2>1. DOMAIN rt = RuntimeFields  BY <1>2
  <2> DEFINE q == R!FinishCurrentRun(rt, policy, outcome, FALSE)
  <2>2. /\ DOMAIN q = RuntimeFields
        /\ q.running = 0 /\ q.nextRun = rt.nextRun
        /\ q.lastRun = rt.running /\ q.lastExit = outcome
        /\ q.clearLogs = rt.clearLogs /\ q.state \in {"disabled", "exited"}
    BY <2>1, FinishCurrentFields, Zenon
  <2>3. rt' = q  BY <1>1
  <2> HIDE DEF q
  <2> QED BY <2>2, <2>3
<1>4. /\ exits' \in Seq({"success", "failure"}) /\ Len(exits') = Len(exits) + 1
      /\ exits'[Len(exits) + 1] = outcome
  BY <1>1, <1>2
<1>5. Numbered'  BY <1>1, <1>2, <1>3, <1>4 DEF Numbered
<1>6. Healthy' /\ Logged'  BY <1>1, <1>3 DEF WaitsIInv, Healthy, Logged
<1>7. ClearedFor'  BY <1>1, <1>3, ClearedKept
<1>8. Called' /\ SawOneRun' /\ LogsLater'
  <2>1. Extends(exits, exits')  BY <1>1 DEF Extends
  <2>2. waiting.stage # "over" /\ checked' = checked /\ waiting' = waiting
        /\ healthy \subseteq healthy'
    BY <1>1
  <2>3. rt'.nextRun \in Nat /\ rt.nextRun <= rt'.nextRun  BY <1>2, <1>3
  <2> QED BY <2>1, <2>2, <2>3, CallKept
<1> QED BY <1>5, <1>6, <1>7, <1>8 DEF WaitsIInv

\* The steps that are about no run's beginning or end.
LEMMA BackoffPreserves == ASSUME WaitsIInv, BackoffDue  PROVE WaitsIInv'
<1>1. /\ waiting.stage # "over" /\ checked' = checked /\ waiting' = waiting
      /\ UNCHANGED <<log, first, exits, healthy, starting>>
      /\ rt' = [rt EXCEPT !.timer = "due"]
  BY DEF BackoffDue, ServerUnchanged
<1>2. SameRuns(rt, rt') /\ rt'.state = rt.state /\ rt'.clearLogs = rt.clearLogs
  BY <1>1 DEF WaitsIInv, Numbered, SameRuns, RuntimeFields
<1>3. Numbered'  BY <1>1, <1>2, NumbersKept DEF WaitsIInv, Numbered
<1>4. Healthy' /\ Logged'  BY <1>1, <1>2 DEF WaitsIInv, Healthy, Logged, SameRuns
<1>5. ClearedFor'  BY <1>1, <1>2, ClearedKept DEF SameRuns
<1>6. Called' /\ SawOneRun' /\ LogsLater'
  BY <1>1, <1>2, CallKept DEF SameRuns, WaitsIInv, Numbered, Extends
<1> QED BY <1>3, <1>4, <1>5, <1>6 DEF WaitsIInv

\* A verdict of the current run's check is history from then on.
LEMMA VerdictPreserves ==
  ASSUME WaitsIInv, NEW health \in {"healthy", "unhealthy"}, Verdict(health)
  PROVE  WaitsIInv'
<1>1. /\ waiting.stage # "over" /\ checked' = checked /\ waiting' = waiting
      /\ UNCHANGED <<log, first, exits, starting>>
      /\ rt' = R!MarkHealth(rt, health)
      /\ healthy' = IF health = "healthy" THEN healthy \cup {rt.running} ELSE healthy
  BY DEF Verdict, ServerUnchanged
<1>2. /\ SameRuns(rt, rt') /\ rt'.clearLogs = rt.clearLogs
      /\ rt'.state \in {rt.state, health}
  BY <1>1, MarkHealthFields DEF WaitsIInv, Numbered
<1>3. Numbered'  BY <1>1, <1>2, NumbersKept DEF WaitsIInv, Numbered
<1>4. Logged'  BY <1>1 DEF WaitsIInv, Logged
<1>5. Healthy'
  <2>1. CASE health = "healthy"  BY <1>1, <1>2, <2>1 DEF Healthy, SameRuns
  <2>2. CASE health # "healthy"  BY <1>1, <1>2, <2>2 DEF WaitsIInv, Healthy, SameRuns
  <2> QED BY <2>1, <2>2
<1>6. ClearedFor'  BY <1>1, <1>2, ClearedKept DEF SameRuns
<1>7. Called' /\ SawOneRun' /\ LogsLater'
  <2>1. healthy \subseteq healthy'  BY <1>1
  <2>2. rt'.nextRun \in Nat /\ rt.nextRun <= rt'.nextRun
    BY <1>2 DEF SameRuns, WaitsIInv, Numbered
  <2>3. Extends(exits, exits')  BY <1>1 DEF Extends
  <2> QED BY <1>1, <2>1, <2>2, <2>3, CallKept
<1> QED BY <1>3, <1>4, <1>5, <1>6, <1>7 DEF WaitsIInv

\* A line is of the run that writes it.
LEMMA WritePreserves == ASSUME WaitsIInv, Write  PROVE WaitsIInv'
<1>1. /\ waiting.stage # "over" /\ checked' = checked /\ waiting' = waiting
      /\ UNCHANGED <<rt, first, exits, healthy, starting>>
      /\ log' = Append(log, R!RunGeneration(rt))
  BY DEF Write, ServerUnchanged
<1>2. R!RunGeneration(rt) = rt.nextRun /\ rt.nextRun \in Nat
  BY DEF WaitsIInv, Numbered, R!RunGeneration, R!NoRun
<1>3. Numbered' /\ Healthy'  BY <1>1 DEF WaitsIInv, Numbered, Healthy
<1>4. log \in Seq(Nat) /\ first \in Nat \ {0}  BY DEF WaitsIInv, Logged
<1>5. /\ log' \in Seq(Nat) /\ Len(log') = Len(log) + 1 /\ Len(log) \in Nat
      /\ log'[Len(log) + 1] = rt.nextRun
      /\ \A i \in 1 .. Len(log) : log'[i] = log[i]
  BY <1>1, <1>2, <1>4
<1>6. Logged'  BY <1>1, <1>4, <1>5 DEF Logged
<1>7. ClearedFor'
  <2> SUFFICES ASSUME waiting.tool = "restart", ~waiting.disturbed,
                      waiting.stage \in {"poll", "health", "logs"},
                      rt.nextRun > waiting.after, AllLater(waiting.after)
               PROVE  AllLater(waiting.after)'
    BY <1>1 DEF WaitsIInv, ClearedFor
  <2> SUFFICES ASSUME NEW i \in first .. Len(log')  PROVE log'[i] > waiting.after
    BY <1>1 DEF AllLater
  <2>1. CASE i = Len(log) + 1  BY <1>5, <2>1
  <2>2. CASE i # Len(log) + 1
    <3>1. i \in first .. Len(log) /\ i \in 1 .. Len(log)  BY <1>4, <1>5, <2>2
    <3> QED BY <1>5, <3>1 DEF AllLater
  <2> QED BY <2>1, <2>2
<1>8. Called' /\ SawOneRun' /\ LogsLater'
  <2>1. Extends(exits, exits') /\ healthy \subseteq healthy'  BY <1>1 DEF Extends
  <2> QED BY <1>1, <1>2, <2>1, CallKept
<1> QED BY <1>3, <1>6, <1>7, <1>8 DEF WaitsIInv

Commands == {"restart", "enable", "disable", "stop", "replace"}

\* A command leaves the runs, and makes no service healthy.
LEMMA ApplyFields ==
  ASSUME WaitsIInv, NEW command \in Commands, Apply(command)
  PROVE  /\ SameRuns(rt, rt') /\ (rt'.state = "healthy" => rt.state = "healthy")
         /\ command = "restart" => rt'.clearLogs = TRUE
<1>1. DOMAIN rt = RuntimeFields  BY DEF WaitsIInv, Numbered
<1>2. CASE command \in {"restart", "replace"}
  <2>1. rt' = R!RequestRestart(rt, policy)  BY <1>2 DEF Apply
  <2> QED BY <1>1, <2>1, RestartFields
<1>3. CASE command = "enable"
  <2>1. rt' = R!RequestEnable(rt, policy)  BY <1>3 DEF Apply
  <2> QED BY <1>1, <1>3, <2>1, EnableFields
<1>4. CASE command \in {"disable", "stop"}
  <2>1. rt' = R!Disable(rt)  BY <1>4 DEF Apply
  <2> QED BY <1>1, <1>4, <2>1, DisableFields
<1> QED BY <1>2, <1>3, <1>4 DEF Commands

\* Another client's command disturbs the call.
LEMMA OtherClientPreserves ==
  ASSUME WaitsIInv, NEW command \in Commands, OtherClient(command)
  PROVE  WaitsIInv'
<1>1. /\ waiting.stage # "over" /\ checked' = checked
      /\ waiting' = [waiting EXCEPT !.disturbed = TRUE]
      /\ UNCHANGED <<log, first, exits, healthy, starting>> /\ Apply(command)
  BY DEF OtherClient, ServerUnchanged
<1>2. SameRuns(rt, rt') /\ (rt'.state = "healthy" => rt.state = "healthy")
  BY <1>1, ApplyFields
<1>3. Numbered'  BY <1>1, <1>2, NumbersKept DEF WaitsIInv, Numbered
<1>4. Healthy' /\ Logged'  BY <1>1, <1>2 DEF WaitsIInv, Healthy, Logged, SameRuns
<1>5. ClearedFor'
  <2>1. waiting'.disturbed = TRUE  BY <1>1 DEF WaitsIInv, Called, CallFields
  <2> QED BY <2>1 DEF ClearedFor
<1>6. Called' /\ SawOneRun' /\ LogsLater'
  <2>1. Extends(exits, exits') /\ healthy \subseteq healthy'  BY <1>1 DEF Extends
  <2>2. rt'.nextRun \in Nat /\ rt.nextRun <= rt'.nextRun
    BY <1>2 DEF SameRuns, WaitsIInv, Numbered
  <2> QED BY <1>1, <2>1, <2>2, CallKept
<1> QED BY <1>3, <1>4, <1>5, <1>6 DEF WaitsIInv

\* Nothing that the invariant is about changes.
LEMMA Irrelevant ==
  ASSUME WaitsIInv,
         UNCHANGED <<checked, rt, starting, log, first, exits, healthy, waiting>>
  PROVE  WaitsIInv'
BY DEF WaitsIInv, Numbered, Healthy, Logged, Called, SawOneRun, ClearedFor, AllLater, LogsLater

-----------------------------------------------------------------------------
(***************************************************************************)
(* The call's steps.                                                       *)
(***************************************************************************)

\* A verdict is about the run that the snapshot shows: it has begun after the
\* command, its check has succeeded, its exit is the one shown.
LEMMA VerdictTrue ==
  ASSUME WaitsIInv, NEW after \in Nat,
         NEW verdict \in {Evaluate(Snapshot, after), ClassifyExit(Snapshot, after)}
  PROVE  /\ Snapshot.generation = rt.nextRun
         /\ verdict \in {"healthy", "exited"} => rt.nextRun > after
         /\ verdict = "healthy" /\ checked => rt.nextRun \in healthy
         /\ verdict = "exited" =>
              rt.nextRun \in 1 .. Len(exits) /\ Snapshot.exit = exits[rt.nextRun]
         /\ verdict \in {"invalid", "pending", "exited", "healthy"}
<1>1. /\ rt.nextRun \in Nat /\ rt.running \in {0, rt.nextRun} /\ rt.lastRun = Len(exits)
      /\ rt.nextRun = IF rt.running = 0 THEN rt.lastRun ELSE rt.lastRun + 1
      /\ rt.lastRun # 0 => rt.lastExit = exits[rt.lastRun]
      /\ Len(exits) \in Nat
  BY DEF WaitsIInv, Numbered
<1>2. /\ Snapshot.generation = R!RunGeneration(rt) /\ Snapshot.execution = Execution
      /\ Snapshot.health = IF Execution = "running" THEN rt.state ELSE Unset
      /\ Snapshot.exit = rt.lastExit
  BY DEF Snapshot
<1>3. R!RunGeneration(rt) = rt.nextRun  BY <1>1 DEF R!RunGeneration, R!NoRun
<1>4. Execution = "exited" => rt.running = 0
  BY DEF Execution, R!NoRun, R!LiveStates
<1>5. Execution = "running" /\ rt.state = "healthy" => rt.running # 0
  BY DEF Execution, R!NoRun
<1>6. CASE verdict = Evaluate(Snapshot, after)
  <2>1. /\ verdict \in {"invalid", "pending", "exited", "healthy"}
        /\ verdict \in {"healthy", "exited"} => GenerationReady(Snapshot, after)
        /\ verdict = "exited" => Execution = "exited"
        /\ verdict = "healthy" => Execution = "running" /\ (~checked \/ Snapshot.health = "healthy")
    <3>1. CASE Snapshot.desired = "disabled"  BY <1>6, <3>1 DEF Evaluate
    <3>2. CASE Snapshot.desired # "disabled" /\ ~GenerationReady(Snapshot, after)
      BY <1>6, <3>2 DEF Evaluate
    <3>3. CASE Snapshot.desired # "disabled" /\ GenerationReady(Snapshot, after)
      BY <1>2, <1>6, <3>3 DEF Evaluate
    <3> QED BY <3>1, <3>2, <3>3
  <2>2. verdict \in {"healthy", "exited"} => rt.nextRun > after
    BY <1>2, <1>3, <2>1 DEF GenerationReady
  <2>3. verdict = "healthy" /\ checked => rt.nextRun \in healthy
    BY <1>1, <1>2, <1>5, <2>1 DEF WaitsIInv, Healthy, Unset
  <2>4. verdict = "exited" =>
          rt.nextRun \in 1 .. Len(exits) /\ Snapshot.exit = exits[rt.nextRun]
    BY <1>1, <1>2, <1>4, <2>1, <2>2
  <2> QED BY <1>2, <1>3, <2>1, <2>2, <2>3, <2>4
<1>7. CASE verdict = ClassifyExit(Snapshot, after)
  <2>1. /\ verdict \in {"invalid", "pending", "exited"}
        /\ verdict = "exited" => GenerationReady(Snapshot, after) /\ Execution = "exited"
    BY <1>2, <1>7 DEF ClassifyExit
  <2>2. verdict = "exited" => rt.nextRun > after
    BY <1>2, <1>3, <2>1 DEF GenerationReady
  <2>3. verdict = "exited" =>
          rt.nextRun \in 1 .. Len(exits) /\ Snapshot.exit = exits[rt.nextRun]
    BY <1>1, <1>2, <1>4, <2>1, <2>2
  <2> QED BY <1>2, <1>3, <2>1, <2>2, <2>3
<1> QED BY <1>6, <1>7

\* A step of the call changes nothing of the service.
ServiceKept == UNCHANGED <<checked, rt, starting, log, first, exits, healthy>>

LEMMA ServiceKeeps ==
  ASSUME WaitsIInv, ServiceKept
  PROVE  Numbered' /\ Healthy' /\ Logged'
BY DEF WaitsIInv, ServiceKept, Numbered, Healthy, Logged

\* A call that fails says nothing of a run.
LEMMA FailsPreserves ==
  ASSUME WaitsIInv, waiting.stage \in {"idle", "mutate", "poll"}, Fails
  PROVE  Called' /\ SawOneRun' /\ ClearedFor' /\ LogsLater'
<1>1. /\ DOMAIN waiting' = CallFields /\ waiting'.stage = "over" /\ waiting'.outcome = "error"
      /\ waiting'.after = waiting.after /\ waiting'.cursor = waiting.cursor
  BY DEF WaitsIInv, Called, Fails, CallFields
<1>2. Called'  BY <1>1 DEF WaitsIInv, Called, Stages
<1> QED BY <1>1, <1>2 DEF SawOneRun, ClearedFor, LogsLater, Answers

\* What a call asks for first.
LEMMA AsksPreserves ==
  ASSUME WaitsIInv, waiting.stage = "idle",
         NEW tool, NEW command, NEW stage \in {"cursor", "mutate", "poll"},
         waiting' = [waiting EXCEPT !.tool = tool, !.command = command, !.stage = stage,
                                    !.disturbed = FALSE],
         tool = "restart" => command = "restart" /\ stage = "cursor",
         stage = "mutate" => command \in {"restart", "enable"}
  PROVE  Called' /\ SawOneRun' /\ ClearedFor' /\ LogsLater'
<1>1. /\ DOMAIN waiting' = CallFields /\ waiting'.stage = stage /\ waiting'.tool = tool
      /\ waiting'.command = command /\ waiting'.outcome = "none"
      /\ waiting'.after = waiting.after /\ waiting'.cursor = waiting.cursor
      /\ waiting'.attempt = 0
  BY DEF WaitsIInv, Called, CallFields
<1>2. Called'  BY <1>1 DEF WaitsIInv, Called, Stages
<1> QED BY <1>1, <1>2 DEF SawOneRun, ClearedFor, LogsLater, Answers

LEMMA BeginPreserves ==
  ASSUME WaitsIInv, NEW tool \in Tools, BeginTool(tool)
  PROVE  WaitsIInv'
<1>1. ServiceKept /\ waiting.stage = "idle"
  BY DEF BeginTool, ServiceKept, awaitedVars
<1> DEFINE asks(command, stage) ==
             waiting' = [waiting EXCEPT !.tool = tool, !.command = command, !.stage = stage,
                                        !.disturbed = FALSE]
           seen == waiting' = [waiting EXCEPT !.tool = tool, !.snapshot = Snapshot,
                                              !.outcome = "healthy", !.stage = "over"]
<1>2. \/ Fails
      \/ tool \in {"restart"} /\ asks("restart", "cursor")
      \/ tool \in {"enable", "ensure"} /\ asks("enable", "mutate")
      \/ tool \in {"exit"} /\ asks("none", "cursor")
      \/ tool \in {"job"} /\ asks("restart", "mutate")
      \/ tool \in {"ensure"} /\ asks("none", "poll")
      \/ tool = "ensure" /\ Evaluate(Snapshot, 0) = "healthy" /\ seen
  <2>1. CASE tool = "restart"  BY <2>1 DEF BeginTool
  <2>2. CASE tool = "enable"  BY <2>2 DEF BeginTool
  <2>3. CASE tool = "exit"  BY <2>3 DEF BeginTool, Unset
  <2>4. CASE tool = "job"  BY <2>4 DEF BeginTool
  <2>5. CASE tool = "ensure"
    <3>1. CASE Evaluate(Snapshot, AnyRun) = "healthy"  BY <2>5, <3>1 DEF BeginTool, AnyRun
    <3>2. CASE Evaluate(Snapshot, AnyRun) # "healthy" /\ retired  BY <2>5, <3>2 DEF BeginTool
    <3>3. CASE Evaluate(Snapshot, AnyRun) # "healthy" /\ ~retired
      BY <2>5, <3>3 DEF BeginTool, Unset
    <3> QED BY <3>1, <3>2, <3>3
  <2> QED BY <2>1, <2>2, <2>3, <2>4, <2>5 DEF Tools
<1>3. Called' /\ SawOneRun' /\ ClearedFor' /\ LogsLater'
  <2>1. CASE Fails  BY <1>1, <2>1, FailsPreserves
  <2>2. CASE tool \in {"restart"} /\ asks("restart", "cursor")  BY <1>1, <2>2, AsksPreserves
  <2>3. CASE tool \in {"enable", "ensure"} /\ asks("enable", "mutate")
    BY <1>1, <2>3, AsksPreserves
  <2>4. CASE tool \in {"exit"} /\ asks("none", "cursor")  BY <1>1, <2>4, AsksPreserves
  <2>5. CASE tool \in {"job"} /\ asks("restart", "mutate")  BY <1>1, <2>5, AsksPreserves
  <2>6. CASE tool \in {"ensure"} /\ asks("none", "poll")  BY <1>1, <2>6, AsksPreserves
  <2>7. CASE tool = "ensure" /\ Evaluate(Snapshot, 0) = "healthy" /\ seen
    <3>1. /\ DOMAIN waiting' = CallFields /\ waiting'.stage = "over" /\ waiting'.tool = "ensure"
          /\ waiting'.outcome = "healthy" /\ waiting'.snapshot = Snapshot
          /\ waiting'.after = 0 /\ waiting'.cursor = waiting.cursor /\ waiting'.attempt = 0
      BY <1>1, <2>7 DEF WaitsIInv, Called, CallFields
    <3>2. /\ Snapshot.generation = rt.nextRun /\ rt.nextRun > 0
          /\ checked => rt.nextRun \in healthy
      BY <2>7, VerdictTrue
    <3>3. Called'  BY <3>1 DEF WaitsIInv, Called, Stages
    <3>4. rt' = rt /\ healthy' = healthy /\ checked' = checked /\ exits' = exits
          /\ rt.nextRun \in Nat
      BY <1>1 DEF ServiceKept, WaitsIInv, Numbered
    <3> HIDE DEF seen
    <3>5. SawOneRun'
      <4> SUFFICES ASSUME TRUE
                   PROVE  /\ Snapshot.generation \in Nat /\ Snapshot.generation <= rt.nextRun
                          /\ Snapshot.generation > 0
                          /\ checked => Snapshot.generation \in healthy
        BY <3>1, <3>4 DEF SawOneRun
      <4> QED BY <3>2, <3>4
    <3> QED BY <3>1, <3>3, <3>5 DEF ClearedFor, LogsLater
  <2> QED BY <1>2, <2>1, <2>2, <2>3, <2>4, <2>5, <2>6, <2>7
<1> QED BY <1>1, <1>3, ServiceKeeps DEF WaitsIInv

LEMMA CursorPreserves == ASSUME WaitsIInv, TakeCursor  PROVE WaitsIInv'
<1>1. ServiceKept /\ waiting.stage = "cursor"
  BY DEF TakeCursor, ServiceKept, awaitedVars
<1> DEFINE next == IF waiting.tool = "restart" THEN "mutate" ELSE "poll"
<1>2. /\ DOMAIN waiting' = CallFields /\ waiting'.stage = next /\ waiting'.tool = waiting.tool
      /\ waiting'.command = waiting.command /\ waiting'.outcome = "none"
      /\ waiting'.after = waiting.after /\ waiting'.cursor = Cursor
      /\ waiting'.attempt = 0
  BY <1>1 DEF TakeCursor, WaitsIInv, Called, CallFields
<1>3. Cursor \in Nat  BY DEF Cursor, WaitsIInv, Logged
<1>4. Called'  BY <1>1, <1>2, <1>3 DEF WaitsIInv, Called, Stages
<1>5. SawOneRun' /\ ClearedFor' /\ LogsLater'
  BY <1>2 DEF SawOneRun, ClearedFor, LogsLater, Answers
<1> QED BY <1>1, <1>4, <1>5, ServiceKeeps DEF WaitsIInv

\* The command of the call is after every run so far; a restart's clears the log.
LEMMA MutatePreserves == ASSUME WaitsIInv, Mutate  PROVE WaitsIInv'
<1>1. /\ waiting.stage = "mutate" /\ checked' = checked
      /\ UNCHANGED <<starting, log, first, exits, healthy>> /\ ~starting
  BY DEF Mutate, ServerUnchanged
<1>2. CASE CanApply(waiting.command)
  <2> DEFINE next == IF waiting.tool = "job" THEN "cursor" ELSE "poll"
  <2>1. /\ Apply(waiting.command)
        /\ waiting' = [waiting EXCEPT !.after = R!RunGeneration(rt), !.disturbed = FALSE,
                                      !.stage = next]
    BY <1>2 DEF Mutate
  <2>2. waiting.command \in {"restart", "enable"}  BY <1>1 DEF WaitsIInv, Called
  <2>3. /\ SameRuns(rt, rt') /\ (rt'.state = "healthy" => rt.state = "healthy")
        /\ waiting.command = "restart" => rt'.clearLogs = TRUE
    BY <2>1, <2>2, ApplyFields DEF Commands
  <2>4. R!RunGeneration(rt) = rt.nextRun /\ rt.nextRun \in Nat
    BY DEF WaitsIInv, Numbered, R!RunGeneration, R!NoRun
  <2>5. /\ DOMAIN waiting' = CallFields /\ waiting'.stage = next /\ waiting'.tool = waiting.tool
        /\ waiting'.command = waiting.command /\ waiting'.outcome = "none"
        /\ waiting'.after = rt.nextRun /\ waiting'.cursor = waiting.cursor
        /\ waiting'.attempt = 0
    BY <1>1, <2>1, <2>4 DEF WaitsIInv, Called, CallFields
  <2>6. Numbered'  BY <1>1, <2>3, NumbersKept
  <2>7. Healthy' /\ Logged'  BY <1>1, <2>3 DEF WaitsIInv, Healthy, Logged, SameRuns
  <2>8. waiting.tool = "restart" => waiting.command = "restart"
    BY <1>1 DEF WaitsIInv, Called
  <2>9. Called'  BY <2>4, <2>5 DEF WaitsIInv, Called, Stages
  <2>10. ClearedFor'  BY <2>3, <2>5, <2>8 DEF ClearedFor, SameRuns
  <2>11. SawOneRun' /\ LogsLater'  BY <2>5 DEF SawOneRun, LogsLater, Answers
  <2> QED BY <2>6, <2>7, <2>9, <2>10, <2>11 DEF WaitsIInv
<1>3. CASE ~CanApply(waiting.command)
  <2>1. Fails /\ ServiceKept  BY <1>1, <1>3 DEF Mutate, ServiceKept
  <2> QED BY <1>1, <2>1, FailsPreserves, ServiceKeeps DEF WaitsIInv
<1> QED BY <1>2, <1>3

\* An answer is the verdict on what is seen at that moment.
LEMMA PollPreserves ==
  ASSUME WaitsIInv, NEW late \in BOOLEAN, Poll(late)
  PROVE  WaitsIInv'
<1>1. ServiceKept /\ waiting.stage = "poll"
  BY DEF Poll, ServiceKept, awaitedVars
<1> DEFINE verdict == IF WaitsForExit THEN ClassifyExit(Snapshot, waiting.after)
                      ELSE Evaluate(Snapshot, waiting.after)
           answer == IF verdict = "pending" THEN "timeout" ELSE verdict
           next == IF verdict = "pending" THEN IF WaitsForExit THEN "logs" ELSE "health"
                   ELSE IF waiting.tool \in {"restart", "exit", "job"} THEN "logs" ELSE "over"
<1>2. waiting.after \in Nat  BY DEF WaitsIInv, Called
<1>3. /\ Snapshot.generation = rt.nextRun
      /\ verdict \in {"healthy", "exited"} => rt.nextRun > waiting.after
      /\ verdict = "healthy" /\ checked => rt.nextRun \in healthy
      /\ verdict = "exited" =>
           rt.nextRun \in 1 .. Len(exits) /\ Snapshot.exit = exits[rt.nextRun]
      /\ verdict \in {"invalid", "pending", "exited", "healthy"}
  <2>1. verdict \in {Evaluate(Snapshot, waiting.after), ClassifyExit(Snapshot, waiting.after)}
    OBVIOUS
  <2> HIDE DEF verdict
  <2> QED BY <1>2, <2>1, VerdictTrue
<1>4. \/ verdict = "invalid" /\ Fails
      \/ /\ verdict # "invalid"
         /\ waiting' = [waiting EXCEPT !.snapshot = Snapshot, !.outcome = answer, !.stage = next]
  <2>1. CASE verdict = "invalid"  BY <2>1 DEF Poll
  <2>2. CASE verdict = "pending"  BY <2>2 DEF Poll
  <2>3. CASE verdict # "invalid" /\ verdict # "pending"  BY <2>3 DEF Poll
  <2> QED BY <2>1, <2>2, <2>3
<1>5. Called' /\ SawOneRun' /\ ClearedFor' /\ LogsLater'
  <2>1. CASE verdict = "invalid" /\ Fails  BY <1>1, <2>1, FailsPreserves
  <2>2. CASE /\ verdict # "invalid"
             /\ waiting' = [waiting EXCEPT !.snapshot = Snapshot, !.outcome = answer, !.stage = next]
    <3>1. /\ DOMAIN waiting' = CallFields /\ waiting'.stage = next /\ waiting'.tool = waiting.tool
          /\ waiting'.outcome = answer /\ waiting'.snapshot = Snapshot
          /\ waiting'.after = waiting.after /\ waiting'.cursor = waiting.cursor
          /\ waiting'.attempt = 0 /\ waiting'.disturbed = waiting.disturbed
      BY <1>1, <2>2 DEF WaitsIInv, Called, CallFields
    <3>2. /\ next \in {"logs", "health", "over"}
          /\ next = "over" => waiting.tool # "restart"
          /\ answer \in {"timeout", "exited", "healthy"}
          /\ answer = "healthy" => verdict = "healthy"
          /\ answer = "exited" => verdict = "exited"
      BY <1>3, <2>2 DEF WaitsForExit
    <3> HIDE DEF next, answer, verdict
    <3>3. Called'  BY <1>2, <3>1, <3>2 DEF WaitsIInv, Called, Stages
    <3>4. rt' = rt /\ healthy' = healthy /\ checked' = checked /\ exits' = exits
          /\ log' = log /\ first' = first /\ rt.nextRun \in Nat
      BY <1>1 DEF ServiceKept, WaitsIInv, Numbered
    <3>5. SawOneRun'
      <4>1. waiting'.snapshot.generation = rt.nextRun  BY <1>3, <3>1
      <4>2. answer # "timeout" => rt.nextRun > waiting.after  BY <1>3, <3>2
      <4>3. answer = "healthy" /\ checked => rt.nextRun \in healthy  BY <1>3, <3>2
      <4>4. answer = "exited" =>
              rt.nextRun \in 1 .. Len(exits) /\ Snapshot.exit = exits[rt.nextRun]
        BY <1>3, <3>2
      <4> QED BY <3>1, <3>4, <4>1, <4>2, <4>3, <4>4 DEF SawOneRun
    <3>6. ClearedFor'
      <4>1. ClearedFor  BY DEF WaitsIInv
      <4> QED BY <1>1, <3>1, <3>4, <4>1 DEF ClearedFor, AllLater
    <3>7. LogsLater'  BY <3>1, <3>2 DEF LogsLater
    <3> QED BY <3>3, <3>5, <3>6, <3>7
  <2> QED BY <1>4, <2>1, <2>2
<1> QED BY <1>1, <1>5, ServiceKeeps DEF WaitsIInv

\* The attempt that is attached is of the run seen, or none is.
LEMMA HealthPreserves == ASSUME WaitsIInv, Health  PROVE WaitsIInv'
<1>1. ServiceKept /\ waiting.stage = "health"
  BY DEF Health, ServiceKept, awaitedVars
<1> DEFINE next == IF waiting.tool = "restart" THEN "logs" ELSE "over"
<1>2. /\ DOMAIN waiting' = CallFields /\ waiting'.stage = next /\ waiting'.tool = waiting.tool
      /\ waiting'.outcome = waiting.outcome /\ waiting'.snapshot = waiting.snapshot
      /\ waiting'.after = waiting.after /\ waiting'.cursor = waiting.cursor
      /\ waiting'.attempt = AttemptFor(waiting.snapshot)
      /\ waiting'.disturbed = waiting.disturbed
  BY DEF Health, WaitsIInv, Called, CallFields
<1>3. AttemptFor(waiting.snapshot) \in {0, waiting.snapshot.generation}
  BY DEF AttemptFor, R!NoRun
<1>4. Called'  BY <1>2 DEF WaitsIInv, Called, Stages
<1>5. SawOneRun'
  <2>1. SawOneRun  BY DEF WaitsIInv
  <2> QED BY <1>1, <1>2, <1>3, <2>1 DEF SawOneRun, ServiceKept
<1>6. ClearedFor'
  <2>1. ClearedFor  BY DEF WaitsIInv
  <2> QED BY <1>1, <1>2, <2>1 DEF ClearedFor, AllLater, ServiceKept
<1>7. LogsLater'  BY <1>2 DEF LogsLater
<1> QED BY <1>1, <1>4, <1>5, <1>6, <1>7, ServiceKeeps DEF WaitsIInv

\* Where the attached lines begin: after the cursor, and not before the first.
Later(n, m) == IF n > m THEN n ELSE m + 1

LEMMA LaterIsLater ==
  ASSUME NEW n \in Nat \ {0}, NEW m \in Nat
  PROVE  Later(n, m) \in Nat /\ Later(n, m) >= 1 /\ Later(n, m) >= n
BY DEF Later

\* The lines that are attached are of the log after the run that was seen began.
LEMMA LogsPreserves == ASSUME WaitsIInv, Logs  PROVE WaitsIInv'
<1>1. ServiceKept /\ waiting.stage = "logs"
  BY DEF Logs, ServiceKept, awaitedVars
<1> DEFINE from == IF first > waiting.cursor THEN first ELSE waiting.cursor + 1
           lines == SubSeq(log, from, Len(log))
<1>2. /\ DOMAIN waiting' = CallFields /\ waiting'.stage = "over" /\ waiting'.tool = waiting.tool
      /\ waiting'.outcome = waiting.outcome /\ waiting'.snapshot = waiting.snapshot
      /\ waiting'.after = waiting.after /\ waiting'.cursor = waiting.cursor
      /\ waiting'.attempt = waiting.attempt
      /\ waiting'.disturbed = waiting.disturbed /\ waiting'.logs = lines
  BY DEF Logs, WaitsIInv, Called, CallFields
<1>3. Called'  BY <1>2 DEF WaitsIInv, Called, Stages
<1>4. SawOneRun'
  <2>1. SawOneRun  BY DEF WaitsIInv
  <2> QED BY <1>1, <1>2, <2>1 DEF SawOneRun, ServiceKept
<1>5. ClearedFor'  BY <1>2 DEF ClearedFor
<1>6. from = Later(first, waiting.cursor)  BY DEF Later
<1>7. /\ log \in Seq(Nat) /\ first \in Nat \ {0} /\ waiting.cursor \in Nat
      /\ waiting.after \in Nat /\ rt.nextRun \in Nat
  BY DEF WaitsIInv, Logged, Called, Numbered
<1>8. from \in Nat /\ from >= 1 /\ from >= first /\ Len(log) \in Nat
  <2> DEFINE cursor == waiting.cursor
  <2>1. first \in Nat \ {0} /\ cursor \in Nat /\ log \in Seq(Nat)  BY <1>7
  <2>2. from = Later(first, cursor)  BY <1>6
  <2>3. Len(log) \in Nat  BY <2>1
  <2> HIDE DEF from, cursor
  <2>4. first \in Nat  BY <2>1
  <2>5. /\ Later(first, cursor) \in Nat /\ Later(first, cursor) >= 1
        /\ Later(first, cursor) >= first
    BY <2>1, LaterIsLater
  <2> QED BY <2>2, <2>3, <2>5
<1>9. LogsLater'
  <2> SUFFICES ASSUME waiting.tool = "restart", ~waiting.disturbed,
                      waiting.outcome \in {"healthy", "exited"},
                      NEW i \in DOMAIN lines
               PROVE  lines[i] > waiting.after
    BY <1>2 DEF LogsLater
  <2>3. waiting.snapshot.generation > waiting.after
        /\ waiting.snapshot.generation <= rt.nextRun /\ waiting.snapshot.generation \in Nat
    BY DEF WaitsIInv, SawOneRun, Answers
  <2>4. AllLater(waiting.after)
    <3>1. ~(rt.nextRun = waiting.after)  BY <1>7, <2>3
    <3> QED BY <1>1, <3>1 DEF WaitsIInv, ClearedFor
  <2> HIDE DEF from
  <2>5. i \in Nat /\ i >= 1 /\ from + i - 1 <= Len(log) /\ lines[i] = log[from + i - 1]
    <3> DEFINE n == Len(log)
    <3>1. n \in Nat /\ lines = SubSeq(log, from, n)  BY <1>8
    <3> HIDE DEF n, lines
    <3>2. i \in 1 .. (IF from <= n THEN n - from + 1 ELSE 0) /\ lines[i] = log[from + i - 1]
      BY <1>7, <1>8, <3>1
    <3>3. i \in Nat /\ i >= 1 /\ from + i - 1 <= n
      <4>1. CASE from <= n  BY <1>8, <3>1, <3>2, <4>1
      <4>2. CASE ~(from <= n)  BY <3>2, <4>2
      <4> QED BY <4>1, <4>2
    <3> QED BY <3>2, <3>3 DEF n
  <2>6. from + i - 1 \in first .. Len(log)  BY <1>7, <1>8, <2>5
  <2> QED BY <2>4, <2>5, <2>6 DEF AllLater
<1> QED BY <1>1, <1>3, <1>4, <1>5, <1>9, ServiceKeeps DEF WaitsIInv

-----------------------------------------------------------------------------

LEMMA WaitsBegin == ASSUME WaitsInit  PROVE WaitsIInv
<1> DEFINE q == R!NewRuntime(TRUE, policy)
<1>1. /\ DOMAIN q = RuntimeFields
      /\ q.running = 0 /\ q.nextRun = 0 /\ q.lastRun = 0
      /\ q.state = "pending" /\ q.clearLogs = FALSE
  BY NewRuntimeFields, Zenon
<1>2. rt = q /\ starting = FALSE /\ log = <<>> /\ first = 1 /\ exits = <<>> /\ waiting = NoWait
  BY DEF WaitsInit
<1> HIDE DEF q
<1>3. Numbered  BY <1>1, <1>2 DEF Numbered
<1>4. Healthy /\ Logged  BY <1>1, <1>2 DEF Healthy, Logged
<1>5. /\ DOMAIN waiting = CallFields /\ waiting.stage = "idle" /\ waiting.outcome = "none"
      /\ waiting.after = 0 /\ waiting.cursor = 0 /\ waiting.attempt = 0
      /\ waiting.tool = "none"
  BY <1>2 DEF NoWait, CallFields, Unset, AnyRun, R!NoRun
<1>6. Called  BY <1>5 DEF Called, Stages
<1>7. SawOneRun /\ ClearedFor /\ LogsLater
  BY <1>5 DEF SawOneRun, ClearedFor, LogsLater, Answers
<1> QED BY <1>3, <1>4, <1>6, <1>7 DEF WaitsIInv

\* The invariant of a wait holds in every reachable state.
THEOREM WaitsInvariance == WaitsSpec => []WaitsIInv
<1>1. WaitsInit => WaitsIInv  BY WaitsBegin
<1>2. WaitsIInv /\ [WaitsNext]_waitVars => WaitsIInv'
  <2> SUFFICES ASSUME WaitsIInv, [WaitsNext]_waitVars  PROVE WaitsIInv'
    OBVIOUS
  <2>1. CASE Consider  BY <2>1, ConsiderPreserves
  <2>2. CASE StartAwaited  BY <2>2, StartPreserves
  <2>3. CASE BackoffDue  BY <2>3, BackoffPreserves
  <2>4. CASE Write  BY <2>4, WritePreserves
  <2>5. CASE DependencyChanges
    BY <2>5, Irrelevant DEF DependencyChanges, ServerUnchanged
  <2>6. CASE \E outcome \in {"success", "failure"} : EndAwaited(outcome)
    BY <2>6, EndPreserves
  <2>7. CASE \E run \in {rt.running, rt.lastRun} : Attempt(run)
    BY <2>7, Irrelevant DEF Attempt, ServerUnchanged
  <2>8. CASE \E health \in {"healthy", "unhealthy"} : Verdict(health)
    BY <2>8, VerdictPreserves
  <2>9. CASE \E command \in {"restart", "enable", "disable", "stop", "replace"} :
               OtherClient(command)
    BY <2>9, OtherClientPreserves DEF Commands
  <2>10. CASE \E tool \in Tools : BeginTool(tool)  BY <2>10, BeginPreserves
  <2>11. CASE TakeCursor  BY <2>11, CursorPreserves
  <2>12. CASE Mutate  BY <2>12, MutatePreserves
  <2>13. CASE Health  BY <2>13, HealthPreserves
  <2>14. CASE Logs  BY <2>14, LogsPreserves
  <2>15. CASE \E late \in BOOLEAN : Poll(late)  BY <2>15, PollPreserves
  <2>16. CASE UNCHANGED waitVars
    BY <2>16, Irrelevant DEF waitVars, awaitedVars
  <2> QED BY <2>1, <2>2, <2>3, <2>4, <2>5, <2>6, <2>7, <2>8, <2>9, <2>10, <2>11,
             <2>12, <2>13, <2>14, <2>15, <2>16 DEF WaitsNext
<1> QED BY <1>1, <1>2, PTL DEF WaitsSpec

\* What a waiting tool answers is about one run, one that its caller may ask for.
THEOREM AnswerOfOneRunHolds == WaitsSpec => []AnswerOfOneRun
<1>1. WaitsIInv => AnswerOfOneRun
  <2> SUFFICES ASSUME WaitsIInv, waiting.stage = "over", waiting.outcome \in Answers
               PROVE  AnswerOfOneRun
    BY DEF AnswerOfOneRun, Answers
  <2> DEFINE run == waiting.snapshot.generation
  <2>1. /\ waiting.outcome # "timeout" => run > waiting.after
        /\ waiting.outcome = "healthy" /\ checked => run \in healthy
        /\ waiting.outcome = "exited" => waiting.snapshot.exit = exits[run]
        /\ waiting.attempt \in {0, run}
    BY DEF WaitsIInv, SawOneRun
  <2>2. (waiting.tool = "restart" /\ waiting.outcome # "timeout" /\ ~waiting.disturbed) =>
          \A i \in DOMAIN waiting.logs : waiting.logs[i] > waiting.after
    BY DEF WaitsIInv, LogsLater, Answers
  <2> QED BY <2>1, <2>2 DEF AnswerOfOneRun, R!NoRun
<1> QED BY <1>1, WaitsInvariance, PTL
=============================================================================
