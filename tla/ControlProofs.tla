---------------------------- MODULE ControlProofs -----------------------------
(***************************************************************************)
(* The control protocol, from the client's end to the disk: one session of *)
(* a project owns its control socket, for every number of sessions, probes *)
(* and socket paths; no session is overlooked, for every list of           *)
(* directories, sessions and selectors; the read pool counts what it does, *)
(* for every size of it; and a mutation is applied once at most and        *)
(* reported as what became of it, for every number of tools, connections,  *)
(* permits and commands.                                                   *)
(*                                                                         *)
(* That one session serves follows from the locks, not from the places the *)
(* sessions are in: `Locks` says which place goes with which lock, also on *)
(* the way out, where a session holds its locks but no socket any more.    *)
(***************************************************************************)
EXTENDS Connection, Endpoint, Selection, ReadPool, SequenceTheorems, FiniteSetTheorems, TLAPS

ClosingPlaces == {"unlinking", "unlocking endpoint", "unlocking project"}
Places ==
  {"new", "started", "elsewhere", "locked", "owner", "binding", "serving", "unavailable", "gone"}
    \cup ClosingPlaces

\* The places of a session that has the lock of its path, and of its project.
OwnsPath == {"owner", "binding", "serving", "unlinking", "unlocking endpoint"}
OwnsProject == OwnsPath \cup {"locked", "unlocking project"}

TypeOK ==
  /\ pc \in [Sessions -> Places]
  /\ path \in [Sessions -> Paths]
  /\ project \in SUBSET Sessions
  /\ owner \in [Paths -> SUBSET Sessions]
  /\ shared \in [Paths -> SUBSET Probes]
  /\ socket \in [Paths -> SUBSET Sessions]

\* A lock is held by the sessions at the places that go with it, and by one.
Locks ==
  /\ \A s \in Sessions : s \in project <=> pc[s] \in OwnsProject
  /\ \A s, t \in project : s = t
  /\ \A p \in Paths : \A s \in Sessions :
       s \in owner[p] <=> path[s] = p /\ pc[s] \in OwnsPath

\* A socket is of the session that serves there, or of one that crashed; a
\* session that may bind has cleared its path, so it never fails to.
Sockets ==
  /\ \A p \in Paths : \A s \in socket[p] :
       \/ pc[s] = "gone"
       \/ pc[s] \in {"serving", "unlinking"} /\ path[s] = p
  /\ \A s \in Sessions :
       /\ pc[s] \in {"serving", "unlinking"} => socket[path[s]] = {s}
       /\ pc[s] = "binding" => socket[path[s]] = {}
       /\ pc[s] # "unavailable"

Apart == \A p \in Paths : shared[p] = {} \/ owner[p] = {}

IInv == TypeOK /\ Locks /\ Sockets /\ Apart

\* The order in which a session that ends lets go of what it has.
LEMMA Order ==
  /\ Closing[1] = "unlinking"
  /\ After("unlinking") = "unlocking endpoint"
  /\ After("unlocking endpoint") = "unlocking project"
  /\ After("unlocking project") = "gone"
<1>1. Closing[1] = "unlinking" /\ Closing[2] = "unlocking endpoint" /\ Closing[3] = "unlocking project"
  BY DEF Closing
<1> QED BY <1>1 DEF After

\* The invariant holds at the start.
LEMMA InitInv == ASSUME EndpointAssumption, EndpointInit PROVE IInv
<1>1. (CHOOSE p \in Paths : TRUE) \in Paths BY DEF EndpointAssumption
<1>2. TypeOK BY <1>1 DEF EndpointInit, TypeOK, Places
<1>3. Locks BY DEF EndpointInit, Locks, OwnsProject, OwnsPath
<1>4. Sockets BY DEF EndpointInit, Sockets
<1>5. Apart BY DEF EndpointInit, Apart
<1> QED BY <1>2, <1>3, <1>4, <1>5 DEF IInv

-----------------------------------------------------------------------------

\* Every step keeps the types.
LEMMA TypeStep ==
  ASSUME TypeOK, NEW s \in Sessions, SessionStep(s) PROVE TypeOK'
<1> USE DEF TypeOK, At, Goes, Places, ClosingPlaces
<1>1. ASSUME NEW p \in Paths, Start(s, p) PROVE TypeOK' BY <1>1 DEF Start
<1>2. CASE LockProject(s) BY <1>2 DEF LockProject
<1>3. CASE LockEndpoint(s) BY <1>3 DEF LockEndpoint
<1>4. CASE GiveUp(s) BY <1>4 DEF GiveUp
<1>5. CASE RemoveStale(s) BY <1>5 DEF RemoveStale
<1>6. CASE Bind(s)
  <2>0. path[s] \in Paths OBVIOUS
  <2>1. pc' \in [Sessions -> Places]
    <3>1. pc' = [pc EXCEPT ![s] = "serving"] \/ pc' = [pc EXCEPT ![s] = "unavailable"]
      BY <1>6 DEF Bind
    <3> QED BY <3>1
  <2>2. socket' \in [Paths -> SUBSET Sessions]
    <3>1. socket' = socket \/ socket' = [socket EXCEPT ![path[s]] = {s}] BY <1>6 DEF Bind
    <3>2. {s} \in SUBSET Sessions OBVIOUS
    <3>3. [socket EXCEPT ![path[s]] = {s}] \in [Paths -> SUBSET Sessions] BY <2>0, <3>2
    <3> QED BY <3>1, <3>3
  <2>3. project' \in SUBSET Sessions /\ owner' \in [Paths -> SUBSET Sessions]
    <3>1. project' = project \/ project' = project \ {s} BY <1>6 DEF Bind
    <3>2. owner' = owner \/ owner' = [owner EXCEPT ![path[s]] = @ \ {s}] BY <1>6 DEF Bind
    <3> QED BY <2>0, <3>1, <3>2
  <2> QED BY <1>6, <2>1, <2>2, <2>3 DEF Bind
<1>7. CASE Shutdown(s) BY <1>7, Order DEF Shutdown
<1>8. CASE Unlink(s) BY <1>8, Order DEF Unlink
<1>9. CASE UnlockEndpoint(s) BY <1>9, Order DEF UnlockEndpoint
<1>10. CASE UnlockProject(s) BY <1>10, Order DEF UnlockProject
<1>11. CASE Crash(s) BY <1>11 DEF Crash
<1> QED
  BY <1>1, <1>2, <1>3, <1>4, <1>5, <1>6, <1>7, <1>8, <1>9, <1>10, <1>11 DEF SessionStep

\* A session that moves and takes or drops the locks that go with its new place
\* leaves every lock with the right places.
LEMMA LocksFollow ==
  ASSUME TypeOK, TypeOK', Locks, NEW s \in Sessions, NEW at \in Places, Goes(s, at),
         \A t \in Sessions \ {s} : path'[t] = path[t],
         at \in OwnsProject => project \subseteq {s},
         s \in project' <=> at \in OwnsProject,
         \A t \in Sessions \ {s} : t \in project' <=> t \in project,
         \A p \in Paths : s \in owner'[p] <=> path'[s] = p /\ at \in OwnsPath,
         \A p \in Paths : \A t \in Sessions \ {s} : t \in owner'[p] <=> t \in owner[p]
  PROVE  Locks'
<1>1. pc'[s] = at /\ \A t \in Sessions \ {s} : pc'[t] = pc[t] BY DEF TypeOK, Goes
<1>2. \A t \in Sessions : t \in project' <=> pc'[t] \in OwnsProject BY <1>1 DEF Locks
<1>3. \A t, u \in project' : t = u BY DEF Locks, TypeOK
<1>4. \A p \in Paths : \A t \in Sessions :
        t \in owner'[p] <=> path'[t] = p /\ pc'[t] \in OwnsPath
  BY <1>1 DEF Locks
<1> QED BY <1>2, <1>3, <1>4 DEF Locks

\* A lock has one holder, which is where it holds it.
LEMMA LocksStep ==
  ASSUME TypeOK, TypeOK', Locks, Sockets, NEW s \in Sessions, SessionStep(s) PROVE Locks'
<1>1. path[s] \in Paths BY DEF TypeOK
<1>2. /\ s \in project <=> pc[s] \in OwnsProject
      /\ \A p \in Paths : s \in owner[p] <=> path[s] = p /\ pc[s] \in OwnsPath
      /\ s \in project => project = {s}
  BY DEF Locks, TypeOK
<1>3. ASSUME NEW at \in Places, Goes(s, at), UNCHANGED <<path, project, owner>>,
             at \in OwnsProject <=> pc[s] \in OwnsProject, at \in OwnsPath <=> pc[s] \in OwnsPath
      PROVE  Locks'
  BY <1>2, <1>3, LocksFollow
<1>4. /\ \A at \in {"new", "started", "elsewhere", "gone"} :
           at \in Places /\ at \notin OwnsProject /\ at \notin OwnsPath
      /\ \A at \in {"locked", "unlocking project"} :
           at \in Places /\ at \in OwnsProject /\ at \notin OwnsPath
      /\ \A at \in {"owner", "binding", "serving", "unlinking", "unlocking endpoint"} :
           at \in Places /\ at \in OwnsProject /\ at \in OwnsPath
  BY DEF Places, ClosingPlaces, OwnsProject, OwnsPath
\* A session without the lock of its path and one that drops the project's.
<1>5. ASSUME NEW at \in Places, Goes(s, at), at \notin OwnsProject, at \notin OwnsPath,
             pc[s] \notin OwnsPath, project' = project \ {s}, UNCHANGED owner,
             \A t \in Sessions \ {s} : path'[t] = path[t]
      PROVE  Locks'
  <2>1. \A p \in Paths : s \notin owner[p] BY <1>2, <1>5
  <2> QED BY <1>5, <2>1, LocksFollow
<1>6. ASSUME NEW p \in Paths, Start(s, p) PROVE Locks'
  <2>1. Goes(s, "started") /\ pc[s] = "new" /\ UNCHANGED <<project, owner>>
    BY <1>6 DEF Start, At
  <2>2. \A t \in Sessions \ {s} : path'[t] = path[t] BY <1>6 DEF Start, TypeOK
  <2>3. project' = project \ {s} BY <1>2, <1>4, <2>1
  <2> QED BY <1>4, <1>5, <2>1, <2>2, <2>3
<1>7. CASE LockProject(s)
  <2>1. pc[s] = "started" /\ UNCHANGED <<path, owner>> BY <1>7 DEF LockProject, At
  <2>2. CASE project = {}
    <3>1. project' = {s} /\ Goes(s, "locked") BY <1>7, <2>2 DEF LockProject
    <3>2. \A p \in Paths : s \notin owner[p] BY <1>2, <1>4, <2>1
    <3> QED BY <1>4, <2>1, <2>2, <3>1, <3>2, LocksFollow
  <2>3. CASE project # {}
    <3>1. UNCHANGED project /\ Goes(s, "elsewhere") BY <1>7, <2>3 DEF LockProject
    <3> QED BY <1>3, <1>4, <2>1, <3>1
  <2> QED BY <2>2, <2>3
<1>8. CASE LockEndpoint(s)
  <2>1. pc[s] = "locked" /\ Goes(s, "owner") /\ UNCHANGED <<path, project>>
    BY <1>8 DEF LockEndpoint, At
  <2>2. \A p \in Paths : \A t \in Sessions :
          t \in owner'[p] <=> t \in owner[p] \/ (t = s /\ p = path[s])
    BY <1>1, <1>8 DEF LockEndpoint, TypeOK
  <2>3. \A p \in Paths : s \in owner'[p] <=> path'[s] = p BY <1>2, <1>4, <2>1, <2>2
  <2>4. \A p \in Paths : \A t \in Sessions \ {s} : t \in owner'[p] <=> t \in owner[p]
    BY <2>2
  <2>5. project \subseteq {s} /\ s \in project' BY <1>2, <1>4, <2>1
  <2>6. "owner" \in Places /\ "owner" \in OwnsProject /\ "owner" \in OwnsPath BY <1>4
  <2> QED BY <2>1, <2>3, <2>4, <2>5, <2>6, LocksFollow
<1>9. CASE GiveUp(s)
  <2>1. /\ pc[s] = "locked" /\ Goes(s, "elsewhere")
        /\ project' = project \ {s} /\ UNCHANGED <<path, owner>>
    BY <1>9 DEF GiveUp, At
  <2> QED BY <1>4, <1>5, <2>1
<1>10. CASE RemoveStale(s) BY <1>3, <1>4, <1>10 DEF RemoveStale, At
<1>11. CASE Bind(s)
  <2>1. socket[path[s]] = {} BY <1>11 DEF Bind, Sockets, At
  <2> QED BY <1>3, <1>4, <1>11, <2>1 DEF Bind, At
<1>12. CASE Shutdown(s) BY <1>3, <1>4, <1>12, Order DEF Shutdown, At
<1>13. CASE Unlink(s) BY <1>3, <1>4, <1>13, Order DEF Unlink, At
<1>14. CASE UnlockEndpoint(s)
  <2>1. /\ pc[s] = "unlocking endpoint" /\ Goes(s, "unlocking project")
        /\ UNCHANGED <<path, project>>
    BY <1>14, Order DEF UnlockEndpoint, At
  <2>2. \A p \in Paths : \A t \in Sessions :
          t \in owner'[p] <=> t \in owner[p] /\ ~(t = s /\ p = path[s])
    BY <1>1, <1>14 DEF UnlockEndpoint, TypeOK
  <2>3. \A p \in Paths : s \notin owner'[p] BY <1>2, <2>2
  <2>4. \A p \in Paths : \A t \in Sessions \ {s} : t \in owner'[p] <=> t \in owner[p]
    BY <2>2
  <2> QED BY <1>2, <1>4, <2>1, <2>3, <2>4, LocksFollow
<1>15. CASE UnlockProject(s)
  <2>1. /\ pc[s] = "unlocking project" /\ Goes(s, "gone")
        /\ project' = project \ {s} /\ UNCHANGED <<path, owner>>
    BY <1>15, Order DEF UnlockProject, At
  <2> QED BY <1>4, <1>5, <2>1
<1>16. CASE Crash(s)
  <2>1. /\ Goes(s, "gone") /\ project' = project \ {s} /\ UNCHANGED path
        /\ \A p \in Paths : owner'[p] = owner[p] \ {s}
    BY <1>16 DEF Crash
  <2>2. "gone" \in Places /\ "gone" \notin OwnsProject /\ "gone" \notin OwnsPath BY <1>4
  <2> QED BY <2>1, <2>2, LocksFollow
<1> QED
  BY <1>6, <1>7, <1>8, <1>9, <1>10, <1>11, <1>12, <1>13, <1>14, <1>15, <1>16 DEF SessionStep

\* A socket that somebody listens on is that of the process that holds the lock.
LEMMA SocketsStep ==
  ASSUME TypeOK, Locks, Sockets, NEW s \in Sessions, SessionStep(s) PROVE Sockets'
<1> USE DEF TypeOK, Sockets, At, Goes
<1>0. \A t, u \in Sessions : pc[t] \in OwnsProject /\ pc[u] \in OwnsProject => t = u
  BY DEF Locks
<1>1. ASSUME NEW p \in Paths, Start(s, p) PROVE Sockets' BY <1>1 DEF Start
<1>2. CASE LockProject(s) BY <1>2 DEF LockProject
<1>3. CASE LockEndpoint(s) BY <1>3 DEF LockEndpoint
<1>4. CASE GiveUp(s) BY <1>4 DEF GiveUp
<1>5. CASE RemoveStale(s)
  <2>1. path[s] \in Paths /\ pc[s] = "owner" BY <1>5 DEF RemoveStale
  <2>2. /\ \A p \in Paths : socket'[p] = IF p = path[s] THEN {} ELSE socket[p]
        /\ \A t \in Sessions : pc'[t] = IF t = s THEN "binding" ELSE pc[t]
        /\ UNCHANGED path
    BY <1>5, <2>1 DEF RemoveStale
  <2>3. \A t \in Sessions : pc[t] \notin {"serving", "unlinking", "binding"}
    BY <1>0, <2>1 DEF OwnsProject, OwnsPath
  <2>4. ASSUME NEW p \in Paths, NEW t \in socket'[p] PROVE pc'[t] = "gone"
    <3>1. p # path[s] /\ t \in socket[p] /\ t \in Sessions BY <2>2, <2>4
    <3>2. pc[t] = "gone" BY <2>3, <3>1
    <3> QED BY <2>1, <2>2, <3>1, <3>2
  <2>5. ASSUME NEW t \in Sessions PROVE pc'[t] \notin {"serving", "unlinking", "unavailable"}
    BY <2>2, <2>3
  <2>6. ASSUME NEW t \in Sessions, pc'[t] = "binding" PROVE socket'[path'[t]] = {}
    BY <2>1, <2>2, <2>3, <2>6
  <2> QED BY <2>4, <2>5, <2>6
<1>6. CASE Bind(s)
  <2>1. path[s] \in Paths /\ pc[s] = "binding" /\ socket[path[s]] = {}
    BY <1>6 DEF Bind
  <2>2. /\ \A p \in Paths : socket'[p] = IF p = path[s] THEN {s} ELSE socket[p]
        /\ \A t \in Sessions : pc'[t] = IF t = s THEN "serving" ELSE pc[t]
        /\ UNCHANGED path
    BY <1>6, <2>1 DEF Bind
  <2>3. \A t \in Sessions : pc[t] \in {"serving", "unlinking", "binding"} => t = s
    BY <1>0, <2>1 DEF OwnsProject, OwnsPath
  <2> QED BY <2>1, <2>2, <2>3
<1>7. CASE Shutdown(s) BY <1>7, Order DEF Shutdown
<1>8. CASE Unlink(s)
  <2>1. path[s] \in Paths /\ pc[s] = "unlinking" /\ socket[path[s]] = {s}
    BY <1>8 DEF Unlink
  <2>2. /\ \A p \in Paths : socket'[p] = IF p = path[s] THEN {} ELSE socket[p]
        /\ \A t \in Sessions : pc'[t] = IF t = s THEN "unlocking endpoint" ELSE pc[t]
        /\ UNCHANGED path
    BY <1>8, <2>1, Order DEF Unlink
  <2>3. \A t \in Sessions : pc[t] \in {"serving", "unlinking", "binding"} => t = s
    BY <1>0, <2>1 DEF OwnsProject, OwnsPath
  <2>4. ASSUME NEW p \in Paths, NEW t \in socket'[p] PROVE pc'[t] = "gone"
    <3>1. p # path[s] /\ t \in socket[p] /\ t \in Sessions BY <2>2, <2>4
    <3>2. pc[t] = "gone" \/ (pc[t] \in {"serving", "unlinking"} /\ path[t] = p) BY <3>1
    <3> QED BY <2>1, <2>2, <2>3, <3>1, <3>2
  <2>5. ASSUME NEW t \in Sessions
        PROVE  pc'[t] \notin {"serving", "unlinking", "binding", "unavailable"}
    BY <2>2, <2>3
  <2> QED BY <2>4, <2>5
<1>9. CASE UnlockEndpoint(s) BY <1>9, Order DEF UnlockEndpoint
<1>10. CASE UnlockProject(s) BY <1>10, Order DEF UnlockProject
<1>11. CASE Crash(s) BY <1>11 DEF Crash
<1> QED
  BY <1>1, <1>2, <1>3, <1>4, <1>5, <1>6, <1>7, <1>8, <1>9, <1>10, <1>11 DEF SessionStep

\* Two sessions never own one path.
LEMMA ApartStep ==
  ASSUME TypeOK, Apart, NEW s \in Sessions, SessionStep(s) PROVE Apart'
<1>1. UNCHANGED shared
  BY DEF SessionStep, Start, LockProject, LockEndpoint, GiveUp, RemoveStale, Bind, Shutdown,
    Unlink, UnlockEndpoint, UnlockProject, Crash
<1>2. CASE LockEndpoint(s) BY <1>1, <1>2 DEF LockEndpoint, TypeOK, Apart
<1>3. CASE \A p \in Paths : owner'[p] \subseteq owner[p] BY <1>1, <1>3 DEF Apart
<1>4. LockEndpoint(s) \/ \A p \in Paths : owner'[p] \subseteq owner[p]
  BY DEF SessionStep, Start, LockProject, GiveUp, RemoveStale, Bind, Shutdown,
    Unlink, UnlockEndpoint, UnlockProject, Crash, TypeOK
<1> QED BY <1>2, <1>3, <1>4

\* A probe changes none of it.
LEMMA ProbeStepKeeps == ASSUME IInv, NEW c \in Probes, ProbeStep(c) PROVE IInv'
<1>1. UNCHANGED <<pc, path, project, owner, socket>>
  BY DEF ProbeStep, Probe, ProbeEnds
<1>2. TypeOK' BY <1>1 DEF IInv, TypeOK, ProbeStep, Probe, ProbeEnds
<1>3. Locks' BY <1>1 DEF IInv, Locks
<1>4. Sockets' BY <1>1 DEF IInv, Sockets
<1>5. Apart' BY <1>1 DEF IInv, TypeOK, Apart, ProbeStep, Probe, ProbeEnds
<1> QED BY <1>2, <1>3, <1>4, <1>5 DEF IInv

\* The strengthened invariant holds of every endpoint.
THEOREM Invariance == ASSUME EndpointAssumption PROVE EndpointSpec => []IInv
<1>1. EndpointInit => IInv BY InitInv
<1>2. IInv /\ [EndpointNext]_endpointVars => IInv'
  <2> SUFFICES ASSUME IInv, [EndpointNext]_endpointVars PROVE IInv'
    OBVIOUS
  <2>1. ASSUME NEW s \in Sessions, SessionStep(s) PROVE IInv'
    BY <2>1, TypeStep, LocksStep, SocketsStep, ApartStep DEF IInv
  <2>2. ASSUME NEW c \in Probes, ProbeStep(c) PROVE IInv' BY <2>2, ProbeStepKeeps
  <2>3. CASE UNCHANGED endpointVars BY <2>3 DEF endpointVars, IInv, TypeOK, Locks, Sockets, Apart
  <2> QED BY <2>1, <2>2, <2>3 DEF EndpointNext
<1> QED BY <1>1, <1>2, PTL DEF EndpointSpec

\* One session of a project serves; the socket at its path is its own from
\* the bind until it removes it; and a path that a probe holds has no owner.
THEOREM OneOwnerHolds == ASSUME EndpointAssumption PROVE EndpointSpec => []OneOwner
<1>1. IInv => OneOwner
  <2> SUFFICES ASSUME IInv PROVE OneOwner OBVIOUS
  <2>1. \A s, t \in Sessions : pc[s] \in OwnsProject /\ pc[t] \in OwnsProject => s = t
    BY DEF IInv, Locks
  <2>2. ASSUME NEW s \in Sessions, At(s, "serving") \/ At(s, "unlinking")
        PROVE  socket[path[s]] = {s} /\ owner[path[s]] = {s} /\ project = {s}
    <3>1. pc[s] \in OwnsPath /\ pc[s] \in OwnsProject BY <2>2 DEF At, OwnsPath, OwnsProject
    <3>2. project = {s} BY <3>1 DEF IInv, Locks, TypeOK
    <3>3. path[s] \in Paths BY DEF IInv, TypeOK
    <3>4. s \in owner[path[s]] BY <3>1, <3>3 DEF IInv, Locks
    <3>5. \A t \in owner[path[s]] : t = s
      BY <2>1, <3>1, <3>3 DEF IInv, Locks, TypeOK, OwnsProject
    <3>6. owner[path[s]] = {s} BY <3>4, <3>5
    <3>7. socket[path[s]] = {s} BY <2>2, <3>5 DEF IInv, Sockets, At
    <3> QED BY <3>2, <3>6, <3>7
  <2>3. \A s \in Sessions :
          (At(s, "binding") => socket[path[s]] = {}) /\ ~At(s, "unavailable")
    BY DEF IInv, Sockets, At
  <2>4. \A p \in Paths : \A s \in socket[p] : pc[s] \in {"serving", "unlinking", "gone"}
    BY DEF IInv, Sockets
  <2>5. \A p \in Paths : shared[p] = {} \/ owner[p] = {} BY DEF IInv, Apart
  <2> DEFINE Holds(s) == pc[s] \in {"locked", "owner", "binding", "serving", "unlinking"}
  <2>6. \A s : Holds(s) => pc[s] \in OwnsProject BY DEF OwnsProject, OwnsPath
  <2>7. \A s, t \in Sessions : Holds(s) /\ Holds(t) => s = t BY <2>1, <2>6
  <2> QED BY <2>2, <2>3, <2>4, <2>5, <2>7 DEF OneOwner
<1> QED BY <1>1, Invariance, PTL

-----------------------------------------------------------------------------
(***************************************************************************)
(* Choosing a session.  A session that was up during the whole call is     *)
(* probed (`Covered`), and what is known of its socket is its own answer   *)
(* or none to use (`Truthful`), since one session of a project is up and   *)
(* its socket is there (`Reachable`).  A current selection concludes from  *)
(* two rounds: nothing but `NoneMeant` remains of the first.               *)
(***************************************************************************)

\* Whose answers are there, and what is left to read.
Shape ==
  /\ choice = [pc |-> choice.pc, selector |-> choice.selector, unread |-> choice.unread,
               targets |-> choice.targets, answers |-> choice.answers,
               found |-> choice.found, outcome |-> choice.outcome]
  /\ choice.unread \in Seq(Dirs)
  /\ life \in [ProjectSessions -> {"new", "up", "gone"}]

\* One session of a project is up, and its socket is there.
Reachable ==
  /\ through \subseteq {s \in ProjectSessions : life[s] = "up"}
  /\ \A s, t \in ProjectSessions :
       life[s] = "up" /\ life[t] = "up" /\ s.config = t.config => s = t
  /\ \A s \in ProjectSessions : life[s] = "up" => SocketOf(s) \in sockets

\* Of a session that has been up all along, a usable answer is its own.
Truthful ==
  \A s \in through : SocketOf(s) \in Heard =>
    NotUsable(choice.answers[SocketOf(s)]) \/ choice.answers[SocketOf(s)].who = {s}

\* No such session is left out of what is probed.
Covered ==
  /\ choice.pc = "derived" => \A s \in through :
       Matches(choice.selector, s) => SocketOf(s) \in choice.targets
  /\ choice.pc = "list" => \A s \in through :
       SocketOf(s) \in choice.targets \/ \E i \in DOMAIN choice.unread : choice.unread[i] = s.dir

\* What the derived endpoints said stands.
NoneMeant ==
  choice.pc = "list" /\ choice.selector.kind \in {"config", "project"} /\ choice.outcome = "none" =>
    \A s \in through : ~ Matches(choice.selector, s)

SelectionInv == Shape /\ Reachable /\ Truthful /\ Covered /\ NoneMeant /\ AbsenceIsReal

LEMMA SelectionInitially == SelectionAssumption /\ SelectionInit => SelectionInv
<1> SUFFICES ASSUME SelectionAssumption, SelectionInit PROVE SelectionInv
  OBVIOUS
<1>1. /\ choice = NoChoice /\ choice.pc = "idle" /\ choice.unread = <<>>
      /\ through = {} /\ choice.unread \in Seq(Dirs)
  BY DEF SelectionInit, NoChoice
<1>2. Shape  BY <1>1 DEF SelectionInit, Shape, NoChoice
<1>3. Reachable  BY <1>1 DEF SelectionInit, Reachable
<1> QED BY <1>1, <1>2, <1>3 DEF SelectionInv, Truthful, Covered, NoneMeant, AbsenceIsReal

\* A session comes or goes, or nothing happens: what a call knows stays true of
\* those that remain.
LEMMA SelectionRests ==
  ASSUME SelectionInv, UNCHANGED choice, through' \subseteq through
  PROVE  Truthful' /\ Covered' /\ NoneMeant' /\ AbsenceIsReal'
<1>1. Truthful'  BY DEF SelectionInv, Truthful, Heard
<1>2. Covered'  BY DEF SelectionInv, Covered
<1>3. NoneMeant'  BY DEF SelectionInv, NoneMeant
<1>4. AbsenceIsReal'  BY DEF SelectionInv, AbsenceIsReal, Heard
<1> QED BY <1>1, <1>2, <1>3, <1>4

LEMMA ComeOrGoStep ==
  ASSUME SelectionInv, NEW s \in ProjectSessions,
         BindSession(s) \/ \E crash \in BOOLEAN : EndSession(s, crash)
  PROVE  SelectionInv'
<1>1. /\ UNCHANGED choice /\ through' \subseteq through
      /\ life \in [ProjectSessions -> {"new", "up", "gone"}]
  BY DEF SelectionInv, Shape, BindSession, EndSession
<1>2. CASE BindSession(s)
  <2>1. /\ life' = [life EXCEPT ![s] = "up"] /\ sockets' = sockets \cup {SocketOf(s)}
        /\ through' = through /\ life[s] = "new"
        /\ \A t \in ProjectSessions : life[t] = "up" => t.config # s.config
    BY <1>2 DEF BindSession
  <2>2. \A t \in ProjectSessions : life'[t] = IF t = s THEN "up" ELSE life[t]
    BY <1>1, <2>1
  <2>3. Reachable'  BY <2>1, <2>2 DEF SelectionInv, Reachable
  <2>4. Shape'  BY <1>1, <2>1 DEF SelectionInv, Shape
  <2> QED BY <1>1, <2>3, <2>4, SelectionRests DEF SelectionInv
<1>3. ASSUME NEW crash \in BOOLEAN, EndSession(s, crash)
      PROVE  SelectionInv'
  <2>1. /\ life' = [life EXCEPT ![s] = "gone"] /\ sockets \ {SocketOf(s)} \subseteq sockets'
        /\ through' = through \ {s} /\ life[s] = "up"
    BY <1>3 DEF EndSession
  <2>2. \A t \in ProjectSessions : life'[t] = IF t = s THEN "gone" ELSE life[t]
    BY <1>1, <2>1
  <2>3. ASSUME NEW t \in ProjectSessions, life'[t] = "up"
        PROVE  SocketOf(t) \in sockets'
    <3>1. t # s /\ life[t] = "up"  BY <2>2, <2>3
    <3>2. t.config # s.config  BY <3>1, <2>1 DEF SelectionInv, Reachable
    <3>3. SocketOf(t) # SocketOf(s)  BY <3>2 DEF SocketOf, EndpointFor
    <3> QED BY <3>1, <3>3, <2>1 DEF SelectionInv, Reachable
  <2>4. Reachable'  BY <2>1, <2>2, <2>3 DEF SelectionInv, Reachable
  <2>5. Shape'  BY <1>1, <2>1 DEF SelectionInv, Shape
  <2> QED BY <1>1, <2>4, <2>5, SelectionRests DEF SelectionInv
<1> QED BY <1>2, <1>3

LEMMA BeginChoiceStep ==
  ASSUME SelectionAssumption, SelectionInv, BeginChoice
  PROVE  SelectionInv'
<1>1. PICK selector \in Selectors :
        LET derived == {EndpointFor(d, Config(selector)) : d \in Dirs}
            state == [NoChoice EXCEPT !.selector = selector]
        IN  choice' =
          IF ~ Derives(selector) THEN [state EXCEPT !.pc = "list", !.unread = DirList]
          ELSE IF Config(selector) = NoConfig THEN [state EXCEPT !.pc = "done"]
          ELSE [state EXCEPT !.pc = "derived", !.targets = derived]
  BY DEF BeginChoice
<1>2. UNCHANGED <<life, sockets>> /\ through' = {s \in ProjectSessions : life[s] = "up"}
  BY DEF BeginChoice
<1>3. Reachable'  BY <1>2 DEF SelectionInv, Reachable
<1>4. /\ DirList \in Seq(Dirs) /\ <<>> \in Seq(Dirs)
      /\ \A s \in ProjectSessions : s.dir \in Dirs /\ \E i \in DOMAIN DirList : DirList[i] = s.dir
  <2>1. DirList \in Seq(Dirs)  BY DEF SelectionAssumption
  <2> QED BY <2>1 DEF SelectionAssumption, Dirs
<1>5. /\ choice'.selector = selector /\ choice'.answers = <<>> /\ choice'.found = {}
      /\ choice'.outcome = "none"
      /\ choice' = [pc |-> choice'.pc, selector |-> choice'.selector, unread |-> choice'.unread,
                    targets |-> choice'.targets, answers |-> choice'.answers,
                    found |-> choice'.found, outcome |-> choice'.outcome]
      /\ choice'.unread \in Seq(Dirs)
      /\ \/ ~ Derives(selector) /\ choice'.pc = "list" /\ choice'.unread = DirList
         \/ Derives(selector) /\ Config(selector) = NoConfig /\ choice'.pc = "done"
         \/ /\ Derives(selector) /\ choice'.pc = "derived"
            /\ choice'.targets = {EndpointFor(d, Config(selector)) : d \in Dirs}
  BY <1>1, <1>4 DEF NoChoice
<1>6. Shape'  BY <1>2, <1>5 DEF SelectionInv, Shape
<1>7. Truthful'  BY <1>5 DEF Truthful, Heard
<1>8. ASSUME Derives(selector), NEW s, Matches(selector, s)
      PROVE  s.config = Config(selector)
  BY <1>8 DEF Derives, Matches
<1>9. Covered'
  <2>1. ASSUME choice'.pc = "derived", NEW s \in through', Matches(selector, s)
        PROVE  SocketOf(s) \in choice'.targets
    <3>1. s.config = Config(selector) /\ s.dir \in Dirs  BY <2>1, <1>2, <1>4, <1>5, <1>8
    <3> QED BY <3>1, <2>1, <1>5 DEF SocketOf, EndpointFor
  <2>2. ASSUME choice'.pc = "list", NEW s \in through'
        PROVE  \E i \in DOMAIN choice'.unread : choice'.unread[i] = s.dir
    BY <2>2, <1>2, <1>4, <1>5
  <2> QED BY <2>1, <2>2, <1>5 DEF Covered
<1>10. NoneMeant'  BY <1>5 DEF NoneMeant, Derives
<1>11. AbsenceIsReal'
  <2>1. ASSUME choice'.pc = "done", NEW s \in through', Matches(selector, s)
        PROVE  FALSE
    <3>1. s.config = NoConfig /\ s \in ProjectSessions  BY <2>1, <1>2, <1>5, <1>8
    <3> QED BY <3>1 DEF SelectionAssumption
  <2> QED BY <2>1, <1>5 DEF AbsenceIsReal
<1> QED BY <1>3, <1>6, <1>7, <1>9, <1>10, <1>11 DEF SelectionInv

LEMMA ListDirStep ==
  ASSUME SelectionInv, ListDir
  PROVE  SelectionInv'
<1>1. /\ UNCHANGED <<life, sockets, through>> /\ choice.pc = "list"
      /\ choice.unread # <<>> /\ choice.unread \in Seq(Dirs)
      /\ choice' = [choice EXCEPT !.unread = Tail(@),
                      !.targets = @ \cup {e \in sockets : e[1] = Head(choice.unread)}]
  BY DEF SelectionInv, Shape, ListDir
<1>2. /\ choice'.unread = Tail(choice.unread)
      /\ choice'.targets = choice.targets \cup {e \in sockets : e[1] = Head(choice.unread)}
      /\ choice'.pc = "list" /\ choice'.selector = choice.selector
      /\ choice'.answers = choice.answers /\ choice'.outcome = choice.outcome
      /\ choice' = [pc |-> choice'.pc, selector |-> choice'.selector, unread |-> choice'.unread,
                    targets |-> choice'.targets, answers |-> choice'.answers,
                    found |-> choice'.found, outcome |-> choice'.outcome]
  BY <1>1 DEF SelectionInv, Shape
<1>3. Tail(choice.unread) \in Seq(Dirs)  BY <1>1, HeadTailProperties
<1>4. Shape'  BY <1>1, <1>2, <1>3 DEF SelectionInv, Shape
<1>5. Reachable' /\ Truthful' /\ NoneMeant'
  BY <1>1, <1>2 DEF SelectionInv, Reachable, Truthful, NoneMeant, Heard
<1>6. Covered'
  <2> SUFFICES ASSUME NEW s \in through
               PROVE  \/ SocketOf(s) \in choice'.targets
                      \/ \E i \in DOMAIN choice'.unread : choice'.unread[i] = s.dir
    BY <1>1, <1>2 DEF Covered
  <2>1. CASE SocketOf(s) \in choice.targets  BY <2>1, <1>2
  <2>2. ASSUME NEW i \in DOMAIN choice.unread, choice.unread[i] = s.dir
        PROVE  \/ SocketOf(s) \in choice'.targets
               \/ \E j \in DOMAIN choice'.unread : choice'.unread[j] = s.dir
    <3>1. CASE i = 1
      <4>1. Head(choice.unread) = s.dir  BY <1>1, <2>2, <3>1
      <4>2. SocketOf(s) \in sockets /\ SocketOf(s)[1] = s.dir
        BY DEF SelectionInv, Reachable, SocketOf, EndpointFor
      <4> QED BY <4>1, <4>2, <1>2
    <3>2. CASE i # 1
      <4>1. /\ DOMAIN choice.unread = 1 .. Len(choice.unread) /\ Len(choice.unread) \in Nat
            /\ DOMAIN Tail(choice.unread) = 1 .. Len(choice.unread) - 1
            /\ \A j \in 1 .. Len(choice.unread) - 1 : Tail(choice.unread)[j] = choice.unread[j + 1]
        BY <1>1, HeadTailProperties
      <4>2. i - 1 \in DOMAIN Tail(choice.unread) /\ Tail(choice.unread)[i - 1] = s.dir
        BY <4>1, <2>2, <3>2
      <4> QED BY <4>2, <1>2
    <3> QED BY <3>1, <3>2
  <2> QED BY <2>1, <2>2, <1>1 DEF SelectionInv, Covered
<1>7. AbsenceIsReal'  BY <1>2 DEF AbsenceIsReal
<1> QED BY <1>4, <1>5, <1>6, <1>7 DEF SelectionInv

LEMMA ProbeSocketStep ==
  ASSUME SelectionInv, ProbeSocket
  PROVE  SelectionInv'
<1>1. /\ UNCHANGED <<life, sockets, through>> /\ choice.pc \in {"derived", "list"}
      /\ choice.unread \in Seq(Dirs)
  BY DEF SelectionInv, Shape, ProbeSocket
<1>2. PICK e \in choice.targets \ Heard : \E answer \in Answers(e) :
        choice' = [choice EXCEPT !.answers =
                     [x \in DOMAIN @ \cup {e} |-> IF x = e THEN answer ELSE @[x]]]
  BY DEF ProbeSocket
<1>3. PICK answer \in Answers(e) :
        choice' = [choice EXCEPT !.answers =
                     [x \in DOMAIN @ \cup {e} |-> IF x = e THEN answer ELSE @[x]]]
  BY <1>2
<1>4. /\ choice'.answers = [x \in DOMAIN choice.answers \cup {e} |->
                              IF x = e THEN answer ELSE choice.answers[x]]
      /\ choice'.pc = choice.pc /\ choice'.selector = choice.selector
      /\ choice'.unread = choice.unread /\ choice'.targets = choice.targets
      /\ choice'.outcome = choice.outcome
      /\ choice' = [pc |-> choice'.pc, selector |-> choice'.selector, unread |-> choice'.unread,
                    targets |-> choice'.targets, answers |-> choice'.answers,
                    found |-> choice'.found, outcome |-> choice'.outcome]
  BY <1>3 DEF SelectionInv, Shape
<1>5. Shape'  BY <1>1, <1>4 DEF SelectionInv, Shape
<1>6. Reachable' /\ Covered' /\ NoneMeant'
  BY <1>1, <1>4 DEF SelectionInv, Reachable, Covered, NoneMeant
<1>7. Truthful'
  <2> SUFFICES ASSUME NEW s \in through, SocketOf(s) \in DOMAIN choice'.answers
               PROVE  \/ NotUsable(choice'.answers[SocketOf(s)])
                      \/ choice'.answers[SocketOf(s)].who = {s}
    BY <1>1 DEF Truthful, Heard
  <2>1. CASE SocketOf(s) # e
    <3>1. SocketOf(s) \in Heard /\ choice'.answers[SocketOf(s)] = choice.answers[SocketOf(s)]
      BY <2>1, <1>4 DEF Heard
    <3> QED BY <3>1 DEF SelectionInv, Truthful
  <2>2. CASE SocketOf(s) = e
    <3>1. choice'.answers[SocketOf(s)] = answer  BY <2>2, <1>4
    <3>2. s \in ProjectSessions /\ life[s] = "up"  BY DEF SelectionInv, Reachable
    <3>3. UpAt(e) = {s}
      <4>1. s \in UpAt(e)  BY <2>2, <3>2 DEF UpAt
      <4>2. ASSUME NEW t \in UpAt(e) PROVE t = s
        <5>1. t.config = s.config  BY <2>2, <4>2 DEF UpAt, SocketOf, EndpointFor
        <5> QED BY <5>1, <3>2, <4>2 DEF UpAt, SelectionInv, Reachable
      <4> QED BY <4>1, <4>2
    <3>4. answer \in {Unreachable, Mismatch, AnswerOf(s)}  BY <3>3 DEF Answers
    <3> QED BY <3>1, <3>4 DEF Unreachable, Mismatch, AnswerOf, NotUsable, Usable
  <2> QED BY <2>1, <2>2
<1>8. AbsenceIsReal'  BY <1>1, <1>4 DEF AbsenceIsReal
<1> QED BY <1>5, <1>6, <1>7, <1>8 DEF SelectionInv

\* Once every socket has been probed, a session that was up is known.
LEMMA Known ==
  ASSUME SelectionInv, AllProbed, NEW s \in through, SocketOf(s) \in choice.targets
  PROVE  /\ SocketOf(s) \in Heard
         /\ s \in Found \/ (NotUsable(choice.answers[SocketOf(s)]) /\ Blocked)
<1>1. SocketOf(s) \in Heard  BY DEF AllProbed
<1>2. CASE choice.answers[SocketOf(s)].who = {s}  BY <1>1, <1>2 DEF Found
<1>3. CASE NotUsable(choice.answers[SocketOf(s)])  BY <1>1, <1>3 DEF Blocked
<1> QED BY <1>1, <1>2, <1>3 DEF SelectionInv, Truthful

\* And that call ends knowing it.
LEMMA ConcludeStep ==
  ASSUME SelectionInv, UNCHANGED <<life, sockets, through>>, NEW outcome, NEW found,
         Conclude(outcome, found),
         \A s \in through : Matches(choice.selector, s) =>
           \/ s \in found
           \/ /\ outcome # "none"
              /\ SocketOf(s) \in Heard /\ NotUsable(choice.answers[SocketOf(s)])
  PROVE  SelectionInv'
<1>1. /\ choice'.pc = "done" /\ choice'.outcome = outcome /\ choice'.found = found
      /\ choice'.answers = choice.answers /\ choice'.selector = choice.selector
      /\ choice'.unread = choice.unread
      /\ choice' = [pc |-> choice'.pc, selector |-> choice'.selector, unread |-> choice'.unread,
                    targets |-> choice'.targets, answers |-> choice'.answers,
                    found |-> choice'.found, outcome |-> choice'.outcome]
  BY DEF Conclude, SelectionInv, Shape
<1>2. Shape'  BY <1>1 DEF SelectionInv, Shape
<1>3. Reachable' /\ Truthful' /\ Covered' /\ NoneMeant'
  BY <1>1 DEF SelectionInv, Reachable, Truthful, Covered, NoneMeant, Heard
<1>4. AbsenceIsReal'  BY <1>1 DEF AbsenceIsReal, Heard
<1> QED BY <1>2, <1>3, <1>4 DEF SelectionInv

LEMMA ClassifiedNone ==
  ASSUME NEW matches, Classified(matches) = "none"
  PROVE  matches = {} /\ ~Blocked
BY DEF Classified

LEMMA VerifyStep ==
  ASSUME SelectionAssumption, SelectionInv, Verify
  PROVE  SelectionInv'
<1> DEFINE outcome == Classified(Found)
<1>1. choice.pc = "derived" /\ AllProbed /\ UNCHANGED <<life, sockets, through>>
  BY DEF Verify
<1>2. ASSUME NEW s \in through, Matches(choice.selector, s)
      PROVE  /\ outcome # "none"
             /\ \/ s \in Found
                \/ SocketOf(s) \in Heard /\ NotUsable(choice.answers[SocketOf(s)])
  <2>1. SocketOf(s) \in choice.targets  BY <1>1, <1>2 DEF SelectionInv, Covered
  <2>2. /\ SocketOf(s) \in Heard
        /\ s \in Found \/ (NotUsable(choice.answers[SocketOf(s)]) /\ Blocked)
    BY <1>1, <2>1, Known
  <2>3. outcome = "none" => Found = {} /\ ~Blocked  BY ClassifiedNone
  <2> QED BY <2>2, <2>3
<1> HIDE DEF outcome
<1>3. CASE Conclude(outcome, Found)  BY <1>1, <1>2, <1>3, ConcludeStep
<1>4. CASE choice' = [choice EXCEPT !.pc = "list", !.unread = DirList, !.targets = {},
                                    !.answers = <<>>, !.outcome = outcome]
  <2>1. /\ choice'.pc = "list" /\ choice'.unread = DirList /\ choice'.answers = <<>>
        /\ choice'.outcome = outcome /\ choice'.selector = choice.selector
        /\ choice' = [pc |-> choice'.pc, selector |-> choice'.selector, unread |-> choice'.unread,
                      targets |-> choice'.targets, answers |-> choice'.answers,
                      found |-> choice'.found, outcome |-> choice'.outcome]
    BY <1>4 DEF SelectionInv, Shape
  <2>2. DirList \in Seq(Dirs)  BY DEF SelectionAssumption
  <2>3. Shape'  BY <1>1, <2>1, <2>2 DEF SelectionInv, Shape
  <2>4. Reachable'  BY <1>1 DEF SelectionInv, Reachable
  <2>5. Truthful'  BY <2>1 DEF Truthful, Heard
  <2>6. Covered'
    <3>1. \A s \in through' : \E i \in DOMAIN DirList : DirList[i] = s.dir
      BY <1>1 DEF SelectionAssumption, SelectionInv, Reachable
    <3> QED BY <3>1, <2>1 DEF Covered
  <2>7. NoneMeant'  BY <1>1, <1>2, <2>1 DEF NoneMeant
  <2>8. AbsenceIsReal'  BY <2>1 DEF AbsenceIsReal
  <2> QED BY <2>3, <2>4, <2>5, <2>6, <2>7, <2>8 DEF SelectionInv
<1> QED BY <1>3, <1>4 DEF Verify, outcome

LEMMA MatchStep ==
  ASSUME SelectionInv, MatchScanned \/ MatchCurrent \/ ListAll
  PROVE  SelectionInv'
<1>1. choice.pc = "list" /\ AllProbed /\ UNCHANGED <<life, sockets, through>>
  BY DEF MatchScanned, MatchCurrent, ListAll
<1>2. ASSUME NEW s \in through
      PROVE  \/ s \in Found
             \/ SocketOf(s) \in Heard /\ NotUsable(choice.answers[SocketOf(s)]) /\ Blocked
  <2>1. DOMAIN choice.unread = {}  BY <1>1 DEF AllProbed
  <2>2. SocketOf(s) \in choice.targets  BY <1>1, <2>1 DEF SelectionInv, Covered
  <2> QED BY <1>1, <2>2, Known
<1>3. CASE MatchScanned
  <2> DEFINE matches == {s \in Found : Matches(choice.selector, s)}
  <2>1. Conclude(Classified(matches), matches)  BY <1>3 DEF MatchScanned
  <2>2. ASSUME NEW s \in through, Matches(choice.selector, s)
        PROVE  \/ s \in matches
               \/ /\ Classified(matches) # "none"
                  /\ SocketOf(s) \in Heard /\ NotUsable(choice.answers[SocketOf(s)])
    <3>1. Classified(matches) = "none" => ~Blocked  BY ClassifiedNone
    <3> QED BY <1>2, <2>2, <3>1
  <2> HIDE DEF matches
  <2> QED BY <1>1, <2>1, <2>2, ConcludeStep
<1>4. CASE MatchCurrent
  <2> DEFINE own == {s \in Found : Matches(choice.selector, s)}
             below == {s \in Found : s.under}
             matches == IF own = {} /\ choice.selector.kind = "project" /\ choice.outcome = "none"
                        THEN below ELSE own
             outcome == IF matches = {} THEN choice.outcome
                        ELSE IF Cardinality(matches) > 1 THEN "ambiguous" ELSE "resolved"
  <2>1. Conclude(outcome, matches) /\ choice.selector.kind \in {"config", "project"}
    BY <1>4 DEF MatchCurrent
  <2>2. ASSUME NEW s \in through, Matches(choice.selector, s)
        PROVE  \/ s \in matches
               \/ /\ outcome # "none"
                  /\ SocketOf(s) \in Heard /\ NotUsable(choice.answers[SocketOf(s)])
    <3>1. choice.outcome # "none"  BY <1>1, <2>1, <2>2 DEF SelectionInv, NoneMeant
    <3>2. matches = own /\ outcome # "none"  BY <3>1
    <3> QED BY <1>2, <2>2, <3>2
  <2> HIDE DEF matches, outcome
  <2> QED BY <1>1, <2>1, <2>2, ConcludeStep
<1>5. CASE ListAll
  <2>1. Conclude("listed", Found)  BY <1>5 DEF ListAll
  <2> QED BY <1>1, <1>2, <2>1, ConcludeStep
<1> QED BY <1>3, <1>4, <1>5

LEMMA SelectionInductive ==
  SelectionAssumption /\ SelectionInv /\ [SelectionNext]_selectionVars => SelectionInv'
<1> SUFFICES ASSUME SelectionAssumption, SelectionInv, [SelectionNext]_selectionVars
             PROVE  SelectionInv'
  OBVIOUS
<1>1. CASE UNCHANGED selectionVars
  <2>1. UNCHANGED <<life, sockets, through, choice>>  BY <1>1 DEF selectionVars
  <2>2. Shape' /\ Reachable'  BY <2>1 DEF SelectionInv, Shape, Reachable
  <2> QED BY <2>1, <2>2, SelectionRests DEF SelectionInv
<1> QED BY <1>1, ComeOrGoStep, BeginChoiceStep, ListDirStep, ProbeSocketStep, VerifyStep, MatchStep
        DEF SelectionNext

\* Sessions that were up during the whole choice were probed, and what is known
\* of them is their own answer or that there was none to use.
THEOREM SelectionInvariance ==
  ASSUME SelectionAssumption
  PROVE  SelectionSpec => []SelectionInv
BY SelectionInitially, SelectionInductive, PTL DEF SelectionSpec

\* A session that a selector means and that was up all along is found, or the
\* call does not say that there is none (classify_probe_matches).
THEOREM AbsenceIsRealHolds ==
  ASSUME SelectionAssumption
  PROVE  SelectionSpec => []AbsenceIsReal
<1>1. SelectionInv => AbsenceIsReal  BY DEF SelectionInv
<1> QED BY <1>1, SelectionInvariance, PTL

-----------------------------------------------------------------------------
(***************************************************************************)
(* The pool of log reads of that session: every slot is given back once,   *)
(* for every number of callers, workers and slots.                         *)
(*                                                                         *)
(* The counters change one step before or after what they count, so each   *)
(* is stated as the size of a set of callers or workers (`Counts`), and a  *)
(* step as one that adds or removes one of them.  That it does follows     *)
(* from where a job can be (`Placed`): with its caller, in the channel or  *)
(* with one worker; and from the state that caller and worker race for     *)
(* (`JobsAgree`): a job is active or abandoned while a worker has begun it.*)
(***************************************************************************)

Stages == {"idle", "admitted", "reserved", "waiting", "leaving", "done"}
JobStates == {"queued", "canceled", "active", "abandoned", "complete"}
Busy ==
  {"received", "claiming", "claimed", "reading", "finished", "released", "answering"}

PoolTypeOK ==
  /\ pool \in {"none", "started"}
  /\ channel \in Seq(Requests)
  /\ queued \in 0 .. Word - 1 /\ active \in 0 .. Word - 1 /\ abandoned \in 0 .. Word - 1
  /\ caller \in [Requests -> Stages]
  /\ job \in [Requests -> JobStates]
  /\ sent \subseteq Requests
  /\ worker \in [Workers -> {Idle} \cup [pc : Busy, job : Requests, was : JobStates]]

Has(w, r) == worker[w].pc \in Busy /\ worker[w].job = r
Begun(w) == worker[w].pc \in {"claimed", "reading"}

\* A job is in the channel or with a worker once at most, and only after its
\* caller has sent it.
Placed ==
  /\ \A i, j \in DOMAIN channel : channel[i] = channel[j] => i = j
  /\ \A r \in Requests : \A w, v \in Workers : Has(w, r) /\ Has(v, r) => w = v
  /\ \A i \in DOMAIN channel : \A w \in Workers : ~Has(w, channel[i])
  /\ \A i \in DOMAIN channel : caller[channel[i]] \in {"waiting", "leaving", "done"}
  /\ \A r \in Requests : \A w \in Workers :
       Has(w, r) => caller[r] \in {"waiting", "leaving", "done"}

\* What a worker has begun, and nothing else, is active or abandoned; a caller
\* that waits has not abandoned it.
JobsAgree ==
  /\ \A r \in Requests :
       job[r] \in {"active", "abandoned"} <=> \E w \in Workers : Has(w, r) /\ Begun(w)
  /\ \A r \in Requests : caller[r] = "waiting" => job[r] # "abandoned"
  /\ \A w \in Workers : Doing(w, "released") => worker[w].was = "abandoned"

\* What the counters count.
Reserved == {r \in Requests : caller[r] = "reserved"}
Leaving == {r \in Requests : caller[r] = "leaving"}
Received == {w \in Workers : Doing(w, "received")}
Reading == {w \in Workers : worker[w].pc \in {"reading", "finished"}}
Overdue == {w \in Workers : Abandoned(w)}

\* The last counter may have wrapped below zero.
Counts ==
  /\ queued = Cardinality(Reserved) + Len(channel) + Cardinality(Received)
  /\ queued <= Capacity
  /\ active = Cardinality(Reading)
  /\ \/ abandoned + Cardinality(Leaving) = Cardinality(Overdue)
     \/ abandoned + Cardinality(Leaving) = Cardinality(Overdue) + Word

PoolIInv == PoolTypeOK /\ Placed /\ JobsAgree /\ Counts

-----------------------------------------------------------------------------
(* Counters and sets.                                                       *)

\* What an increment and a decrement of the width of the word do.
LEMMA Wrap ==
  ASSUME ReadPoolAssumption, NEW n \in 0 .. Word - 1
  PROVE  /\ n % Word = n /\ (n + Word) % Word = n
         /\ Up(n) = IF n = Word - 1 THEN 0 ELSE n + 1
         /\ Down(n) = IF n = 0 THEN Word - 1 ELSE n - 1
         /\ Up(n) \in 0 .. Word - 1 /\ Down(n) \in 0 .. Word - 1
<1>1. Word \in Nat \ {0} BY FS_CardinalityType DEF ReadPoolAssumption
<1>2. n % Word = n /\ (n + Word) % Word = n BY <1>1
<1>3. CASE n = Word - 1
  <2>1. (n + 1) % Word = 0 BY <1>1, <1>3
  <2> QED BY <1>1, <1>2, <1>3, <2>1 DEF Up, Down
<1>4. CASE n # Word - 1
  <2>1. (n + 1) % Word = n + 1 BY <1>1, <1>4
  <2> QED BY <1>1, <1>2, <1>4, <2>1 DEF Up, Down
<1> QED BY <1>3, <1>4

\* The sets that are counted are finite and no larger than the parameters.
LEMMA Sizes ==
  ASSUME ReadPoolAssumption, PoolTypeOK
  PROVE  /\ IsFiniteSet(Reserved) /\ Cardinality(Reserved) \in Nat
         /\ IsFiniteSet(Leaving) /\ Cardinality(Leaving) \in Nat
         /\ Cardinality(Leaving) <= Cardinality(Requests)
         /\ IsFiniteSet(Received) /\ Cardinality(Received) \in Nat
         /\ IsFiniteSet(Reading) /\ Cardinality(Reading) \in Nat
         /\ Cardinality(Reading) <= Cardinality(Workers)
         /\ IsFiniteSet(Overdue) /\ Cardinality(Overdue) \in Nat
         /\ Cardinality(Overdue) <= Cardinality(Workers)
         /\ Len(channel) \in Nat
         /\ Word \in Nat /\ Capacity \in Nat
         /\ Cardinality(Workers) \in Nat /\ Cardinality(Requests) \in Nat
         /\ Word > Capacity + Cardinality(Workers) + Cardinality(Requests)
<1>1. Reserved \in SUBSET Requests /\ Leaving \in SUBSET Requests BY DEF Reserved, Leaving
<1>2. Received \in SUBSET Workers /\ Reading \in SUBSET Workers /\ Overdue \in SUBSET Workers
  BY DEF Received, Reading, Overdue
<1>3. IsFiniteSet(Requests) /\ IsFiniteSet(Workers) BY DEF ReadPoolAssumption
<1>4. Len(channel) \in Nat BY DEF PoolTypeOK
<1> QED BY <1>1, <1>2, <1>3, <1>4, FS_Subset, FS_CardinalityType DEF ReadPoolAssumption

\* A set that gains an element is larger by one.
LEMMA Joins ==
  ASSUME NEW S, IsFiniteSet(S), NEW x, x \notin S, NEW T, \A y : y \in T <=> y \in S \/ y = x
  PROVE  Cardinality(T) = Cardinality(S) + 1
<1>1. T = S \cup {x} OBVIOUS
<1> QED BY <1>1, FS_AddElement

\* A set that loses an element is smaller by one.
LEMMA Departs ==
  ASSUME NEW S, IsFiniteSet(S), NEW x \in S, NEW T, \A y : y \in T <=> y \in S /\ y # x
  PROVE  Cardinality(T) = Cardinality(S) - 1 /\ Cardinality(S) >= 1
<1>1. T = S \ {x} OBVIOUS
<1>2. Cardinality(S) # 0 BY FS_EmptySet
<1> QED BY <1>1, <1>2, FS_RemoveElement, FS_CardinalityType

\* The invariant holds at the start.
LEMMA PoolInitInv == ASSUME ReadPoolAssumption, PoolInit PROVE PoolIInv
<1> USE DEF PoolInit
<1>1. PoolTypeOK
  <2>1. Word \in Nat \ {0} BY FS_CardinalityType DEF ReadPoolAssumption
  <2> QED BY <2>1 DEF PoolTypeOK, Stages, JobStates
<1>2. Placed /\ JobsAgree BY DEF Placed, JobsAgree, Has, Begun, Busy, Idle, Doing
<1>3. Reserved = {} /\ Leaving = {} /\ Received = {} /\ Reading = {} /\ Overdue = {}
  BY DEF Reserved, Leaving, Received, Reading, Overdue, Abandoned, Doing, Idle
<1>4. Counts BY <1>3, FS_EmptySet DEF Counts, ReadPoolAssumption
<1> QED BY <1>1, <1>2, <1>4 DEF PoolIInv
-----------------------------------------------------------------------------
(* Types.                                                                   *)

\* A worker goes on with its job.
LEMMA WorkerMoves ==
  ASSUME PoolTypeOK, NEW w \in Workers, worker[w].pc \in Busy, NEW at \in Busy, To(w, at)
  PROVE  /\ worker' \in [Workers -> {Idle} \cup [pc : Busy, job : Requests, was : JobStates]]
         /\ worker'[w].pc = at /\ worker'[w].job = worker[w].job
         /\ worker'[w].was = worker[w].was
         /\ \A v \in Workers \ {w} : worker'[v] = worker[v]
<1>1. worker[w] \in [pc : Busy, job : Requests, was : JobStates] BY DEF PoolTypeOK, Idle, Busy
<1>2. [worker[w] EXCEPT !.pc = at] \in [pc : Busy, job : Requests, was : JobStates] BY <1>1
<1>3. worker' = [worker EXCEPT ![w] = [worker[w] EXCEPT !.pc = at]] BY DEF To
<1> QED BY <1>1, <1>2, <1>3 DEF PoolTypeOK

\* A worker is done with it.
LEMMA WorkerRests ==
  ASSUME PoolTypeOK, NEW w \in Workers, worker' = [worker EXCEPT ![w] = Idle]
  PROVE  /\ worker' \in [Workers -> {Idle} \cup [pc : Busy, job : Requests, was : JobStates]]
         /\ worker'[w].pc = "idle"
         /\ \A v \in Workers \ {w} : worker'[v] = worker[v]
  BY DEF PoolTypeOK, Idle

\* A worker that is at work has a job.
LEMMA BusyJob ==
  ASSUME PoolTypeOK, NEW w \in Workers, worker[w].pc \in Busy
  PROVE  worker[w].job \in Requests /\ worker[w].was \in JobStates
  BY DEF PoolTypeOK, Idle, Busy

\* The steps of a request keep the types.
LEMMA TypeOfRun ==
  ASSUME ReadPoolAssumption, PoolTypeOK, NEW r \in Requests, Run(r) PROVE PoolTypeOK'
<1>1. /\ Up(queued) \in 0 .. Word - 1 /\ Down(queued) \in 0 .. Word - 1
      /\ Up(abandoned) \in 0 .. Word - 1
  BY Wrap DEF PoolTypeOK
<1>2. ASSUME NEW at \in Stages, Moves(r, at) PROVE caller' \in [Requests -> Stages]
  BY <1>2 DEF Moves, PoolTypeOK
<1>3. /\ "admitted" \in Stages /\ "reserved" \in Stages /\ "waiting" \in Stages
      /\ "leaving" \in Stages /\ "done" \in Stages
  BY DEF Stages
<1>4. CASE GetOrStart(r) BY <1>2, <1>3, <1>4 DEF GetOrStart, PoolTypeOK, countVars
<1>5. CASE Call(r) BY <1>2, <1>3, <1>5 DEF Call, PoolTypeOK, countVars
<1>6. CASE ReserveQueueSlot(r) BY <1>1, <1>2, <1>3, <1>6 DEF ReserveQueueSlot, PoolTypeOK
<1>7. CASE TrySend(r)
  <2>1. CASE Len(channel) < Capacity
    <3>1. channel' \in Seq(Requests) BY <1>7, <2>1 DEF TrySend, PoolTypeOK
    <3> QED BY <1>2, <1>3, <1>7, <2>1, <3>1 DEF TrySend, PoolTypeOK
  <2>2. CASE ~(Len(channel) < Capacity)
    <3>1. job' \in [Requests -> JobStates] BY <1>7, <2>2 DEF TrySend, PoolTypeOK, JobStates
    <3> QED BY <1>1, <1>2, <1>3, <1>7, <2>2, <3>1 DEF TrySend, PoolTypeOK
  <2> QED BY <2>1, <2>2
<1>8. CASE Answered(r) BY <1>2, <1>3, <1>8 DEF Answered, PoolTypeOK, countVars
<1>9. CASE Leave(r)
  <2>1. LeftBehind(job[r]) \in JobStates BY DEF LeftBehind, JobStates, PoolTypeOK
  <2>2. job' \in [Requests -> JobStates] BY <1>9, <2>1 DEF Leave, PoolTypeOK, countVars
  <2> QED BY <1>2, <1>3, <1>9, <2>2 DEF Leave, PoolTypeOK, countVars
<1>10. CASE CountAbandoned(r) BY <1>1, <1>2, <1>3, <1>10 DEF CountAbandoned, PoolTypeOK
<1> QED BY <1>4, <1>5, <1>6, <1>7, <1>8, <1>9, <1>10 DEF Run, countVars

\* So do the steps of a worker.
LEMMA TypeOfWork ==
  ASSUME ReadPoolAssumption, PoolTypeOK, NEW w \in Workers, Work(w) PROVE PoolTypeOK'
<1>1. /\ Down(queued) \in 0 .. Word - 1 /\ Up(active) \in 0 .. Word - 1
      /\ Down(active) \in 0 .. Word - 1 /\ Down(abandoned) \in 0 .. Word - 1
  BY Wrap DEF PoolTypeOK
<1>2. ASSUME NEW at \in Busy, To(w, at), worker[w].pc \in Busy
      PROVE  worker' \in [Workers -> {Idle} \cup [pc : Busy, job : Requests, was : JobStates]]
  BY <1>2, WorkerMoves
<1>3. /\ "received" \in Busy /\ "claiming" \in Busy /\ "claimed" \in Busy /\ "reading" \in Busy
      /\ "finished" \in Busy /\ "released" \in Busy /\ "answering" \in Busy
  BY DEF Busy
<1>4. CASE Receive(w)
  <2>1. channel' \in Seq(Requests) /\ Head(channel) \in Requests
    BY <1>4 DEF Receive, PoolTypeOK
  <2>2. [pc |-> "received", job |-> Head(channel), was |-> "queued"]
          \in [pc : Busy, job : Requests, was : JobStates]
    BY <2>1 DEF Busy, JobStates
  <2>3. worker' \in [Workers -> {Idle} \cup [pc : Busy, job : Requests, was : JobStates]]
    BY <1>4, <2>2 DEF Receive, PoolTypeOK
  <2> QED BY <1>4, <2>1, <2>3 DEF Receive, PoolTypeOK, countVars
<1>5. CASE DropPermit(w) BY <1>1, <1>2, <1>3, <1>5 DEF DropPermit, Doing, PoolTypeOK
<1>6. CASE Claim(w)
  <2>1. job' \in [Requests -> JobStates] BY <1>6 DEF Claim, PoolTypeOK, JobStates
  <2>2. worker' \in [Workers -> {Idle} \cup [pc : Busy, job : Requests, was : JobStates]]
    BY <1>2, <1>3, <1>6, WorkerRests DEF Claim, Doing
  <2> QED BY <1>6, <2>1, <2>2 DEF Claim, PoolTypeOK, countVars
<1>7. CASE CountActive(w) BY <1>1, <1>2, <1>3, <1>7 DEF CountActive, Doing, PoolTypeOK
<1>8. CASE FinishRead(w)
  <2>1. worker[w].job \in Requests BY <1>3, <1>8, BusyJob DEF FinishRead, Doing
  <2>2. job[worker[w].job] \in JobStates BY <2>1 DEF PoolTypeOK
  <2>3. worker[w] \in [pc : Busy, job : Requests, was : JobStates]
    BY <1>8 DEF FinishRead, Doing, PoolTypeOK, Idle
  <2>4. [worker[w] EXCEPT !.pc = "finished", !.was = job[worker[w].job]]
          \in [pc : Busy, job : Requests, was : JobStates]
    BY <1>3, <2>2, <2>3
  <2>5. worker' = [worker EXCEPT ![w] =
          [worker[w] EXCEPT !.pc = "finished", !.was = job[worker[w].job]]]
    BY <1>8 DEF FinishRead
  <2>6. worker' \in [Workers -> {Idle} \cup [pc : Busy, job : Requests, was : JobStates]]
    BY <2>4, <2>5 DEF PoolTypeOK
  <2>7. job' \in [Requests -> JobStates] BY <1>8, <2>1 DEF FinishRead, PoolTypeOK, JobStates
  <2> QED BY <1>8, <2>6, <2>7 DEF FinishRead, PoolTypeOK, countVars
<1>9. CASE UncountActive(w)
  <2>1. (IF worker[w].was = "abandoned" THEN "released" ELSE "answering") \in Busy BY <1>3
  <2> QED BY <1>1, <1>2, <1>3, <1>9, <2>1 DEF UncountActive, Doing, PoolTypeOK
<1>10. CASE UncountAbandoned(w) BY <1>1, <1>2, <1>3, <1>10 DEF UncountAbandoned, Doing, PoolTypeOK
<1>11. CASE SendResponse(w)
  <2>1. worker[w].job \in Requests BY <1>3, <1>11, BusyJob DEF SendResponse, Doing
  <2>2. worker' \in [Workers -> {Idle} \cup [pc : Busy, job : Requests, was : JobStates]]
    BY <1>11, WorkerRests DEF SendResponse
  <2> QED BY <1>11, <2>1, <2>2 DEF SendResponse, PoolTypeOK, countVars
<1> QED BY <1>4, <1>5, <1>6, <1>7, <1>8, <1>9, <1>10, <1>11 DEF Work
-----------------------------------------------------------------------------
(* Where a job is.                                                          *)

\* A caller moves: one that has sent its job does not go back.
LEMMA PlacedByCaller ==
  ASSUME PoolTypeOK, Placed, UNCHANGED <<channel, worker>>, NEW r \in Requests, NEW at \in Stages,
         Moves(r, at),
         caller[r] \in {"waiting", "leaving", "done"} => at \in {"leaving", "done"}
  PROVE  Placed'
<1>1. \A q \in Requests :
        caller[q] \in {"waiting", "leaving", "done"} => caller'[q] \in {"waiting", "leaving", "done"}
  BY DEF Moves, PoolTypeOK
<1>2. \A i \in DOMAIN channel : channel[i] \in Requests BY DEF PoolTypeOK
<1> QED BY <1>1, <1>2 DEF Placed, Has

\* Workers give up jobs, or keep them.
LEMMA PlacedByWorker ==
  ASSUME PoolTypeOK, Placed, UNCHANGED <<channel, caller>>,
         \A r \in Requests : \A v \in Workers : Has(v, r)' => Has(v, r)
  PROVE  Placed'
<1>1. \A i \in DOMAIN channel : channel[i] \in Requests BY DEF PoolTypeOK
<1> QED BY <1>1 DEF Placed

\* The steps of a request keep every job in one place.
LEMMA PlacedOfRun ==
  ASSUME ReadPoolAssumption, PoolTypeOK, Placed, NEW r \in Requests, Run(r) PROVE Placed'
<1>1. CASE TrySend(r) /\ Len(channel) < Capacity
  <2>1. /\ caller[r] = "reserved" /\ channel' = Append(channel, r) /\ UNCHANGED worker
        /\ \A q \in Requests : caller'[q] = IF q = r THEN "waiting" ELSE caller[q]
    BY <1>1 DEF TrySend, Moves, PoolTypeOK
  <2>2. /\ DOMAIN channel = 1 .. Len(channel) /\ Len(channel) \in Nat
        /\ DOMAIN channel' = 1 .. Len(channel) + 1
        /\ \A i \in DOMAIN channel : channel[i] \in Requests
        /\ \A i \in DOMAIN channel' :
             channel'[i] = IF i = Len(channel) + 1 THEN r ELSE channel[i]
    BY <2>1 DEF PoolTypeOK
  <2>3. \A i \in DOMAIN channel : channel[i] # r BY <2>1 DEF Placed
  <2>4. \A w \in Workers : ~Has(w, r) BY <2>1 DEF Placed
  <2>5. \A i \in DOMAIN channel' : i \in DOMAIN channel \/ i = Len(channel) + 1 BY <2>2
  <2>6. \A i, j \in DOMAIN channel' : channel'[i] = channel'[j] => i = j
    BY <2>2, <2>3, <2>5 DEF Placed
  <2>7. \A q \in Requests : \A w \in Workers : Has(w, q)' <=> Has(w, q) BY <2>1 DEF Has
  <2>8. \A i \in DOMAIN channel' : \A w \in Workers : ~Has(w, channel'[i])
    BY <2>2, <2>4, <2>5 DEF Placed
  <2>9. \A i \in DOMAIN channel' : \A w \in Workers : ~Has(w, channel[i])'
    BY <2>1, <2>8 DEF Has
  <2>10. \A i \in DOMAIN channel' : caller'[channel'[i]] \in {"waiting", "leaving", "done"}
    BY <2>1, <2>2, <2>5 DEF Placed
  <2> QED BY <2>1, <2>6, <2>7, <2>9, <2>10 DEF Placed
<1>2. CASE TrySend(r) /\ ~(Len(channel) < Capacity)
  BY <1>2, PlacedByCaller DEF TrySend, Stages
<1>3. CASE GetOrStart(r)
  <2>1. CASE UNCHANGED caller BY <1>3, <2>1 DEF GetOrStart, Placed, Has
  <2>2. CASE Moves(r, "done") BY <1>3, <2>2, PlacedByCaller DEF GetOrStart, Stages
  <2> QED BY <1>3, <2>1, <2>2 DEF GetOrStart
<1>4. CASE Call(r) BY <1>4, PlacedByCaller DEF Call, Stages
<1>5. CASE ReserveQueueSlot(r)
  <2>1. Moves(r, "reserved") \/ Moves(r, "done") BY <1>5 DEF ReserveQueueSlot
  <2> QED BY <1>5, <2>1, PlacedByCaller DEF ReserveQueueSlot, Stages
<1>6. CASE Answered(r) BY <1>6, PlacedByCaller DEF Answered, Stages
<1>7. CASE Leave(r)
  <2>1. Moves(r, "leaving") \/ Moves(r, "done") BY <1>7 DEF Leave
  <2> QED BY <1>7, <2>1, PlacedByCaller DEF Leave, Stages
<1>8. CASE CountAbandoned(r) BY <1>8, PlacedByCaller DEF CountAbandoned, Stages
<1> QED BY <1>1, <1>2, <1>3, <1>4, <1>5, <1>6, <1>7, <1>8 DEF Run

\* Every step of a worker but the first keeps its job or gives it up.
LEMMA KeepsOrRests ==
  ASSUME PoolTypeOK, NEW w \in Workers, Work(w), ~Receive(w)
  PROVE  /\ \A v \in Workers \ {w} : worker'[v] = worker[v]
         /\ worker[w].pc \in Busy
         /\ \/ worker'[w].pc = "idle"
            \/ worker'[w].pc \in Busy /\ worker'[w].job = worker[w].job
<1>1. worker[w].pc \in Busy
  BY DEF Work, DropPermit, Claim, CountActive, FinishRead, UncountActive, UncountAbandoned,
    SendResponse, Doing, Busy
<1>2. (\E at \in Busy : To(w, at)) \/ FinishRead(w) \/ worker' = [worker EXCEPT ![w] = Idle]
  BY DEF Work, DropPermit, Claim, CountActive, UncountActive, UncountAbandoned,
    SendResponse, Busy
<1>3. CASE \E at \in Busy : To(w, at) BY <1>1, <1>3, WorkerMoves
<1>4. CASE FinishRead(w)
  <2>1. worker[w] \in [pc : Busy, job : Requests, was : JobStates] BY <1>1 DEF PoolTypeOK, Idle, Busy
  <2>2. worker' = [worker EXCEPT ![w] =
          [worker[w] EXCEPT !.pc = "finished", !.was = job[worker[w].job]]]
    BY <1>4 DEF FinishRead
  <2> QED BY <1>1, <2>1, <2>2 DEF PoolTypeOK, Busy
<1>5. CASE worker' = [worker EXCEPT ![w] = Idle] BY <1>1, <1>5, WorkerRests
<1> QED BY <1>2, <1>3, <1>4, <1>5

\* So do the steps of a worker.
LEMMA PlacedOfWork ==
  ASSUME ReadPoolAssumption, PoolTypeOK, Placed, NEW w \in Workers, Work(w) PROVE Placed'
<1>1. CASE Receive(w)
  <2>1. /\ channel # <<>> /\ channel' = Tail(channel) /\ UNCHANGED caller
        /\ worker[w].pc = "idle"
        /\ worker'[w] = [pc |-> "received", job |-> Head(channel), was |-> "queued"]
        /\ \A v \in Workers \ {w} : worker'[v] = worker[v]
    BY <1>1 DEF Receive, Doing, PoolTypeOK
  <2>2. /\ Len(channel) \in Nat \ {0} /\ Head(channel) = channel[1] /\ 1 \in DOMAIN channel
        /\ DOMAIN channel' = 1 .. Len(channel) - 1
        /\ \A i \in DOMAIN channel' :
             i + 1 \in DOMAIN channel /\ i + 1 # 1 /\ channel'[i] = channel[i + 1]
        /\ \A i \in DOMAIN channel : channel[i] \in Requests
    BY <2>1 DEF PoolTypeOK
  <2>3. \A q \in Requests : \A v \in Workers :
          Has(v, q)' <=> Has(v, q) \/ (v = w /\ q = channel[1])
    BY <2>1, <2>2 DEF Has, Busy
  <2>4. \A i, j \in DOMAIN channel' : channel'[i] = channel'[j] => i = j
    <3> TAKE i, j \in DOMAIN channel'
    <3>1. channel[i + 1] = channel[j + 1] => i + 1 = j + 1 BY <2>2 DEF Placed
    <3>2. i \in Nat /\ j \in Nat BY <2>2
    <3> QED BY <2>2, <3>1, <3>2
  <2>5. \A v \in Workers : ~Has(v, channel[1]) BY <2>2 DEF Placed
  <2>6. \A q \in Requests : \A v, u \in Workers : Has(v, q)' /\ Has(u, q)' => v = u
    BY <2>3, <2>5 DEF Placed
  <2>7. \A i \in DOMAIN channel' : channel[i + 1] # channel[1] BY <2>2 DEF Placed
  <2>8. \A i \in DOMAIN channel' : \A v \in Workers : ~Has(v, channel[i])'
    <3> TAKE i \in DOMAIN channel'
    <3> TAKE v \in Workers
    <3>1. ~Has(v, channel[i + 1]) /\ channel[i + 1] \in Requests BY <2>2 DEF Placed
    <3>2. channel'[i] = channel[i + 1] BY <2>2
    <3>3. channel[i + 1] # Head(channel) BY <2>2, <2>7
    <3>4. CASE v = w BY <2>1, <3>2, <3>3, <3>4 DEF Has
    <3>5. CASE v # w BY <2>1, <3>1, <3>2, <3>5 DEF Has
    <3> QED BY <3>4, <3>5
  <2>9. \A i \in DOMAIN channel' : caller'[channel'[i]] \in {"waiting", "leaving", "done"}
    BY <2>1, <2>2 DEF Placed
  <2>10. \A q \in Requests : \A v \in Workers :
           Has(v, q)' => caller'[q] \in {"waiting", "leaving", "done"}
    BY <2>1, <2>2, <2>3 DEF Placed
  <2> QED BY <2>4, <2>6, <2>8, <2>9, <2>10 DEF Placed
<1>2. CASE ~Receive(w)
  <2>1. \A r \in Requests : \A v \in Workers : Has(v, r)' => Has(v, r)
    BY <1>2, KeepsOrRests DEF Has, Busy
  <2>2. UNCHANGED <<channel, caller>>
    BY <1>2 DEF Work, DropPermit, Claim, CountActive, FinishRead, UncountActive,
      UncountAbandoned, SendResponse
  <2> QED BY <2>1, <2>2, PlacedByWorker
<1> QED BY <1>1, <1>2
-----------------------------------------------------------------------------
(* The state of a job.                                                      *)

\* The channel has room for each job that has a queue slot.
LEMMA HasRoom ==
  ASSUME ReadPoolAssumption, PoolTypeOK, Counts, NEW r \in Requests, caller[r] = "reserved"
  PROVE  Len(channel) < Capacity
<1>1. r \in Reserved BY DEF Reserved
<1>2. Cardinality(Reserved) >= 1 BY <1>1, Sizes, FS_EmptySet
<1> QED BY <1>2, Sizes DEF Counts

\* The steps of a request keep the jobs and their requests in agreement.
LEMMA JobsOfRun ==
  ASSUME ReadPoolAssumption, PoolTypeOK, Placed, JobsAgree, Counts, NEW r \in Requests, Run(r)
  PROVE  JobsAgree'
<1>1. UNCHANGED worker
  BY DEF Run, GetOrStart, Call, ReserveQueueSlot, TrySend, Answered, Leave, CountAbandoned
<1>2. /\ \A q \in Requests : \A w \in Workers : (Has(w, q) /\ Begun(w))' <=> Has(w, q) /\ Begun(w)
      /\ \A w \in Workers : Doing(w, "released")' <=> Doing(w, "released")
  BY <1>1 DEF Has, Begun, Doing
<1>3. ASSUME UNCHANGED job, \A q \in Requests : caller'[q] = "waiting" => caller[q] = "waiting"
      PROVE  JobsAgree'
  BY <1>1, <1>2, <1>3 DEF JobsAgree
<1>4. CASE TrySend(r)
  <2>1. caller[r] = "reserved" /\ Len(channel) < Capacity BY <1>4, HasRoom DEF TrySend
  <2>2. /\ UNCHANGED job
        /\ \A q \in Requests : caller'[q] = IF q = r THEN "waiting" ELSE caller[q]
    BY <1>4, <2>1 DEF TrySend, Moves, PoolTypeOK
  <2>3. job[r] # "abandoned" BY <2>1 DEF Placed, JobsAgree
  <2> QED BY <1>1, <1>2, <2>2, <2>3 DEF JobsAgree
<1>5. CASE Leave(r)
  <2>1. /\ \A q \in Requests : job'[q] = IF q = r THEN LeftBehind(job[r]) ELSE job[q]
        /\ caller'[r] # "waiting" /\ \A q \in Requests \ {r} : caller'[q] = caller[q]
    BY <1>5 DEF Leave, Moves, PoolTypeOK
  <2>2. LeftBehind(job[r]) \in {"active", "abandoned"} <=> job[r] \in {"active", "abandoned"}
    BY DEF LeftBehind, PoolTypeOK, JobStates
  <2> QED BY <1>1, <1>2, <2>1, <2>2 DEF JobsAgree
<1>6. CASE ~TrySend(r) /\ ~Leave(r)
  <2>1. UNCHANGED job
    BY <1>6 DEF Run, GetOrStart, Call, ReserveQueueSlot, Answered, CountAbandoned
  <2>2. UNCHANGED caller \/ \E at \in Stages \ {"waiting"} : Moves(r, at)
    BY <1>6 DEF Run, GetOrStart, Call, ReserveQueueSlot, Answered, CountAbandoned, Stages
  <2>3. \A q \in Requests : caller'[q] = "waiting" => caller[q] = "waiting"
    BY <2>2 DEF Moves, PoolTypeOK
  <2> QED BY <1>3, <2>1, <2>3
<1> QED BY <1>4, <1>5, <1>6

\* So do the steps of a worker.
LEMMA JobsOfWork ==
  ASSUME ReadPoolAssumption, PoolTypeOK, Placed, JobsAgree, NEW w \in Workers, Work(w)
  PROVE  JobsAgree'
<1>1. UNCHANGED caller
  BY DEF Work, Receive, DropPermit, Claim, CountActive, FinishRead, UncountActive,
    UncountAbandoned, SendResponse
<1>2. ASSUME UNCHANGED job, \A v \in Workers \ {w} : worker'[v] = worker[v],
             \A q \in Requests : (Has(w, q) /\ Begun(w))' <=> Has(w, q) /\ Begun(w),
             Doing(w, "released")' => worker'[w].was = "abandoned"
      PROVE  JobsAgree'
  <2>1. \A q \in Requests : \A v \in Workers : (Has(v, q) /\ Begun(v))' <=> Has(v, q) /\ Begun(v)
    BY <1>2 DEF Has, Begun
  <2>2. \A v \in Workers : Doing(v, "released")' => worker'[v].was = "abandoned"
    BY <1>2 DEF JobsAgree, Doing
  <2> QED BY <1>1, <1>2, <2>1, <2>2 DEF JobsAgree
<1>3. \A v \in Workers \ {w} : worker'[v] = worker[v]
  BY KeepsOrRests DEF Receive, PoolTypeOK
<1>4. CASE Receive(w)
  <2>1. worker[w].pc = "idle" /\ worker'[w].pc = "received" BY <1>4 DEF Receive, Doing, PoolTypeOK
  <2> QED BY <1>2, <1>3, <1>4, <2>1 DEF Receive, Begun, Doing
<1>5. CASE DropPermit(w)
  <2>1. worker[w].pc = "received" /\ worker'[w].pc = "claiming"
    BY <1>5, WorkerMoves DEF DropPermit, Doing, Busy
  <2> QED BY <1>2, <1>3, <1>5, <2>1 DEF DropPermit, Begun, Doing
<1>6. CASE Claim(w)
  <2>1. worker[w].pc = "claiming" /\ worker[w].job \in Requests
    BY <1>6, BusyJob DEF Claim, Doing, Busy
  <2>2. CASE job[worker[w].job] = "queued"
    <3>1. /\ worker'[w].pc = "claimed" /\ worker'[w].job = worker[w].job
          /\ \A q \in Requests : job'[q] = IF q = worker[w].job THEN "active" ELSE job[q]
      BY <1>6, <2>1, <2>2, WorkerMoves DEF Claim, Busy, PoolTypeOK
    <3>2. \A q \in Requests : \A v \in Workers :
            (Has(v, q) /\ Begun(v))' <=> (Has(v, q) /\ Begun(v)) \/ (v = w /\ q = worker[w].job)
      BY <1>3, <2>1, <3>1 DEF Has, Begun, Busy
    <3>3. \A v \in Workers : Doing(v, "released")' => worker'[v].was = "abandoned"
      BY <1>3, <3>1 DEF JobsAgree, Doing
    <3> QED BY <1>1, <2>1, <3>1, <3>2, <3>3 DEF JobsAgree
  <2>3. CASE job[worker[w].job] # "queued"
    <3>1. worker'[w].pc = "idle" /\ UNCHANGED job
      BY <1>6, <2>3, WorkerRests DEF Claim
    <3> QED BY <1>2, <1>3, <2>1, <3>1 DEF Begun, Doing
  <2> QED BY <2>2, <2>3
<1>7. CASE CountActive(w)
  <2>1. worker[w].pc = "claimed" /\ worker'[w].pc = "reading" /\ worker'[w].job = worker[w].job
    BY <1>7, WorkerMoves DEF CountActive, Doing, Busy
  <2> QED BY <1>2, <1>3, <1>7, <2>1 DEF CountActive, Begun, Has, Busy, Doing
<1>8. CASE FinishRead(w)
  <2>1. worker[w].pc = "reading" /\ worker[w].job \in Requests
    BY <1>8, BusyJob DEF FinishRead, Doing, Busy
  <2>2. worker'[w].pc = "finished"
    BY <1>8, <2>1 DEF FinishRead, PoolTypeOK, Idle
  <2>3. \A q \in Requests : job'[q] = IF q = worker[w].job THEN "complete" ELSE job[q]
    BY <1>8, <2>1 DEF FinishRead, PoolTypeOK
  <2>4. \A v \in Workers : Has(v, worker[w].job) => v = w BY <2>1 DEF Placed, Has, Busy
  <2>5. \A q \in Requests : \A v \in Workers :
          (Has(v, q) /\ Begun(v))' <=> Has(v, q) /\ Begun(v) /\ v # w
    BY <1>3, <2>2 DEF Has, Begun
  <2>6. \A q \in Requests : Has(w, q) => q = worker[w].job BY DEF Has
  <2>7. \A v \in Workers : Doing(v, "released")' => worker'[v].was = "abandoned"
    BY <1>3, <2>2 DEF JobsAgree, Doing
  <2>8. ASSUME NEW q \in Requests
        PROVE  job'[q] \in {"active", "abandoned"} <=> \E v \in Workers : (Has(v, q) /\ Begun(v))'
    <3>1. CASE q = worker[w].job BY <2>3, <2>4, <2>5, <3>1
    <3>2. CASE q # worker[w].job
      <4>1. \A v \in Workers : (Has(v, q) /\ Begun(v))' <=> Has(v, q) /\ Begun(v)
        BY <2>5, <2>6, <3>2
      <4> QED BY <2>3, <3>2, <4>1 DEF JobsAgree
    <3> QED BY <3>1, <3>2
  <2>9. \A q \in Requests : caller'[q] = "waiting" => job'[q] # "abandoned"
    BY <1>1, <2>3 DEF JobsAgree
  <2> QED BY <2>7, <2>8, <2>9 DEF JobsAgree
<1>9. CASE UncountActive(w)
  <2>1. /\ worker[w].pc = "finished" /\ worker'[w].was = worker[w].was
        /\ worker'[w].pc = IF worker[w].was = "abandoned" THEN "released" ELSE "answering"
    BY <1>9, WorkerMoves DEF UncountActive, Doing, Busy
  <2> QED BY <1>2, <1>3, <1>9, <2>1 DEF UncountActive, Begun, Doing
<1>10. CASE UncountAbandoned(w)
  <2>1. worker[w].pc = "released" /\ worker'[w].pc = "answering"
    BY <1>10, WorkerMoves DEF UncountAbandoned, Doing, Busy
  <2> QED BY <1>2, <1>3, <1>10, <2>1 DEF UncountAbandoned, Begun, Doing
<1>11. CASE SendResponse(w)
  <2>1. worker[w].pc = "answering" /\ worker'[w].pc = "idle"
    BY <1>11, WorkerRests DEF SendResponse, Doing
  <2> QED BY <1>2, <1>3, <1>11, <2>1 DEF SendResponse, Begun, Doing
<1> QED BY <1>4, <1>5, <1>6, <1>7, <1>8, <1>9, <1>10, <1>11 DEF Work
-----------------------------------------------------------------------------
(* What the counters count.                                                 *)

\* The numbers of the counters' invariant.
LEMMA Numbers ==
  ASSUME ReadPoolAssumption, PoolTypeOK
  PROVE  /\ queued \in Nat /\ active \in Nat /\ abandoned \in Nat
         /\ Cardinality(Reserved) \in Nat /\ Cardinality(Leaving) \in Nat
         /\ Cardinality(Received) \in Nat /\ Cardinality(Reading) \in Nat
         /\ Cardinality(Overdue) \in Nat /\ Len(channel) \in Nat
         /\ Capacity \in Nat /\ Word \in Nat
         /\ Cardinality(Leaving) < Word /\ Cardinality(Overdue) < Word
         /\ Cardinality(Reading) < Word /\ Capacity < Word /\ abandoned < Word
<1>1. Word \in Nat BY Sizes
<1>2. queued \in Nat /\ active \in Nat /\ abandoned \in Nat /\ abandoned < Word
  BY <1>1 DEF PoolTypeOK
<1>3. Cardinality(Leaving) < Word /\ Cardinality(Overdue) < Word BY Sizes
<1>4. Cardinality(Reading) < Word /\ Capacity < Word BY Sizes
<1> QED BY <1>2, <1>3, <1>4, Sizes

\* An increment below the largest value of the word does not wrap.
LEMMA Increments ==
  ASSUME ReadPoolAssumption, NEW n \in Nat, n < Word - 1 PROVE Up(n) = n + 1
<1>1. Word \in Nat BY DEF ReadPoolAssumption
<1>2. n \in 0 .. Word - 1 /\ n # Word - 1 BY <1>1
<1> QED BY <1>2, Wrap

\* A decrement above zero does not wrap.
LEMMA Decrements ==
  ASSUME ReadPoolAssumption, NEW n \in Nat, n < Word, n # 0 PROVE Down(n) = n - 1
<1>1. Word \in Nat BY DEF ReadPoolAssumption
<1>2. n \in 0 .. Word - 1 BY <1>1
<1> QED BY <1>2, Wrap

\* The steps of a request keep the counters at what they count.
LEMMA CountsOfRun ==
  ASSUME ReadPoolAssumption, PoolTypeOK, Placed, JobsAgree, Counts, NEW r \in Requests, Run(r)
  PROVE  Counts'
<1>0. /\ queued \in Nat /\ active \in Nat /\ abandoned \in Nat
      /\ Cardinality(Reserved) \in Nat /\ Cardinality(Leaving) \in Nat
      /\ Cardinality(Received) \in Nat /\ Cardinality(Overdue) \in Nat
      /\ Len(channel) \in Nat /\ Capacity \in Nat /\ Word \in Nat
      /\ Cardinality(Overdue) < Word /\ Capacity < Word /\ abandoned < Word
  BY Numbers
<1>1. UNCHANGED <<worker, active>>
  BY DEF Run, GetOrStart, Call, ReserveQueueSlot, TrySend, Answered, Leave, CountAbandoned,
    countVars
<1>2. Received' = Received /\ Reading' = Reading BY <1>1 DEF Received, Reading, Doing
<1>3. UNCHANGED job => Overdue' = Overdue BY <1>1 DEF Overdue, Abandoned
<1>4. /\ \A q : q \in Reserved <=> q \in Requests /\ caller[q] = "reserved"
      /\ \A q : q \in Leaving <=> q \in Requests /\ caller[q] = "leaving"
      /\ \A q : q \in Reserved' <=> q \in Requests /\ caller'[q] = "reserved"
      /\ \A q : q \in Leaving' <=> q \in Requests /\ caller'[q] = "leaving"
  BY DEF Reserved, Leaving
<1>5. ASSUME NEW at \in Stages, Moves(r, at)
      PROVE  \A q \in Requests : caller'[q] = IF q = r THEN at ELSE caller[q]
  BY <1>5 DEF Moves, PoolTypeOK
<1>6. CASE GetOrStart(r) \/ Call(r) \/ Answered(r)
  <2>1. UNCHANGED <<channel, countVars, job>> /\ caller[r] \in {"idle", "waiting"}
    BY <1>6 DEF GetOrStart, Call, Answered
  <2>2. UNCHANGED caller \/ Moves(r, "done") \/ Moves(r, "admitted")
    BY <1>6 DEF GetOrStart, Call, Answered
  <2>3. \A q \in Requests : /\ caller'[q] = "reserved" <=> caller[q] = "reserved"
                            /\ caller'[q] = "leaving" <=> caller[q] = "leaving"
    BY <1>5, <2>1, <2>2 DEF Stages
  <2>4. Reserved' = Reserved /\ Leaving' = Leaving BY <1>4, <2>3
  <2> QED BY <1>2, <1>3, <2>1, <2>4 DEF Counts, countVars
<1>7. CASE ReserveQueueSlot(r)
  <2>1. caller[r] = "admitted" /\ UNCHANGED <<channel, abandoned, job>>
    BY <1>7 DEF ReserveQueueSlot
  <2>2. CASE queued < Capacity
    <3>1. Moves(r, "reserved") /\ queued' = Up(queued) BY <1>7, <2>2 DEF ReserveQueueSlot
    <3>2. \A q \in Requests : caller'[q] = IF q = r THEN "reserved" ELSE caller[q]
      BY <1>5, <3>1 DEF Stages
    <3>3. r \notin Reserved /\ \A q : q \in Reserved' <=> q \in Reserved \/ q = r
      BY <1>4, <2>1, <3>2
    <3>4. Leaving' = Leaving BY <1>4, <2>1, <3>2
    <3>5. Cardinality(Reserved') = Cardinality(Reserved) + 1
      <4> HIDE DEF Reserved
      <4> QED BY <3>3, Sizes, Joins
    <3>6. queued' = queued + 1 BY <1>0, <2>2, <3>1, Increments
    <3>7. /\ Cardinality(Received') = Cardinality(Received)
          /\ Cardinality(Leaving') = Cardinality(Leaving)
          /\ Cardinality(Overdue') = Cardinality(Overdue)
          /\ Cardinality(Reading') = Cardinality(Reading)
          /\ Len(channel') = Len(channel) /\ active' = active /\ abandoned' = abandoned
      BY <1>1, <1>2, <1>3, <2>1, <3>4
    <3>8. /\ queued = Cardinality(Reserved) + Len(channel) + Cardinality(Received)
          /\ active = Cardinality(Reading)
          /\ \/ abandoned + Cardinality(Leaving) = Cardinality(Overdue)
             \/ abandoned + Cardinality(Leaving) = Cardinality(Overdue) + Word
      BY DEF Counts
    <3>9. /\ queued' = Cardinality(Reserved') + Len(channel') + Cardinality(Received')
          /\ queued' <= Capacity
      <4>1. \A a, b, c, q \in Nat : q = a + b + c => q + 1 = a + 1 + b + c OBVIOUS
      <4>2. queued + 1 = Cardinality(Reserved) + 1 + Len(channel) + Cardinality(Received)
        BY <1>0, <3>8, <4>1
      <4> QED BY <1>0, <2>2, <3>5, <3>6, <3>7, <4>2
    <3>10. /\ active' = Cardinality(Reading')
           /\ \/ abandoned' + Cardinality(Leaving') = Cardinality(Overdue')
              \/ abandoned' + Cardinality(Leaving') = Cardinality(Overdue') + Word
      BY <3>7, <3>8
    <3> QED BY <3>9, <3>10 DEF Counts
  <2>3. CASE ~(queued < Capacity)
    <3>1. Moves(r, "done") /\ UNCHANGED queued BY <1>7, <2>3 DEF ReserveQueueSlot
    <3>2. \A q \in Requests : caller'[q] = IF q = r THEN "done" ELSE caller[q]
      BY <1>5, <3>1 DEF Stages
    <3>3. Reserved' = Reserved /\ Leaving' = Leaving BY <1>4, <2>1, <3>2
    <3> QED BY <1>1, <1>2, <1>3, <2>1, <3>1, <3>3 DEF Counts
  <2> QED BY <2>2, <2>3
<1>8. CASE TrySend(r)
  <2>1. caller[r] = "reserved" /\ Len(channel) < Capacity BY <1>8, HasRoom DEF TrySend
  <2>2. /\ channel' = Append(channel, r) /\ Moves(r, "waiting")
        /\ UNCHANGED <<queued, abandoned, job>>
    BY <1>8, <2>1 DEF TrySend
  <2>3. Len(channel') = Len(channel) + 1 BY <2>2 DEF PoolTypeOK
  <2>4. \A q \in Requests : caller'[q] = IF q = r THEN "waiting" ELSE caller[q]
    BY <1>5, <2>2 DEF Stages
  <2>5. r \in Reserved /\ \A q : q \in Reserved' <=> q \in Reserved /\ q # r
    BY <1>4, <2>1, <2>4
  <2>6. Leaving' = Leaving BY <1>4, <2>1, <2>4
  <2>7. Cardinality(Reserved') = Cardinality(Reserved) - 1 BY <2>5, Sizes, Departs
  <2> QED BY <1>1, <1>2, <1>3, <2>2, <2>3, <2>6, <2>7, <1>0 DEF Counts
<1>9. CASE Leave(r)
  <2>1. caller[r] = "waiting" /\ UNCHANGED <<channel, queued, abandoned>>
    BY <1>9 DEF Leave, countVars
  <2>2. \A q \in Requests : job'[q] = IF q = r THEN LeftBehind(job[r]) ELSE job[q]
    BY <1>9 DEF Leave, PoolTypeOK
  <2>3. \A w \in Workers :
          /\ worker[w].pc \in {"claimed", "reading"} => worker[w].job \in Requests
          /\ Abandoned(w)' <=> \/ Begun(w) /\ job'[worker[w].job] = "abandoned"
                               \/ worker[w].pc \in {"finished", "released"}
                                   /\ worker[w].was = "abandoned"
    BY <1>1, BusyJob DEF Abandoned, Begun, Busy
  <2>4. /\ \A w : w \in Overdue <=> w \in Workers /\ Abandoned(w)
        /\ \A w : w \in Overdue' <=> w \in Workers /\ Abandoned(w)'
    BY DEF Overdue
  <2>5. CASE job[r] = "active"
    <3>1. LeftBehind(job[r]) = "abandoned" BY <2>5 DEF LeftBehind
    <3>2. Moves(r, "leaving") BY <1>9, <3>1 DEF Leave
    <3>3. \A q \in Requests : caller'[q] = IF q = r THEN "leaving" ELSE caller[q]
      BY <1>5, <3>2 DEF Stages
    <3>4. r \notin Leaving /\ \A q : q \in Leaving' <=> q \in Leaving \/ q = r
      BY <1>4, <2>1, <3>3
    <3>5. Reserved' = Reserved BY <1>4, <2>1, <3>3
    <3>6. PICK w \in Workers : Has(w, r) /\ Begun(w) BY <2>5 DEF JobsAgree
    <3>7. \A v \in Workers : Begun(v) /\ worker[v].job = r => v = w
      BY <3>6 DEF Placed, Has, Begun, Busy
    <3>8. ~Abandoned(w) BY <2>5, <3>6 DEF Abandoned, Has, Begun
    <3>9. Abandoned(w)' BY <2>2, <2>3, <3>1, <3>6 DEF Has
    <3>10. \A v \in Workers \ {w} : Abandoned(v)' <=> Abandoned(v)
      BY <2>2, <2>3, <3>7 DEF Abandoned, Begun
    <3>11. w \notin Overdue /\ \A v : v \in Overdue' <=> v \in Overdue \/ v = w
      BY <2>4, <3>8, <3>9, <3>10
    <3>12. Cardinality(Overdue') = Cardinality(Overdue) + 1 BY <3>11, Sizes, Joins
    <3>13. Cardinality(Leaving') = Cardinality(Leaving) + 1 BY <3>4, Sizes, Joins
    <3>14. \/ abandoned + Cardinality(Leaving) = Cardinality(Overdue)
           \/ abandoned + Cardinality(Leaving) = Cardinality(Overdue) + Word
      BY DEF Counts
    <3>15. \/ abandoned' + Cardinality(Leaving') = Cardinality(Overdue')
           \/ abandoned' + Cardinality(Leaving') = Cardinality(Overdue') + Word
      BY <1>0, <2>1, <3>12, <3>13, <3>14
    <3> QED BY <1>1, <1>2, <2>1, <3>5, <3>15 DEF Counts
  <2>6. CASE job[r] # "active"
    <3>1. job[r] # "abandoned" BY <2>1 DEF JobsAgree
    <3>2. LeftBehind(job[r]) # "abandoned" BY <2>6, <3>1 DEF LeftBehind, PoolTypeOK, JobStates
    <3>3. Moves(r, "done") BY <1>9, <3>2 DEF Leave
    <3>4. \A q \in Requests : caller'[q] = IF q = r THEN "done" ELSE caller[q]
      BY <1>5, <3>3 DEF Stages
    <3>5. Reserved' = Reserved /\ Leaving' = Leaving BY <1>4, <2>1, <3>4
    <3>6. \A q \in Requests : job'[q] = "abandoned" <=> job[q] = "abandoned"
      BY <2>2, <3>1, <3>2
    <3>7. \A v \in Workers : Abandoned(v)' <=> Abandoned(v)
      BY <2>3, <3>6 DEF Abandoned, Begun
    <3>8. Overdue' = Overdue BY <2>4, <3>7
    <3> QED BY <1>1, <1>2, <2>1, <3>5, <3>8 DEF Counts
  <2> QED BY <2>5, <2>6
<1>10. CASE CountAbandoned(r)
  <2>1. /\ caller[r] = "leaving" /\ Moves(r, "done") /\ abandoned' = Up(abandoned)
        /\ UNCHANGED <<channel, queued, job>>
    BY <1>10 DEF CountAbandoned
  <2>2. \A q \in Requests : caller'[q] = IF q = r THEN "done" ELSE caller[q]
    BY <1>5, <2>1 DEF Stages
  <2>3. Reserved' = Reserved BY <1>4, <2>1, <2>2
  <2>4. r \in Leaving /\ \A q : q \in Leaving' <=> q \in Leaving /\ q # r
    BY <1>4, <2>1, <2>2
  <2>5. Cardinality(Leaving') = Cardinality(Leaving) - 1 /\ Cardinality(Leaving) >= 1
    BY <2>4, Sizes, Departs
  <2>6. /\ abandoned = Word - 1 => abandoned' = 0
        /\ abandoned # Word - 1 => abandoned' = abandoned + 1
    BY <2>1, Wrap DEF PoolTypeOK
  <2>7. \/ abandoned' + Cardinality(Leaving') = Cardinality(Overdue)
        \/ abandoned' + Cardinality(Leaving') = Cardinality(Overdue) + Word
    <3>1. \/ abandoned + Cardinality(Leaving) = Cardinality(Overdue)
          \/ abandoned + Cardinality(Leaving) = Cardinality(Overdue) + Word
      BY DEF Counts
    <3> DEFINE cl == Cardinality(Leaving)
               dl == Cardinality(Leaving')
               lost == Cardinality(Overdue)
    <3>2. /\ cl \in Nat /\ dl = cl - 1 /\ cl >= 1 /\ lost \in Nat
          /\ abandoned \in Nat /\ Word \in Nat /\ lost < Word
          /\ abandoned + cl = lost \/ abandoned + cl = lost + Word
      BY <1>0, <2>5, <3>1
    <3> HIDE DEF cl, dl, lost
    <3>3. abandoned' + dl = lost \/ abandoned' + dl = lost + Word
      <4>1. CASE abandoned = Word - 1 BY <2>6, <3>2, <4>1
      <4>2. CASE abandoned # Word - 1 BY <2>6, <3>2, <4>2
      <4> QED BY <4>1, <4>2
    <3> QED BY <3>3 DEF cl, dl, lost
  <2> QED BY <1>1, <1>2, <1>3, <2>1, <2>3, <2>7 DEF Counts
<1> QED BY <1>6, <1>7, <1>8, <1>9, <1>10 DEF Run

\* So do the steps of a worker.
LEMMA CountsOfWork ==
  ASSUME ReadPoolAssumption, PoolTypeOK, Placed, JobsAgree, Counts, NEW w \in Workers, Work(w)
  PROVE  Counts'
<1>0. /\ queued \in Nat /\ active \in Nat /\ abandoned \in Nat
      /\ Cardinality(Reserved) \in Nat /\ Cardinality(Leaving) \in Nat
      /\ Cardinality(Received) \in Nat /\ Cardinality(Overdue) \in Nat
      /\ Cardinality(Reading) \in Nat /\ Cardinality(Reading) < Word
      /\ Len(channel) \in Nat /\ Capacity \in Nat /\ Word \in Nat
      /\ Cardinality(Leaving) < Word /\ Capacity < Word /\ abandoned < Word
  BY Numbers
<1>1. UNCHANGED caller
  BY DEF Work, Receive, DropPermit, Claim, CountActive, FinishRead, UncountActive,
    UncountAbandoned, SendResponse
<1>2. Reserved' = Reserved /\ Leaving' = Leaving BY <1>1 DEF Reserved, Leaving
<1>3. \A v \in Workers \ {w} : worker'[v] = worker[v]
  BY KeepsOrRests DEF Receive, PoolTypeOK
<1>4. /\ \A v : v \in Received <=> v \in Workers /\ worker[v].pc = "received"
      /\ \A v : v \in Received' <=> v \in Workers /\ worker'[v].pc = "received"
      /\ \A v : v \in Reading <=> v \in Workers /\ worker[v].pc \in {"reading", "finished"}
      /\ \A v : v \in Reading' <=> v \in Workers /\ worker'[v].pc \in {"reading", "finished"}
      /\ \A v : v \in Overdue <=> v \in Workers /\ Abandoned(v)
      /\ \A v : v \in Overdue' <=> v \in Workers /\ Abandoned(v)'
  BY DEF Received, Reading, Overdue, Doing
\* What another worker has begun is not the job of this one.
<1>5. \A v \in Workers \ {w} :
        Begun(v) => worker[v].job \in Requests /\ (worker[w].pc \in Busy => worker[v].job # worker[w].job)
  BY BusyJob DEF Placed, Has, Begun, Busy
<1>6. ASSUME \A q \in Requests : (worker[w].pc \in Busy /\ q = worker[w].job) \/ job'[q] = job[q]
      PROVE  \A v \in Workers \ {w} : Abandoned(v)' <=> Abandoned(v)
  BY <1>3, <1>5, <1>6 DEF Abandoned, Begun
<1>7. CASE Receive(w)
  <2>1. /\ worker[w].pc = "idle" /\ worker'[w].pc = "received"
        /\ channel # <<>> /\ channel' = Tail(channel) /\ UNCHANGED <<countVars, job>>
    BY <1>7 DEF Receive, Doing, PoolTypeOK
  <2>2. Len(channel') = Len(channel) - 1 /\ Len(channel) >= 1 BY <2>1 DEF PoolTypeOK
  <2>3. w \notin Received /\ \A v : v \in Received' <=> v \in Received \/ v = w
    BY <1>3, <1>4, <2>1
  <2>4. Reading' = Reading BY <1>3, <1>4, <2>1
  <2>5. ~Abandoned(w) /\ ~Abandoned(w)' BY <2>1 DEF Abandoned
  <2>6. Overdue' = Overdue BY <1>4, <1>6, <2>1, <2>5
  <2>7. Cardinality(Received') = Cardinality(Received) + 1 BY <2>3, Sizes, Joins
  <2> QED BY <1>0, <1>2, <2>1, <2>2, <2>4, <2>6, <2>7 DEF Counts, countVars
<1>8. CASE DropPermit(w)
  <2>1. /\ worker[w].pc = "received" /\ worker'[w].pc = "claiming"
        /\ queued' = Down(queued) /\ UNCHANGED <<channel, active, abandoned, job>>
    BY <1>8, WorkerMoves DEF DropPermit, Doing, Busy
  <2>2. w \in Received /\ \A v : v \in Received' <=> v \in Received /\ v # w
    BY <1>3, <1>4, <2>1
  <2>3. Reading' = Reading BY <1>3, <1>4, <2>1
  <2>4. ~Abandoned(w) /\ ~Abandoned(w)' BY <2>1 DEF Abandoned
  <2>5. Overdue' = Overdue BY <1>4, <1>6, <2>1, <2>4
  <2>6. Cardinality(Received') = Cardinality(Received) - 1 /\ Cardinality(Received) >= 1
    BY <2>2, Sizes, Departs
  <2>7. queued # 0 /\ queued < Word BY <1>0, <2>6 DEF Counts
  <2>8. queued' = queued - 1 BY <1>0, <2>1, <2>7, Decrements
  <2>9. /\ Cardinality(Reserved') = Cardinality(Reserved)
        /\ Cardinality(Leaving') = Cardinality(Leaving)
        /\ Cardinality(Overdue') = Cardinality(Overdue) /\ Cardinality(Reading') = Cardinality(Reading)
        /\ Len(channel') = Len(channel) /\ active' = active /\ abandoned' = abandoned
    BY <1>2, <2>1, <2>3, <2>5
  <2>10. /\ queued' = Cardinality(Reserved') + Len(channel') + Cardinality(Received')
         /\ queued' <= Capacity
    <3>1. queued = Cardinality(Reserved) + Len(channel) + Cardinality(Received) /\ queued <= Capacity
      BY <1>0 DEF Counts
    <3>2. /\ Cardinality(Reserved) \in Nat /\ Len(channel) \in Nat
          /\ Cardinality(Received) \in Nat /\ Capacity \in Nat
      BY Sizes DEF ReadPoolAssumption
    <3>3. /\ queued - 1 = Cardinality(Reserved) + Len(channel) + (Cardinality(Received) - 1)
          /\ queued - 1 <= Capacity
      BY <3>1, <3>2
    <3> QED BY <2>6, <2>8, <2>9, <3>3
  <2> QED BY <2>9, <2>10 DEF Counts
<1>9. CASE Claim(w)
  <2>1. /\ worker[w].pc = "claiming" /\ worker[w].job \in Requests
        /\ UNCHANGED <<channel, countVars>>
    BY <1>9, BusyJob DEF Claim, Doing, Busy
  <2>2. /\ \/ worker'[w].pc = "claimed" /\ worker'[w].job = worker[w].job
              /\ job'[worker[w].job] = "active"
           \/ worker'[w].pc = "idle"
        /\ \A q \in Requests : q = worker[w].job \/ job'[q] = job[q]
    BY <1>9, <2>1, WorkerMoves, WorkerRests DEF Claim, Busy, PoolTypeOK
  <2>3. Received' = Received /\ Reading' = Reading
    <3>1. \A v : v \in Received' <=> v \in Received BY <1>3, <1>4, <2>1, <2>2
    <3>2. \A v : v \in Reading' <=> v \in Reading BY <1>3, <1>4, <2>1, <2>2
    <3> QED BY <3>1, <3>2
  <2>4. ~Abandoned(w) /\ ~Abandoned(w)' BY <2>1, <2>2 DEF Abandoned
  <2>5. Overdue' = Overdue
    <3>1. \A v \in Workers \ {w} : Abandoned(v)' <=> Abandoned(v)
      BY <1>6, <2>1, <2>2 DEF Busy
    <3>2. \A v : v \in Overdue' <=> v \in Overdue BY <1>4, <2>4, <3>1
    <3> QED BY <3>2
  <2> QED BY <1>2, <2>1, <2>3, <2>5 DEF Counts, countVars
<1>10. CASE CountActive(w)
  <2>1. /\ worker[w].pc = "claimed" /\ worker'[w].pc = "reading"
        /\ worker'[w].job = worker[w].job /\ worker'[w].was = worker[w].was
        /\ active' = Up(active) /\ UNCHANGED <<channel, queued, abandoned, job>>
    BY <1>10, WorkerMoves DEF CountActive, Doing, Busy
  <2>2. w \notin Reading /\ \A v : v \in Reading' <=> v \in Reading \/ v = w
    BY <1>3, <1>4, <2>1
  <2>3. Received' = Received
    <3>1. worker[w].pc # "received" /\ worker'[w].pc # "received" BY <2>1
    <3>2. \A v : v \in Received' <=> v \in Received BY <1>3, <1>4, <3>1
    <3> QED BY <3>2
  <2>4. Abandoned(w)' <=> Abandoned(w) BY <2>1 DEF Abandoned
  <2>5. Overdue' = Overdue BY <1>4, <1>6, <2>1, <2>4
  <2>6. Cardinality(Reading') = Cardinality(Reading) + 1 BY <2>2, Sizes, Joins
  <2>7. active < Word - 1
    <3>1. \A v : v \in Reading => v \in Workers /\ v # w BY <1>4, <2>2
    <3>2. Reading \in SUBSET (Workers \ {w}) BY <3>1
    <3>3. IsFiniteSet(Workers) /\ Cardinality(Workers) \in Nat /\ Cardinality(Workers) < Word
      BY Sizes DEF ReadPoolAssumption
    <3>4. Cardinality(Workers \ {w}) = Cardinality(Workers) - 1 /\ IsFiniteSet(Workers \ {w})
      BY <3>3, FS_RemoveElement
    <3>5. Cardinality(Reading) <= Cardinality(Workers) - 1 BY <3>2, <3>4, FS_Subset
    <3> QED BY <1>0, <3>3, <3>5 DEF Counts
  <2>8. active' = active + 1 BY <1>0, <2>1, <2>7, Increments
  <2> QED BY <1>2, <2>1, <2>3, <2>5, <2>6, <2>8 DEF Counts
<1>11. CASE FinishRead(w)
  <2>1. /\ worker[w].pc = "reading" /\ worker[w].job \in Requests
        /\ UNCHANGED <<channel, countVars>>
    BY <1>11, BusyJob DEF FinishRead, Doing, Busy
  <2>2. /\ worker'[w].pc = "finished" /\ worker'[w].was = job[worker[w].job]
        /\ \A q \in Requests : q = worker[w].job \/ job'[q] = job[q]
    BY <1>11, <2>1 DEF FinishRead, PoolTypeOK, Idle
  <2>3. Received' = Received /\ Reading' = Reading
    <3>1. \A v : v \in Received' <=> v \in Received BY <1>3, <1>4, <2>1, <2>2
    <3>2. \A v : v \in Reading' <=> v \in Reading BY <1>3, <1>4, <2>1, <2>2
    <3> QED BY <3>1, <3>2
  <2>4. Abandoned(w)' <=> Abandoned(w) BY <2>1, <2>2 DEF Abandoned
  <2>5. Overdue' = Overdue
    <3>1. \A v \in Workers \ {w} : Abandoned(v)' <=> Abandoned(v)
      BY <1>6, <2>1, <2>2 DEF Busy
    <3>2. \A v : v \in Overdue' <=> v \in Overdue BY <1>4, <2>4, <3>1
    <3> QED BY <3>2
  <2> QED BY <1>2, <2>1, <2>3, <2>5 DEF Counts, countVars
<1>12. CASE UncountActive(w)
  <2>1. /\ worker[w].pc = "finished" /\ worker'[w].was = worker[w].was
        /\ worker'[w].pc = IF worker[w].was = "abandoned" THEN "released" ELSE "answering"
        /\ active' = Down(active) /\ UNCHANGED <<channel, queued, abandoned, job>>
    BY <1>12, WorkerMoves DEF UncountActive, Doing, Busy
  <2>2. w \in Reading /\ \A v : v \in Reading' <=> v \in Reading /\ v # w
    BY <1>3, <1>4, <2>1
  <2>3. Received' = Received
    <3>1. worker[w].pc # "received" /\ worker'[w].pc # "received" BY <2>1
    <3>2. \A v : v \in Received' <=> v \in Received BY <1>3, <1>4, <3>1
    <3> QED BY <3>2
  <2>4. Abandoned(w)' <=> Abandoned(w) BY <2>1 DEF Abandoned
  <2>5. Overdue' = Overdue BY <1>4, <1>6, <2>1, <2>4
  <2>6. Cardinality(Reading') = Cardinality(Reading) - 1 /\ Cardinality(Reading) >= 1
    BY <2>2, Sizes, Departs
  <2>7. active' = active - 1 BY <1>0, <2>1, <2>6, Decrements DEF Counts
  <2> QED BY <1>2, <2>1, <2>3, <2>5, <2>6, <2>7 DEF Counts
<1>13. CASE UncountAbandoned(w)
  <2>1. /\ worker[w].pc = "released" /\ worker'[w].pc = "answering"
        /\ abandoned' = Down(abandoned) /\ UNCHANGED <<channel, queued, active, job>>
    BY <1>13, WorkerMoves DEF UncountAbandoned, Doing, Busy
  <2>2. Received' = Received /\ Reading' = Reading BY <1>3, <1>4, <2>1
  <2>3. Abandoned(w) BY <2>1 DEF JobsAgree, Abandoned, Doing
  <2>4. ~Abandoned(w)' BY <2>1 DEF Abandoned
  <2>5. w \in Overdue /\ \A v : v \in Overdue' <=> v \in Overdue /\ v # w
    BY <1>4, <1>6, <2>1, <2>3, <2>4
  <2>6. Cardinality(Overdue') = Cardinality(Overdue) - 1 /\ Cardinality(Overdue) >= 1
    BY <2>5, Sizes, Departs
  <2>7. /\ abandoned = 0 => abandoned' = Word - 1
        /\ abandoned # 0 => abandoned' = abandoned - 1
    BY <2>1, Wrap DEF PoolTypeOK
  <2>8. \/ abandoned' + Cardinality(Leaving) = Cardinality(Overdue')
        \/ abandoned' + Cardinality(Leaving) = Cardinality(Overdue') + Word
    <3>1. CASE abandoned = 0 BY <1>0, <2>6, <2>7, <3>1 DEF Counts
    <3>2. CASE abandoned # 0
      <4>1. \/ abandoned + Cardinality(Leaving) = Cardinality(Overdue)
            \/ abandoned + Cardinality(Leaving) = Cardinality(Overdue) + Word
        BY DEF Counts
      <4> QED BY <1>0, <2>6, <2>7, <3>2, <4>1
    <3> QED BY <3>1, <3>2
  <2> QED BY <1>2, <2>1, <2>2, <2>8 DEF Counts
<1>14. CASE SendResponse(w)
  <2>1. /\ worker[w].pc = "answering" /\ worker'[w].pc = "idle"
        /\ UNCHANGED <<channel, countVars, job>>
    BY <1>14, WorkerRests DEF SendResponse, Doing
  <2>2. Received' = Received /\ Reading' = Reading BY <1>3, <1>4, <2>1
  <2>3. ~Abandoned(w) /\ ~Abandoned(w)' BY <2>1 DEF Abandoned
  <2>4. Overdue' = Overdue BY <1>4, <1>6, <2>1, <2>3
  <2> QED BY <1>2, <2>1, <2>2, <2>4 DEF Counts, countVars
<1> QED BY <1>7, <1>8, <1>9, <1>10, <1>11, <1>12, <1>13, <1>14 DEF Work

-----------------------------------------------------------------------------
\* The strengthened invariant holds of every pool.
THEOREM PoolInvariance == ASSUME ReadPoolAssumption PROVE PoolSpec => []PoolIInv
<1>1. PoolInit => PoolIInv BY PoolInitInv
<1>2. PoolIInv /\ [PoolNext]_poolVars => PoolIInv'
  <2> SUFFICES ASSUME PoolIInv, [PoolNext]_poolVars PROVE PoolIInv'
    OBVIOUS
  <2>1. ASSUME NEW r \in Requests, Run(r) PROVE PoolIInv'
    BY <2>1, TypeOfRun, PlacedOfRun, JobsOfRun, CountsOfRun DEF PoolIInv
  <2>2. ASSUME NEW w \in Workers, Work(w) PROVE PoolIInv'
    BY <2>2, TypeOfWork, PlacedOfWork, JobsOfWork, CountsOfWork DEF PoolIInv
  <2>3. CASE UNCHANGED poolVars
    <3>1. PoolTypeOK' BY <2>3 DEF poolVars, countVars, PoolIInv, PoolTypeOK
    <3>2. Placed' /\ JobsAgree' BY <2>3 DEF poolVars, PoolIInv, Placed, JobsAgree, Has, Begun, Doing
    <3>3. Counts'
      BY <2>3 DEF poolVars, countVars, PoolIInv, Counts, Reserved, Leaving, Received, Reading, Overdue,
        Abandoned, Doing
    <3> QED BY <3>1, <3>2, <3>3 DEF PoolIInv
  <2> QED BY <2>1, <2>2, <2>3 DEF PoolNext
<1> QED BY <1>1, <1>2, PTL DEF PoolSpec

\* Queue slots, running reads and abandoned reads are what the counters say,
\* whoever leaves when; and a pool takes itself for lost only if it is, or
\* while a caller that leaves has yet to count itself.
THEOREM SlotsAccountedHolds == ASSUME ReadPoolAssumption PROVE PoolSpec => []SlotsAccounted
<1>1. PoolIInv => SlotsAccounted
  <2> SUFFICES ASSUME PoolIInv PROVE SlotsAccounted OBVIOUS
  <2> USE DEF PoolIInv
  <2>1. \A r \in Requests : caller[r] = "reserved" => Len(channel) < Capacity BY HasRoom
  <2>2. Cardinality(Overdue) \in 0 .. Word - 1 BY Sizes
  <2>3. (abandoned + Cardinality(Leaving)) % Word = Cardinality(Overdue)
    <3>1. CASE abandoned + Cardinality(Leaving) = Cardinality(Overdue) BY <2>2, <3>1, Wrap
    <3>2. CASE abandoned + Cardinality(Leaving) = Cardinality(Overdue) + Word
      BY <2>2, <3>2, Wrap
    <3> QED BY <3>1, <3>2 DEF Counts
  <2>4. ASSUME AllWorkersAbandoned, Leaving = {} PROVE Overdue = Workers
    <3>1. Cardinality(Leaving) = 0 BY <2>4, FS_EmptySet
    <3>2. Cardinality(Overdue) = Cardinality(Workers)
      BY <2>4, <3>1, Sizes DEF AllWorkersAbandoned, Counts, PoolTypeOK
    <3>3. Overdue \in SUBSET Workers /\ IsFiniteSet(Workers) BY DEF Overdue, ReadPoolAssumption
    <3> QED BY <3>2, <3>3, FS_Subset
  <2> QED BY <2>1, <2>3, <2>4 DEF SlotsAccounted, Counts, Reserved, Leaving, Received, Reading, Overdue
<1> QED BY <1>1, PoolInvariance, PTL

-----------------------------------------------------------------------------
(* Requests over connections.                                              *)
(*                                                                         *)
(* The argument follows one request.  Until it is applied it is in one     *)
(* place: on its way on a connection (`Carries`), or in the command        *)
(* channel (`InMail`).  It gets there once, because a connection of a tool *)
(* that mutates is used for one request (`SingleUse`) and the request is   *)
(* not repeated.  What a response says of it stays true (`True`), since    *)
(* whoever gives the response has taken the request out of that place.     *)

Asks == {"list", "health", "events", "logs", "stop"} \cup Mutations
Kinds ==
  {"none", "services", "health", "events", "logs", "shutting_down", "accepted"} \cup ErrorKinds
Responses == [kind : Kinds, generation : Nat]
ToolNames == {"mutate", "dynamic", "diagnose", "shutdown"}
Tasks == {"none", "backlog", "reading", "dispatching", "waiting", "replying", "cancelling"}
Outcomes == {"none", "running", "ok", "lost", "mixed"} \cup ErrorKinds

Calls ==
  [tool : ToolNames \cup {"none"}, step : Nat, conn : Conns \cup {0}, asked : BOOLEAN,
   again : BOOLEAN, outcome : Outcomes, answer : Responses]
Connections ==
  [client : BOOLEAN, by : Callers \cup {"none"}, up : Seq(Asks), down : Seq(Responses),
   task : Tasks, ask : Asks \cup {"none"}, reply : Responses]
Commands == [by : Callers \cup {"operator"}, conn : Conns \cup {0}]

ConnectionTypeOK ==
  /\ call \in [Callers -> Calls]
  /\ conn \in [Conns -> Connections]
  /\ mailbox \in Seq(Commands)
  /\ applied \in [Callers -> Seq(Nat)]
  /\ generation \in Nat

Mutator(c) == call[c].tool \in {"mutate", "dynamic"}
AtMutation(c) == Mutator(c) /\ Running(c) /\ call[c].step = Len(Script(call[c].tool))
\* The mutation of c may have been sent.
Tried(c) == Mutator(c) /\ (Running(c) => AtMutation(c) /\ call[c].asked)

\* A mutation that has not got to the channel, and one that has.
Sends(up) == \E i \in DOMAIN up : up[i] \in Mutations
Carries(k) == Sends(conn[k].up) \/ (TaskIs(k, "dispatching") /\ conn[k].ask \in Mutations)
InMail(c) == \E i \in DOMAIN mailbox : mailbox[i].by = c

\* The mutation of c has not been applied and will not be.
Never(c) ==
  applied[c] = <<>> /\ ~InMail(c) /\ \A k \in Conns : conn[k].by = c => ~Carries(k)
True(c, response) ==
  /\ response.kind \in {"accepted", "rejected", "scheduler_stopped"} => Tried(c)
  /\ response.kind = "accepted" => applied[c] = <<response.generation>>
  /\ response.kind \in {"rejected", "scheduler_stopped"} => Never(c)

-----------------------------------------------------------------------------
(* The invariant: of each connection, each call, and the channel.           *)

\* The two ends of a connection, and what the server's task is at.
Ends(k) ==
  /\ conn[k].client => conn[k].by \in Callers /\ call[conn[k].by].conn = k
  /\ ~conn[k].client => conn[k].down = <<>>
  /\ ~conn[k].client /\ TaskIs(k, "none") => conn[k] = Unused
  /\ conn[k].by = "none" => conn[k] = Unused
  /\ conn[k].by \in Callers => call[conn[k].by].tool # "none"
  /\ conn[k].task \in {"none", "backlog", "reading"} <=> conn[k].ask = "none"
  /\ conn[k].task \in {"none", "backlog", "reading", "dispatching"} => conn[k].reply = None
  /\ TaskIs(k, "none") => conn[k].up = <<>>
  /\ TaskIs(k, "replying") => conn[k].reply # None
  /\ conn[k].reply.kind = "none" => conn[k].reply = None
  /\ TaskIs(k, "waiting") => conn[k].ask \in Mutations
  /\ TaskIs(k, "waiting") /\ conn[k].reply = None =>
       \E i \in DOMAIN mailbox : mailbox[i].conn = k

\* The connection of a tool that mutates carries one request and one response.
SingleUse(k) ==
  conn[k].by \in Callers /\ Mutator(conn[k].by) =>
    LET c == conn[k].by
    IN  /\ conn[k].up # <<>> =>
             /\ Tail(conn[k].up) = <<>> /\ conn[k].task \in {"backlog", "reading"}
             /\ conn[k].down = <<>>
             /\ Head(conn[k].up) \in {"list"} \cup Mutations
             /\ conn[k].client => call[c].asked /\ Head(conn[k].up) = Now(c).ask
        /\ conn[k].ask # "none" =>
             /\ conn[k].up = <<>> /\ conn[k].down = <<>>
             /\ conn[k].ask \in {"list"} \cup Mutations
             /\ conn[k].client => call[c].asked /\ conn[k].ask = Now(c).ask
        /\ conn[k].client /\ ~call[c].asked => conn[k].down = <<>>
        /\ conn[k].client /\ AtMutation(c) =>
             /\ conn[k].down # <<>> =>
                  Head(conn[k].down).kind \in {"accepted", "rejected", "scheduler_stopped", "timeout"}
             /\ conn[k].reply.kind
                  \in {"none", "accepted", "rejected", "scheduler_stopped", "timeout"}

\* Other tools do not send any.
OnlyMutators(k) ==
  conn[k].by \in Callers /\ ~Mutator(conn[k].by) =>
    ~Sends(conn[k].up) /\ conn[k].ask \notin Mutations

\* What is said of a mutation is true.
TellsTruth(k) ==
  conn[k].by \in Callers /\ Mutator(conn[k].by) =>
    /\ True(conn[k].by, conn[k].reply)
    /\ conn[k].down # <<>> => True(conn[k].by, Head(conn[k].down))

\* A mutation on its way is nowhere else.
Loaded(k) ==
  Carries(k) =>
    /\ conn[k].by \in Callers /\ Tried(conn[k].by)
    /\ ~InMail(conn[k].by) /\ applied[conn[k].by] = <<>>

Connected(k) == Ends(k) /\ SingleUse(k) /\ OnlyMutators(k) /\ TellsTruth(k) /\ Loaded(k)

\* A call, and what it reports.
Calling(c) ==
  /\ Running(c) => call[c].tool \in ToolNames /\ call[c].step \in 1 .. Len(Script(call[c].tool))
  /\ call[c].tool = "none" => call[c] = NoCall
  /\ call[c].asked => call[c].conn # 0
  /\ call[c].conn # 0 => Running(c) /\ conn[call[c].conn].client /\ conn[call[c].conn].by = c
  /\ Mutator(c) =>
       /\ call[c].outcome = "ok" => applied[c] = <<call[c].answer.generation>>
       /\ call[c].outcome \in {"rejected", "scheduler_stopped"} => Never(c)
       /\ call[c].outcome # "mixed"
  /\ InMail(c) => Tried(c) /\ applied[c] = <<>>
  /\ applied[c] # <<>> => Tried(c) /\ Len(applied[c]) = 1

\* A mutation is on one connection at most.
OnePlace == \A k, l \in Conns : Carries(k) /\ Carries(l) /\ conn[k].by = conn[l].by => k = l

\* Each command is there once, and its connection is nobody else's.
Mail ==
  /\ \A i, j \in DOMAIN mailbox :
       mailbox[i].by = mailbox[j].by => i = j \/ mailbox[i].by = "operator"
  /\ \A i \in DOMAIN mailbox :
       /\ mailbox[i].conn = 0 <=> mailbox[i].by = "operator"
       /\ mailbox[i].conn # 0 =>
            conn[mailbox[i].conn] = Unused \/ conn[mailbox[i].conn].by = mailbox[i].by

ConnectionIInv ==
  /\ ConnectionTypeOK
  /\ \A k \in Conns : Connected(k)
  /\ \A c \in Callers : Calling(c)
  /\ OnePlace /\ Mail
-----------------------------------------------------------------------------
(* Sequences of requests, responses and commands.                           *)

\* What appending does to the type, the head and the tail of a sequence.
LEMMA Appending ==
  ASSUME NEW S, NEW s \in Seq(S), NEW e \in S
  PROVE  /\ Append(s, e) \in Seq(S) /\ Append(s, e) # <<>>
         /\ s = <<>> => Head(Append(s, e)) = e /\ Tail(Append(s, e)) = <<>>
         /\ s # <<>> => Head(Append(s, e)) = Head(s)
  OBVIOUS

\* A sequence that is not empty has a head and a tail of its type.
LEMMA Taking ==
  ASSUME NEW S, NEW s \in Seq(S), s # <<>>
  PROVE  Head(s) \in S /\ Tail(s) \in Seq(S)
  OBVIOUS

\* An empty stream carries no mutation.
LEMMA SendsNothing == ~Sends(<<>>)
  BY DEF Sends

\* A stream carries a mutation that is written to it.
LEMMA SendsAppended ==
  ASSUME NEW up \in Seq(Asks), NEW ask \in Asks
  PROVE  Sends(Append(up, ask)) <=> Sends(up) \/ ask \in Mutations
<1> DEFINE n == Len(up)
<1>1. /\ n \in Nat /\ DOMAIN up = 1 .. n /\ DOMAIN Append(up, ask) = 1 .. n + 1
      /\ \A i \in 1 .. n : Append(up, ask)[i] = up[i]
      /\ Append(up, ask)[n + 1] = ask
  OBVIOUS
<1> HIDE DEF n
<1>2. \A i \in 1 .. n + 1 : i \in 1 .. n \/ i = n + 1 BY <1>1
<1>3. n + 1 \in 1 .. n + 1 /\ \A i \in 1 .. n : i \in 1 .. n + 1 BY <1>1
<1> QED BY <1>1, <1>2, <1>3 DEF Sends

\* What a stream carries is its next request, or after it.
LEMMA SendsTaken ==
  ASSUME NEW up \in Seq(Asks), up # <<>>
  PROVE  Sends(up) <=> Head(up) \in Mutations \/ Sends(Tail(up))
<1> DEFINE n == Len(up)
<1>1. /\ n \in Nat \ {0} /\ DOMAIN up = 1 .. n /\ DOMAIN Tail(up) = 1 .. n - 1
      /\ \A i \in 1 .. n - 1 : Tail(up)[i] = up[i + 1]
      /\ Head(up) = up[1]
  OBVIOUS
<1> HIDE DEF n
<1>2. \A i \in 1 .. n : i = 1 \/ (i - 1 \in 1 .. n - 1 /\ (i - 1) + 1 = i) BY <1>1
<1>3. 1 \in 1 .. n /\ \A i \in 1 .. n - 1 : i + 1 \in 1 .. n BY <1>1
<1> QED BY <1>1, <1>2, <1>3 DEF Sends

\* The requests of the tools: those that mutate do so last, and without fail.
LEMMA Scripts ==
  /\ \A tool \in ToolNames : \A i \in 1 .. Len(Script(tool)) :
       /\ Script(tool)[i].ask \in Asks
       /\ Script(tool)[i].best \in BOOLEAN /\ Script(tool)[i].fresh \in BOOLEAN
       /\ tool \notin {"mutate", "dynamic"} => Script(tool)[i].ask \notin Mutations
  /\ \A tool \in ToolNames : Len(Script(tool)) \in Nat \ {0}
  /\ Len(Script("mutate")) = 2 /\ Len(Script("dynamic")) = 1
  /\ Script("mutate")[1].ask = "list" /\ Script("mutate")[1].best
  /\ Script("mutate")[2].ask = "restart" /\ ~Script("mutate")[2].best /\ Script("mutate")[2].fresh
  /\ Script("dynamic")[1].ask = "start_dynamic" /\ ~Script("dynamic")[1].best
<1> DEFINE Sane(request) ==
      request.ask \in Asks /\ request.best \in BOOLEAN /\ request.fresh \in BOOLEAN
<1> DEFINE capture == Step("list", TRUE, TRUE)
<1> DEFINE restart == Step("restart", FALSE, TRUE)
<1> DEFINE start == Step("start_dynamic", FALSE, TRUE)
<1> DEFINE stop == Step("stop", FALSE, TRUE)
<1> DEFINE list == Step("list", FALSE, TRUE)
<1> DEFINE health == Step("health", TRUE, FALSE)
<1> DEFINE events == Step("events", TRUE, FALSE)
<1> DEFINE logs == Step("logs", FALSE, FALSE)
<1>1. /\ Sane(capture) /\ capture.ask = "list" /\ capture.best
      /\ Sane(restart) /\ restart.ask = "restart" /\ ~restart.best /\ restart.fresh
      /\ Sane(start) /\ start.ask = "start_dynamic" /\ ~start.best
  BY DEF Step, Asks, Mutations
<1>2. /\ Sane(stop) /\ stop.ask \notin Mutations
      /\ Sane(list) /\ list.ask \notin Mutations
      /\ Sane(health) /\ health.ask \notin Mutations
      /\ Sane(events) /\ events.ask \notin Mutations
      /\ Sane(logs) /\ logs.ask \notin Mutations
  BY DEF Step, Asks, Mutations
<1>3. /\ Script("mutate") = <<capture, restart>> /\ Script("dynamic") = <<start>>
      /\ Script("shutdown") = <<stop>>
  BY DEF Script, CaptureThenMutate
<1>4. Script("diagnose") = <<list, health, events, logs>>
  BY DEF Script, Diagnosis
<1> HIDE DEF Sane, capture, restart, start, stop, list, health, events, logs
<1>5. /\ Len(Script("mutate")) = 2
      /\ Script("mutate")[1] = capture /\ Script("mutate")[2] = restart
      /\ Len(Script("dynamic")) = 1 /\ Script("dynamic")[1] = start
      /\ Len(Script("shutdown")) = 1 /\ Script("shutdown")[1] = stop
  BY <1>3
<1>6. /\ Len(Script("diagnose")) = 4
      /\ Script("diagnose")[1] = list /\ Script("diagnose")[2] = health
      /\ Script("diagnose")[3] = events /\ Script("diagnose")[4] = logs
  BY <1>4
<1>7. \A i \in 1 .. Len(Script("mutate")) : Sane(Script("mutate")[i])
  <2>1. \A i \in 1 .. 2 : i = 1 \/ i = 2 OBVIOUS
  <2> QED BY <1>1, <1>5, <2>1
<1>8. /\ \A i \in 1 .. Len(Script("dynamic")) : Sane(Script("dynamic")[i])
      /\ \A i \in 1 .. Len(Script("shutdown")) :
           Sane(Script("shutdown")[i]) /\ Script("shutdown")[i].ask \notin Mutations
  <2>1. \A i \in 1 .. 1 : i = 1 OBVIOUS
  <2> QED BY <1>1, <1>2, <1>5, <2>1
<1>9. \A i \in 1 .. Len(Script("diagnose")) :
        Sane(Script("diagnose")[i]) /\ Script("diagnose")[i].ask \notin Mutations
  <2>1. \A i \in 1 .. 4 : i = 1 \/ i = 2 \/ i = 3 \/ i = 4 OBVIOUS
  <2> QED BY <1>2, <1>6, <2>1
<1>10. \A tool \in ToolNames : \A i \in 1 .. Len(Script(tool)) :
         /\ Sane(Script(tool)[i])
         /\ tool \notin {"mutate", "dynamic"} => Script(tool)[i].ask \notin Mutations
  BY <1>7, <1>8, <1>9 DEF ToolNames
<1>11. \A tool \in ToolNames : Len(Script(tool)) \in Nat \ {0}
  BY <1>5, <1>6 DEF ToolNames
<1> QED BY <1>1, <1>5, <1>10, <1>11 DEF Sane
-----------------------------------------------------------------------------
(* What the parts of the steps do to a connection and to a call.            *)

\* The fields of what is not there yet: a response, a connection, a call.
LEMMA Nothing ==
  /\ None \in Responses /\ None.kind = "none"
  /\ Unused \in Connections /\ ~Unused.client /\ Unused.by = "none" /\ Unused.task = "none"
  /\ Unused.up = <<>> /\ Unused.down = <<>> /\ Unused.ask = "none" /\ Unused.reply = None
  /\ NoCall \in Calls /\ NoCall.tool = "none" /\ NoCall.outcome = "none"
  /\ NoCall.conn = 0 /\ ~NoCall.asked
  BY DEF None, Response, Responses, Kinds, ErrorKinds, Unused, Connections, Tasks, NoCall,
         Calls, Outcomes

\* A response of a kind is well typed.
LEMMA Responding ==
  ASSUME NEW kind \in Kinds
  PROVE  /\ Response(kind) \in Responses /\ Response(kind).kind = kind
         /\ Response(kind) = None <=> kind = "none"
  BY DEF None, Response, Responses

\* The two names that no tool has, and the number that no connection has.
LEMMA Names ==
  ASSUME ConnectionAssumption
  PROVE  "none" \notin Callers /\ "operator" \notin Callers /\ 0 \notin Conns
  BY DEF ConnectionAssumption

\* The fields of connection k after a step, for one whose ends do not change.
Moved(k, task, up, ask, reply, down) ==
  /\ conn' \in [Conns -> Connections]
  /\ \A j \in Conns \ {k} : conn'[j] = conn[j]
  /\ (conn'[k].client <=> conn[k].client) /\ conn'[k].by = conn[k].by
  /\ conn'[k].task = task /\ conn'[k].up = up /\ conn'[k].ask = ask
  /\ conn'[k].reply = reply /\ conn'[k].down = down

\* The connection as the server leaves it.
LEMMA LeftIs ==
  ASSUME NEW k \in Conns, conn[k] \in Connections
  PROVE  /\ Left(k) \in Connections
         /\ Left(k).task = "none" /\ Left(k).up = <<>> /\ Left(k).ask = "none"
         /\ Left(k).reply = None /\ (Left(k).client <=> conn[k].client)
         /\ conn[k].client => Left(k).by = conn[k].by /\ Left(k).down = conn[k].down
         /\ ~conn[k].client => Left(k) = Unused
<1>1. CASE conn[k].client
  <2>1. Left(k) = [conn[k] EXCEPT !.task = "none", !.up = <<>>, !.ask = "none", !.reply = None]
    BY <1>1 DEF Left
  <2>2. "none" \in Tasks /\ <<>> \in Seq(Asks) BY DEF Tasks
  <2>3. Left(k) \in Connections BY <2>1, <2>2, Nothing DEF Connections
  <2>4. Left(k).client <=> conn[k].client BY <2>1 DEF Connections
  <2>5. /\ Left(k).task = "none" /\ Left(k).up = <<>> /\ Left(k).ask = "none"
        /\ Left(k).reply = None /\ Left(k).by = conn[k].by /\ Left(k).down = conn[k].down
    BY <2>1 DEF Connections
  <2> QED BY <1>1, <2>3, <2>4, <2>5
<1>2. CASE ~conn[k].client
  <2>1. Left(k) = Unused BY <1>2 DEF Left
  <2> QED BY <1>2, <2>1, Nothing
<1> QED BY <1>1, <1>2

\* The connections as a client leaves one of them.
LEMMA Dropping ==
  ASSUME ConnectionAssumption, NEW cs \in [Conns -> Connections], NEW k \in Conns
  PROVE  /\ Dropped(cs, k) \in [Conns -> Connections]
         /\ \A j \in Conns \ {k} : Dropped(cs, k)[j] = cs[j]
         /\ cs[k].task = "none" => Dropped(cs, k)[k] = Unused
         /\ cs[k].task # "none" =>
              /\ ~Dropped(cs, k)[k].client /\ Dropped(cs, k)[k].down = <<>>
              /\ Dropped(cs, k)[k].by = cs[k].by /\ Dropped(cs, k)[k].up = cs[k].up
              /\ Dropped(cs, k)[k].task = cs[k].task /\ Dropped(cs, k)[k].ask = cs[k].ask
              /\ Dropped(cs, k)[k].reply = cs[k].reply
<1> DEFINE left == IF cs[k].task = "none" THEN Unused
                   ELSE [cs[k] EXCEPT !.client = FALSE, !.down = <<>>]
<1>1. Dropped(cs, k) = [cs EXCEPT ![k] = left] BY DEF Dropped, ConnectionAssumption
<1>2. /\ left \in Connections
      /\ cs[k].task # "none" =>
           /\ ~left.client /\ left.down = <<>> /\ left.by = cs[k].by /\ left.up = cs[k].up
           /\ left.task = cs[k].task /\ left.ask = cs[k].ask /\ left.reply = cs[k].reply
  BY Nothing DEF Connections
<1>3. cs[k].task = "none" => left = Unused OBVIOUS
<1> HIDE DEF left
<1> QED BY <1>1, <1>2, <1>3

\* Nothing is sent, applied or put into the channel.
Lighter ==
  /\ applied' = applied
  /\ \A c \in Callers : (Tried(c) => Tried(c)') /\ (InMail(c)' => InMail(c))
  /\ \A k \in Conns : Carries(k)' => Carries(k) /\ conn'[k].by = conn[k].by

\* What has been said of a mutation stays true.
Faithful ==
  \A c \in Callers : /\ Tried(c) => Tried(c)'
                     /\ Never(c) => Never(c)'
                     /\ applied[c] # <<>> => applied'[c] = applied[c]

\* What a response says stays true.
LEMMA KeptTrue ==
  ASSUME Faithful, NEW c \in Callers, NEW response, True(c, response)
  PROVE  True(c, response)'
  BY DEF Faithful, True

\* A step that sends and applies nothing leaves true what was said.
LEMMA LighterIsFaithful == ASSUME Lighter PROVE Faithful
<1>1. \A c \in Callers : Never(c) => Never(c)' BY DEF Lighter, Never
<1> QED BY <1>1 DEF Lighter, Faithful

\* So a response that was true is true after it.
LEMMA StillTrue ==
  ASSUME Lighter, NEW c \in Callers
  PROVE  /\ Never(c) => Never(c)'
         /\ \A response : True(c, response) => True(c, response)'
<1>1. Never(c) => Never(c)' BY LighterIsFaithful DEF Faithful
<1>2. \A response : True(c, response) => True(c, response)' BY LighterIsFaithful, KeptTrue
<1> QED BY <1>1, <1>2

\* And a mutation stays in the one place where it is.
LEMMA StillLoaded ==
  ASSUME Lighter, OnePlace, \A k \in Conns : Loaded(k)
  PROVE  OnePlace' /\ \A k \in Conns : Loaded(k)'
<1>1. OnePlace' BY DEF Lighter, OnePlace
<1>2. ASSUME NEW k \in Conns PROVE Loaded(k)' BY <1>2 DEF Lighter, Loaded
<1> QED BY <1>1, <1>2

\* A step of the server leaves the other connections and the calls as they are.
LEMMA Elsewhere ==
  ASSUME Faithful, call' = call, NEW k \in Conns, Connected(k), Loaded(k)', conn'[k] = conn[k],
         TaskIs(k, "waiting") /\ conn[k].reply = None =>
           \A i \in DOMAIN mailbox : mailbox[i].conn = k =>
              \E j \in DOMAIN mailbox' : mailbox'[j].conn = k
  PROVE  Connected(k)'
<1>1. \A c \in Callers : /\ Mutator(c)' <=> Mutator(c)
                         /\ AtMutation(c)' <=> AtMutation(c)
  BY DEF Mutator, AtMutation, Running
<1>2. Ends(k)' BY DEF Connected, Ends, TaskIs
<1>3. SingleUse(k)' BY <1>1 DEF Connected, SingleUse, Now
<1>4. OnlyMutators(k)' BY <1>1 DEF Connected, OnlyMutators
<1>5. TellsTruth(k)' BY <1>1, KeptTrue DEF Connected, TellsTruth
<1> QED BY <1>2, <1>3, <1>4, <1>5 DEF Connected

\* A step that leaves the calls and the clients' ends keeps what is known of a call.
LEMMA CallingOn ==
  ASSUME Faithful, call' = call, NEW c \in Callers, Calling(c), call \in [Callers -> Calls],
         InMail(c)' => Tried(c) /\ applied'[c] = <<>>,
         applied'[c] # <<>> => Tried(c) /\ Len(applied'[c]) = 1,
         \A k \in Conns : conn[k].client => conn'[k].client /\ conn'[k].by = conn[k].by
  PROVE  Calling(c)'
<1>1. (Mutator(c)' <=> Mutator(c)) /\ (Running(c)' <=> Running(c)) BY DEF Mutator, Running
<1>2. call[c].conn # 0 => call[c].conn \in Conns BY DEF Calls
<1>3. \A g : applied[c] = <<g>> => applied'[c] = <<g>> BY DEF Faithful
<1> QED BY <1>1, <1>2, <1>3 DEF Calling, Faithful

\* The same for a step that sends and applies nothing.
LEMMA StillCalling ==
  ASSUME Lighter, call' = call, NEW c \in Callers, Calling(c), call \in [Callers -> Calls],
         \A k \in Conns : conn[k].client => conn'[k].client /\ conn'[k].by = conn[k].by
  PROVE  Calling(c)'
<1>1. Faithful BY LighterIsFaithful
<1>2. /\ InMail(c)' => Tried(c) /\ applied'[c] = <<>>
      /\ applied'[c] # <<>> => Tried(c) /\ Len(applied'[c]) = 1
  BY DEF Calling, Lighter
<1> QED BY <1>1, <1>2, CallingOn

\* The channel stays in order while the connections of its commands are not used again.
LEMMA StillMail ==
  ASSUME Mail, mailbox' = mailbox, mailbox \in Seq(Commands),
         \A k \in Conns : /\ conn[k] = Unused => conn'[k] = Unused
                          /\ conn'[k] = Unused \/ conn'[k].by = conn[k].by
  PROVE  Mail'
<1>1. \A i \in DOMAIN mailbox : mailbox[i] \in Commands OBVIOUS
<1>2. \A i \in DOMAIN mailbox : mailbox[i].conn # 0 => mailbox[i].conn \in Conns
  BY <1>1 DEF Commands
<1> QED BY <1>2 DEF Mail
-----------------------------------------------------------------------------
(* The server closes connections, some or, with the channel, all.           *)

\* Closed connections keep the invariant, also when the channel goes with them.
LEMMA ClosesKeep ==
  ASSUME ConnectionAssumption, ConnectionIInv, call' = call, applied' = applied, generation' = generation,
         conn' \in [Conns -> Connections],
         \A k \in Conns : conn'[k] = conn[k] \/ conn'[k] = Left(k),
         mailbox' = mailbox \/ (mailbox' = <<>> /\ \A k \in Conns : conn'[k] = Left(k))
  PROVE  ConnectionIInv'
<1>1. ConnectionTypeOK /\ OnePlace /\ Mail /\ mailbox \in Seq(Commands) BY DEF ConnectionIInv, ConnectionTypeOK
<1>2. \A k \in Conns :
        /\ conn[k] \in Connections
        /\ Left(k).task = "none" /\ Left(k).up = <<>> /\ Left(k).ask = "none"
        /\ Left(k).reply = None /\ (Left(k).client <=> conn[k].client)
        /\ conn[k].client => Left(k).by = conn[k].by /\ Left(k).down = conn[k].down
        /\ ~conn[k].client => Left(k) = Unused
  BY <1>1, LeftIs DEF ConnectionTypeOK
<1>3. \A c \in Callers : InMail(c)' => InMail(c) BY DEF InMail
<1>4. \A k \in Conns : Carries(k)' => Carries(k) /\ conn'[k].by = conn[k].by
  BY <1>2, SendsNothing DEF Carries, TaskIs
<1>5. \A c \in Callers : /\ Mutator(c)' <=> Mutator(c)
                         /\ AtMutation(c)' <=> AtMutation(c)
                         /\ Tried(c)' <=> Tried(c)
  BY DEF Mutator, AtMutation, Tried, Running
<1>6. Lighter BY <1>3, <1>4, <1>5 DEF Lighter
<1>7. \A k \in Conns : conn[k].client => conn'[k].client /\ conn'[k].by = conn[k].by
  BY <1>2
<1>8. ASSUME NEW c \in Callers PROVE Calling(c)'
  BY <1>1, <1>6, <1>7, StillCalling DEF ConnectionIInv, ConnectionTypeOK
<1>9. ASSUME NEW k \in Conns PROVE Connected(k)'
  <2>1. Connected(k) BY DEF ConnectionIInv
  <2>2. CASE conn'[k] = conn[k] /\ mailbox' = mailbox
    <3>1. Loaded(k)' BY <1>1, <1>6, StillLoaded DEF ConnectionIInv, Connected
    <3> QED BY <1>6, <2>1, <2>2, <3>1, LighterIsFaithful, Elsewhere
  <2>3. CASE conn'[k] = Left(k)
    <3>1. Ends(k)'
      <4>1. CASE conn[k].client
        <5>1. conn[k].by # "none" BY <2>1, <4>1, Names DEF Connected, Ends
        <5> QED BY <1>2, <2>1, <2>3, <4>1, <5>1, Nothing DEF Connected, Ends, TaskIs
      <4>2. CASE ~conn[k].client
        <5>1. conn'[k] = Unused BY <1>2, <2>3, <4>2
        <5> QED BY <5>1, Nothing, Names DEF Ends, TaskIs
      <4> QED BY <4>1, <4>2
    <3>2. SingleUse(k)'
      BY <1>2, <1>5, <2>1, <2>3, Nothing DEF Connected, SingleUse
    <3>3. OnlyMutators(k)' BY <1>2, <2>3, SendsNothing DEF OnlyMutators, Mutations
    <3>4. TellsTruth(k)'
      <4> SUFFICES ASSUME conn'[k].by \in Callers, Mutator(conn[k].by)'
                   PROVE  /\ True(conn[k].by, conn[k].reply)'
                          /\ conn'[k].down # <<>> => True(conn[k].by, Head(conn[k].down))'
        BY DEF TellsTruth
      <4>1. conn'[k].reply = None /\ None.kind = "none" BY <1>2, <2>3, Nothing
      <4>2. True(conn[k].by, conn[k].reply)' BY <4>1 DEF True
      <4>3. ASSUME conn'[k].down # <<>> PROVE True(conn[k].by, Head(conn[k].down))'
        <5>1. conn'[k].by = conn[k].by /\ conn'[k].down = conn[k].down
          BY <1>2, <2>3, <4>3, Nothing
        <5>2. Mutator(conn[k].by) BY <1>5, <5>1
        <5>3. True(conn[k].by, Head(conn[k].down)) BY <2>1, <4>3, <5>1, <5>2 DEF Connected, TellsTruth
        <5> QED BY <1>6, <5>1, <5>3, StillTrue
      <4> QED BY <4>2, <4>3
    <3>5. Loaded(k)' BY <1>1, <1>6, StillLoaded DEF ConnectionIInv, Connected
    <3> QED BY <3>1, <3>2, <3>3, <3>4, <3>5 DEF Connected
  <2> QED BY <2>2, <2>3
<1>10. Mail'
  <2>1. CASE mailbox' = mailbox
    <3>1. \A k \in Conns : /\ conn[k] = Unused => conn'[k] = Unused
                           /\ conn'[k] = Unused \/ conn'[k].by = conn[k].by
      BY <1>2, Nothing
    <3> QED BY <1>1, <2>1, <3>1, StillMail
  <2>2. CASE mailbox' = <<>> BY <2>2 DEF Mail
  <2> QED BY <2>1, <2>2
<1>11. OnePlace' BY <1>1, <1>6, StillLoaded DEF ConnectionIInv, Connected
<1>12. ConnectionTypeOK'
  <2>1. <<>> \in Seq(Commands) OBVIOUS
  <2> QED BY <1>1, <2>1 DEF ConnectionTypeOK
<1> QED BY <1>8, <1>9, <1>10, <1>11, <1>12 DEF ConnectionIInv
-----------------------------------------------------------------------------
(* The server's task goes on, and leaves the channel alone.                 *)

\* A step of one connection keeps the invariant if it does so of that connection.
LEMMA Moving ==
  ASSUME ConnectionAssumption, ConnectionIInv, NEW k \in Conns, NEW task, NEW up, NEW ask, NEW reply,
         NEW down, Moved(k, task, up, ask, reply, down), ~TaskIs(k, "none"),
         call' = call, applied' = applied, generation' = generation, mailbox' = mailbox,
         Carries(k)' => Carries(k),
         Ends(k)', SingleUse(k)', OnlyMutators(k)',
         Lighter => TellsTruth(k)'
  PROVE  ConnectionIInv'
<1>1. ConnectionTypeOK /\ OnePlace /\ Mail /\ mailbox \in Seq(Commands) BY DEF ConnectionIInv, ConnectionTypeOK
<1>2. /\ conn' \in [Conns -> Connections] /\ \A j \in Conns \ {k} : conn'[j] = conn[j]
      /\ (conn'[k].client <=> conn[k].client) /\ conn'[k].by = conn[k].by
  BY DEF Moved
<1>3. Lighter
  <2>1. \A c \in Callers : (Tried(c) => Tried(c)') /\ (InMail(c)' => InMail(c))
    BY DEF Mutator, AtMutation, Tried, Running, InMail
  <2>2. \A j \in Conns \ {k} : Carries(j)' => Carries(j) BY <1>2 DEF Carries, TaskIs
  <2> QED BY <1>2, <2>1, <2>2 DEF Lighter
<1>4. \A j \in Conns : Connected(j) BY DEF ConnectionIInv
<1>5. ASSUME NEW j \in Conns PROVE Connected(j)'
  <2>1. Loaded(j)' BY <1>1, <1>3, <1>4, StillLoaded DEF Connected
  <2>2. CASE j = k BY <1>3, <2>1, <2>2 DEF Connected
  <2>3. CASE j # k BY <1>2, <1>3, <1>4, <2>1, <2>3, LighterIsFaithful, Elsewhere
  <2> QED BY <2>2, <2>3
<1>6. ASSUME NEW c \in Callers PROVE Calling(c)'
  BY <1>1, <1>2, <1>3, StillCalling DEF ConnectionIInv, ConnectionTypeOK
<1>7. Mail'
  <2>1. conn[k] # Unused BY Nothing DEF TaskIs
  <2>2. \A j \in Conns : /\ conn[j] = Unused => conn'[j] = Unused
                         /\ conn'[j] = Unused \/ conn'[j].by = conn[j].by
    BY <1>2, <2>1
  <2> QED BY <1>1, <2>2, StillMail
<1>8. OnePlace' BY <1>1, <1>3, <1>4, StillLoaded DEF Connected
<1>9. ConnectionTypeOK' BY <1>1, <1>2 DEF ConnectionTypeOK
<1> QED BY <1>5, <1>6, <1>7, <1>8, <1>9 DEF ConnectionIInv

\* Accept keeps the invariant.
LEMMA AcceptKeeps ==
  ASSUME ConnectionAssumption, ConnectionIInv, NEW k \in Conns, Accept(k) PROVE ConnectionIInv'
<1>1. /\ TaskIs(k, "backlog") /\ conn[k] \in Connections /\ conn \in [Conns -> Connections]
      /\ call' = call /\ applied' = applied /\ generation' = generation /\ mailbox' = mailbox
  BY DEF Accept, ConnectionIInv, ConnectionTypeOK, serverVars
<1>2. conn' = [conn EXCEPT ![k].task = "reading"] \/ conn' = Closed(k) BY DEF Accept
<1>3. CASE conn' = Closed(k)
  <2>1. Left(k) \in Connections BY <1>1, LeftIs
  <2> QED BY <1>1, <1>3, <2>1, ClosesKeep DEF Closed
<1>4. CASE conn' = [conn EXCEPT ![k].task = "reading"]
  <2>1. Moved(k, "reading", conn[k].up, conn[k].ask, conn[k].reply, conn[k].down)
    BY <1>1, <1>4 DEF Moved, Connections, Tasks
  <2>2. Connected(k) BY DEF ConnectionIInv
  <2>3. Ends(k)' BY <1>1, <2>1, <2>2, Names DEF Moved, Connected, Ends, TaskIs, Unused
  <2>4. SingleUse(k)'
    BY <1>1, <2>1, <2>2 DEF Moved, Connected, SingleUse, Mutator, AtMutation, Running, Now, TaskIs
  <2>5. OnlyMutators(k)' BY <1>1, <2>1, <2>2 DEF Moved, Connected, OnlyMutators, Mutator
  <2>6. ASSUME Lighter PROVE TellsTruth(k)'
    BY <1>1, <2>1, <2>2, <2>6, StillTrue DEF Moved, Connected, TellsTruth, Mutator
  <2>7. Carries(k)' => Carries(k) BY <2>1 DEF Moved, Carries, TaskIs
  <2>8. ~TaskIs(k, "none") BY <1>1 DEF TaskIs
  <2> HIDE DEF Moved
  <2> QED BY <1>1, <2>1, <2>3, <2>4, <2>5, <2>6, <2>7, <2>8, Moving
<1> QED BY <1>2, <1>3, <1>4

\* So does the read of a request.
LEMMA ReadRequestKeeps ==
  ASSUME ConnectionAssumption, ConnectionIInv, NEW k \in Conns, ReadRequest(k) PROVE ConnectionIInv'
<1> DEFINE ask == Head(conn[k].up)
<1> DEFINE up == Tail(conn[k].up)
<1>1. /\ TaskIs(k, "reading") /\ conn[k].up # <<>>
      /\ conn[k] \in Connections /\ conn \in [Conns -> Connections]
      /\ call' = call /\ applied' = applied /\ generation' = generation /\ mailbox' = mailbox
  BY DEF ReadRequest, ConnectionIInv, ConnectionTypeOK, serverVars
<1>2. conn[k].up \in Seq(Asks) BY <1>1 DEF Connections
<1>3. ask \in Asks /\ up \in Seq(Asks) BY <1>1, <1>2, Taking
<1>4. Sends(conn[k].up) <=> ask \in Mutations \/ Sends(up) BY <1>1, <1>2, SendsTaken
<1>5. "none" \notin Asks BY DEF Asks, Mutations
<1>6. Moved(k, "dispatching", up, ask, conn[k].reply, conn[k].down)
  <2> DEFINE next == [conn[k] EXCEPT !.up = Tail(conn[k].up), !.ask = Head(conn[k].up),
                                     !.task = "dispatching"]
  <2>1. conn' = [conn EXCEPT ![k] = next] BY DEF ReadRequest
  <2>2. /\ next \in Connections /\ (next.client <=> conn[k].client) /\ next.by = conn[k].by
        /\ next.task = "dispatching" /\ next.up = up /\ next.ask = ask
        /\ next.reply = conn[k].reply /\ next.down = conn[k].down
    BY <1>1, <1>3 DEF Connections, Tasks
  <2> HIDE DEF next, ask, up
  <2> QED BY <1>1, <2>1, <2>2 DEF Moved
<1> HIDE DEF ask, up
<1>7. Connected(k) BY DEF ConnectionIInv
<1>8. Ends(k)' BY <1>1, <1>3, <1>5, <1>6, <1>7, Names DEF Moved, Connected, Ends, TaskIs, Unused
<1>9. SingleUse(k)'
  BY <1>1, <1>3, <1>6, <1>7
  DEF Moved, Connected, SingleUse, Mutator, AtMutation, Running, Now, TaskIs, ask, up
<1>10. OnlyMutators(k)' BY <1>1, <1>4, <1>6, <1>7 DEF Moved, Connected, OnlyMutators, Mutator
<1>11. ASSUME Lighter PROVE TellsTruth(k)'
  BY <1>1, <1>6, <1>7, <1>11, StillTrue DEF Moved, Connected, TellsTruth, Mutator
<1>12. Carries(k)' => Carries(k) BY <1>4, <1>6 DEF Moved, Carries, TaskIs
<1>13. ~TaskIs(k, "none") BY <1>1 DEF TaskIs
<1> QED BY <1>1, <1>6, <1>8, <1>9, <1>10, <1>11, <1>12, <1>13, Moving

\* What a tool that mutates asks for last.
LEMMA Wanted ==
  ASSUME NEW c, AtMutation(c) PROVE Now(c).ask \in Mutations /\ ~Now(c).best
  BY Scripts DEF AtMutation, Mutator, Now, Mutations

\* A task that has a response to give, and what the response may be.
LEMMA ReplyingKeeps ==
  ASSUME ConnectionAssumption, ConnectionIInv, NEW k \in Conns, NEW response \in Responses,
         conn' = Replying(k, response), response.kind # "none",
         conn[k].task \in {"dispatching", "waiting"},
         call' = call, applied' = applied, generation' = generation, mailbox' = mailbox,
         conn[k].by \in Callers /\ Mutator(conn[k].by) /\ conn[k].client /\ AtMutation(conn[k].by) =>
           response.kind \in {"accepted", "rejected", "scheduler_stopped", "timeout"},
         Lighter => (conn[k].by \in Callers /\ Mutator(conn[k].by) => True(conn[k].by, response)')
  PROVE  ConnectionIInv'
<1>1. /\ conn[k] \in Connections /\ conn \in [Conns -> Connections]
      /\ conn' = [conn EXCEPT ![k] = [conn[k] EXCEPT !.task = "replying", !.reply = response]]
  BY DEF Replying, ConnectionIInv, ConnectionTypeOK
<1>2. Moved(k, "replying", conn[k].up, conn[k].ask, response, conn[k].down)
  <2> DEFINE next == [conn[k] EXCEPT !.task = "replying", !.reply = response]
  <2>1. /\ next \in Connections /\ (next.client <=> conn[k].client) /\ next.by = conn[k].by
        /\ next.task = "replying" /\ next.up = conn[k].up /\ next.ask = conn[k].ask
        /\ next.reply = response /\ next.down = conn[k].down
    BY <1>1 DEF Connections, Tasks
  <2> HIDE DEF next
  <2>2. conn' = [conn EXCEPT ![k] = next] BY <1>1 DEF next
  <2> QED BY <1>1, <2>1, <2>2 DEF Moved
<1>3. Connected(k) BY DEF ConnectionIInv
<1>4. response # None BY Nothing
<1>5. Ends(k)' BY <1>1, <1>2, <1>3, <1>4, Names DEF Moved, Connected, Ends, TaskIs, Unused
<1>6. SingleUse(k)'
  BY <1>1, <1>2, <1>3 DEF Moved, Connected, SingleUse, Mutator, AtMutation, Running, Now, TaskIs
<1>7. OnlyMutators(k)' BY <1>1, <1>2, <1>3 DEF Moved, Connected, OnlyMutators, Mutator
<1>8. ASSUME Lighter PROVE TellsTruth(k)'
  BY <1>1, <1>2, <1>3, <1>8, StillTrue DEF Moved, Connected, TellsTruth, Mutator
<1>9. Carries(k)' => Carries(k) BY <1>2 DEF Moved, Carries, TaskIs
<1>10. ~TaskIs(k, "none") BY DEF TaskIs
<1> QED BY <1>2, <1>5, <1>6, <1>7, <1>8, <1>9, <1>10, Moving

\* The answer to a read is none that a tool that mutates could take for its own.
LEMMA DispatchReadKeeps ==
  ASSUME ConnectionAssumption, ConnectionIInv, NEW k \in Conns, DispatchRead(k) PROVE ConnectionIInv'
<1>1. /\ TaskIs(k, "dispatching") /\ conn[k].ask \notin Mutations /\ conn[k].ask # "stop"
      /\ conn[k] \in Connections /\ Connected(k)
      /\ call' = call /\ applied' = applied /\ generation' = generation /\ mailbox' = mailbox
  BY DEF DispatchRead, ConnectionIInv, ConnectionTypeOK, serverVars
<1>2. conn[k].ask \in {"list", "health", "events", "logs"}
  <2>1. conn[k].ask # "none" BY <1>1 DEF Connected, Ends, TaskIs
  <2> QED BY <1>1, <2>1 DEF Connections, Asks
<1>3. PICK kind \in {"services", "health", "events", "logs", "busy"} :
        conn' = Replying(k, Response(kind))
  BY <1>2 DEF DispatchRead, Kind
<1>4. kind \in Kinds /\ kind # "none" BY DEF Kinds, ErrorKinds
<1>5. Response(kind) \in Responses /\ Response(kind).kind = kind BY <1>4, Responding
<1>6. ~(conn[k].by \in Callers /\ Mutator(conn[k].by) /\ conn[k].client
          /\ AtMutation(conn[k].by))
  BY <1>1, <1>2, Wanted DEF Connected, SingleUse
<1>7. \A c : True(c, Response(kind))' BY <1>5 DEF True
<1> QED BY <1>1, <1>3, <1>4, <1>5, <1>6, <1>7, ReplyingKeeps DEF TaskIs

\* A scheduler that has stopped refuses what is then nowhere.
LEMMA RefusedKeeps ==
  ASSUME ConnectionAssumption, ConnectionIInv, NEW k \in Conns, TaskIs(k, "dispatching"),
         conn[k].ask \in Mutations, conn' = Replying(k, Response("scheduler_stopped")),
         call' = call, applied' = applied, generation' = generation, mailbox' = mailbox
  PROVE  ConnectionIInv'
<1> DEFINE response == Response("scheduler_stopped")
<1>1. response \in Responses /\ response.kind = "scheduler_stopped"
  BY Responding DEF Kinds, ErrorKinds
<1>2. /\ OnePlace /\ Connected(k) /\ Carries(k) BY DEF ConnectionIInv, Carries
<1>3. conn[k].by \in Callers /\ Tried(conn[k].by) BY <1>2 DEF Connected, Loaded
<1>4. ASSUME Lighter PROVE True(conn[k].by, response)'
  <2>0. PICK c \in Callers : c = conn[k].by BY <1>3
  <2>1. applied[c] = <<>> /\ ~InMail(c) BY <1>2, <2>0 DEF Connected, Loaded
  <2>2. conn[k] \in Connections /\ conn \in [Conns -> Connections] BY DEF ConnectionIInv, ConnectionTypeOK
  <2>3. /\ conn'[k].by = c /\ conn'[k].up = conn[k].up /\ conn'[k].task = "replying"
        /\ \A j \in Conns \ {k} : conn'[j] = conn[j]
    BY <2>0, <2>2 DEF Replying, Connections
  <2>4. conn[k].up = <<>>
    BY <1>2, <1>3 DEF Connected, Ends, SingleUse, Tried, TaskIs, Mutations
  <2>5. ~Carries(k)' BY <2>3, <2>4, SendsNothing DEF Carries, TaskIs
  <2>6. \A j \in Conns : conn'[j].by = c => ~Carries(j)'
    BY <1>2, <1>4, <2>0, <2>3, <2>5 DEF Lighter, OnePlace
  <2>7. applied'[c] = <<>> /\ ~InMail(c)' /\ Tried(c)'
    BY <1>3, <1>4, <2>0, <2>1 DEF Lighter
  <2>8. Never(c)' BY <2>6, <2>7 DEF Never
  <2> QED BY <1>1, <2>3, <2>7, <2>8 DEF True
<1> QED BY <1>1, <1>3, <1>4, ReplyingKeeps DEF TaskIs

\* The reply of the scheduler becomes the response.
LEMMA AcknowledgedKeeps ==
  ASSUME ConnectionAssumption, ConnectionIInv, NEW k \in Conns, Acknowledged(k) PROVE ConnectionIInv'
<1>1. /\ TaskIs(k, "waiting") /\ conn[k].reply # None /\ conn' = Replying(k, conn[k].reply)
      /\ conn[k] \in Connections /\ Connected(k)
      /\ call' = call /\ applied' = applied /\ generation' = generation /\ mailbox' = mailbox
  BY DEF Acknowledged, ConnectionIInv, ConnectionTypeOK, serverVars
<1>2. PICK response \in Responses : response = conn[k].reply BY <1>1 DEF Connections
<1>3. response.kind # "none" BY <1>1, <1>2 DEF Connected, Ends
<1>4. conn[k].by \in Callers /\ Mutator(conn[k].by) /\ conn[k].client /\ AtMutation(conn[k].by) =>
        response.kind \in {"accepted", "rejected", "scheduler_stopped", "timeout"}
  BY <1>1, <1>2, <1>3 DEF Connected, SingleUse
<1>5. ASSUME Lighter, conn[k].by \in Callers, Mutator(conn[k].by)
      PROVE  True(conn[k].by, response)'
  <2>1. PICK c \in Callers : c = conn[k].by BY <1>5
  <2>2. True(c, response)
    BY <1>1, <1>2, <1>5, <2>1 DEF Connected, TellsTruth
  <2>3. conn'[k].by = c BY <1>1, <2>1 DEF Replying, ConnectionIInv, ConnectionTypeOK, Connections
  <2> QED BY <1>5, <2>2, <2>3, StillTrue
<1> QED BY <1>1, <1>2, <1>3, <1>4, <1>5, ReplyingKeeps DEF TaskIs

\* A response that says nothing of the mutation is true.
LEMMA DispatchTimesOutKeeps ==
  ASSUME ConnectionAssumption, ConnectionIInv, NEW k \in Conns, DispatchTimesOut(k) PROVE ConnectionIInv'
<1>1. /\ conn[k].task \in {"dispatching", "waiting"}
      /\ conn' = Replying(k, Response("timeout"))
      /\ call' = call /\ applied' = applied /\ generation' = generation /\ mailbox' = mailbox
  BY DEF DispatchTimesOut, serverVars
<1>2. Response("timeout") \in Responses /\ Response("timeout").kind = "timeout"
  BY Responding DEF Kinds, ErrorKinds
<1>3. \A c : True(c, Response("timeout"))' BY <1>2 DEF True
<1> QED BY <1>1, <1>2, <1>3, ReplyingKeeps

\* The response is written and the task reads again.
LEMMA WritingKeeps ==
  ASSUME ConnectionAssumption, ConnectionIInv, NEW k \in Conns, TaskIs(k, "replying"), conn[k].client,
         conn' = [conn EXCEPT ![k] = [@ EXCEPT !.task = "reading", !.ask = "none", !.reply = None,
                                        !.down = Append(conn[k].down, conn[k].reply)]],
         call' = call, applied' = applied, generation' = generation, mailbox' = mailbox
  PROVE  ConnectionIInv'
<1> DEFINE down == Append(conn[k].down, conn[k].reply)
<1>1. conn[k] \in Connections /\ conn \in [Conns -> Connections] /\ Connected(k)
  BY DEF ConnectionIInv, ConnectionTypeOK
<1>2. conn[k].down \in Seq(Responses) /\ conn[k].reply \in Responses BY <1>1 DEF Connections
<1>3. /\ down \in Seq(Responses) /\ down # <<>>
      /\ conn[k].down = <<>> => Head(down) = conn[k].reply
  BY <1>2, Appending
<1>4. Moved(k, "reading", conn[k].up, "none", None, down)
  <2> DEFINE next == [conn[k] EXCEPT !.task = "reading", !.ask = "none", !.reply = None,
                                     !.down = Append(conn[k].down, conn[k].reply)]
  <2>1. conn' = [conn EXCEPT ![k] = next] OBVIOUS
  <2>2. /\ next \in Connections /\ (next.client <=> conn[k].client) /\ next.by = conn[k].by
        /\ next.task = "reading" /\ next.up = conn[k].up /\ next.ask = "none"
        /\ next.reply = None /\ next.down = down
    BY <1>1, <1>3, Nothing DEF Connections, Tasks
  <2> HIDE DEF next, down
  <2> QED BY <1>1, <2>1, <2>2 DEF Moved
<1> HIDE DEF down
<1>5. Ends(k)' BY <1>1, <1>3, <1>4, Nothing, Names DEF Moved, Connected, Ends, TaskIs, Unused
<1>6. conn[k].by \in Callers /\ Mutator(conn[k].by) =>
        conn[k].up = <<>> /\ Head(down) = conn[k].reply
  BY <1>1, <1>3 DEF Connected, Ends, SingleUse, TaskIs
<1>7. SingleUse(k)'
  <2>1. /\ (conn'[k].client <=> conn[k].client) /\ conn'[k].by = conn[k].by
        /\ conn'[k].up = conn[k].up /\ conn'[k].ask = "none" /\ conn'[k].task = "reading"
        /\ conn'[k].reply = None /\ conn'[k].down = down
    BY <1>4 DEF Moved
  <2>2. \A c : /\ Mutator(c)' <=> Mutator(c)
               /\ AtMutation(c)' <=> AtMutation(c) /\ Now(c)' = Now(c)
    BY DEF Mutator, AtMutation, Running, Now
  <2>3. SingleUse(k) /\ Ends(k) BY <1>1 DEF Connected
  <2> QED BY <1>3, <1>6, <2>1, <2>2, <2>3, Nothing DEF SingleUse, Ends, TaskIs
<1>8. OnlyMutators(k)'
  BY <1>1, <1>4 DEF Moved, Connected, OnlyMutators, Mutator, Mutations
<1>9. ASSUME Lighter PROVE TellsTruth(k)'
  <2> SUFFICES ASSUME conn'[k].by \in Callers, Mutator(conn[k].by)'
               PROVE  /\ True(conn[k].by, conn[k].reply)' /\ True(conn[k].by, Head(conn[k].down))'
    BY DEF TellsTruth
  <2>1. True(conn[k].by, conn[k].reply)' BY <1>4, Nothing DEF Moved, True
  <2>2. conn'[k].by = conn[k].by /\ conn'[k].down = down BY <1>4 DEF Moved
  <2>3. Mutator(conn[k].by) BY <2>2 DEF Mutator
  <2>4. True(conn[k].by, conn[k].reply) BY <1>1, <2>2, <2>3 DEF Connected, TellsTruth
  <2>5. Head(conn'[k].down) = conn[k].reply BY <1>6, <2>2, <2>3
  <2> QED BY <1>9, <2>1, <2>2, <2>4, <2>5, StillTrue
<1>10. Carries(k)' => Carries(k) BY <1>4 DEF Moved, Carries, TaskIs
<1>11. ~TaskIs(k, "none") BY DEF TaskIs
<1> QED BY <1>4, <1>5, <1>7, <1>8, <1>9, <1>10, <1>11, Moving

\* The response is written, or the connection closed.
LEMMA WriteResponseKeeps ==
  ASSUME ConnectionAssumption, ConnectionIInv, NEW k \in Conns, WriteResponse(k) PROVE ConnectionIInv'
<1>1. /\ TaskIs(k, "replying") /\ conn[k] \in Connections /\ conn \in [Conns -> Connections]
      /\ call' = call /\ applied' = applied /\ generation' = generation /\ mailbox' = mailbox
  BY DEF WriteResponse, ConnectionIInv, ConnectionTypeOK, serverVars
<1>2. CASE conn' = Closed(k)
  <2>1. Left(k) \in Connections BY <1>1, LeftIs
  <2> QED BY <1>1, <1>2, <2>1, ClosesKeep DEF Closed
<1>3. CASE conn' # Closed(k)
  <2>1. /\ conn[k].client
        /\ conn' = [conn EXCEPT ![k] = [@ EXCEPT !.task = "reading", !.ask = "none",
                             !.reply = None, !.down = Append(conn[k].down, conn[k].reply)]]
    BY <1>3 DEF WriteResponse
  <2> QED BY <1>1, <2>1, WritingKeeps
<1> QED BY <1>2, <1>3

\* Only a tool that does not mutate asks for the end of the session.
LEMMA AcknowledgeShutdownKeeps ==
  ASSUME ConnectionAssumption, ConnectionIInv, NEW k \in Conns, AcknowledgeShutdown(k) PROVE ConnectionIInv'
<1> DEFINE down == IF conn[k].client THEN Append(conn[k].down, Response("shutting_down"))
                   ELSE conn[k].down
<1>1. /\ TaskIs(k, "dispatching") /\ conn[k].ask = "stop"
      /\ conn[k] \in Connections /\ conn \in [Conns -> Connections] /\ Connected(k)
      /\ call' = call /\ applied' = applied /\ generation' = generation /\ mailbox' = mailbox
  BY DEF AcknowledgeShutdown, ConnectionIInv, ConnectionTypeOK, serverVars
<1>2. Response("shutting_down") \in Responses BY Responding DEF Kinds
<1>3. conn[k].down \in Seq(Responses) BY <1>1 DEF Connections
<1>4. down \in Seq(Responses) /\ (~conn[k].client => down = <<>>)
  BY <1>1, <1>2, <1>3, Appending DEF Connected, Ends
<1>5. Moved(k, "cancelling", conn[k].up, conn[k].ask, conn[k].reply, down)
  <2> DEFINE next == [conn[k] EXCEPT !.task = "cancelling", !.down = down]
  <2>1. conn' = [conn EXCEPT ![k] = next] BY DEF AcknowledgeShutdown
  <2>2. /\ next \in Connections /\ (next.client <=> conn[k].client) /\ next.by = conn[k].by
        /\ next.task = "cancelling" /\ next.up = conn[k].up /\ next.ask = conn[k].ask
        /\ next.reply = conn[k].reply /\ next.down = down
    BY <1>1, <1>4 DEF Connections, Tasks
  <2> HIDE DEF next, down
  <2> QED BY <1>1, <2>1, <2>2 DEF Moved
<1> HIDE DEF down
<1>6. ~(conn[k].by \in Callers /\ Mutator(conn[k].by))
  BY <1>1 DEF Connected, SingleUse, Mutations
<1>7. Ends(k)' BY <1>1, <1>4, <1>5, Names DEF Moved, Connected, Ends, TaskIs, Unused
<1>8. SingleUse(k)' /\ TellsTruth(k)'
  BY <1>1, <1>5, <1>6 DEF Moved, SingleUse, TellsTruth, Mutator
<1>9. OnlyMutators(k)' BY <1>1, <1>5 DEF Moved, Connected, OnlyMutators, Mutator
<1>10. Carries(k)' => Carries(k) BY <1>5 DEF Moved, Carries, TaskIs
<1>11. ~TaskIs(k, "none") BY <1>1 DEF TaskIs
<1> QED BY <1>1, <1>5, <1>7, <1>8, <1>9, <1>10, <1>11, Moving

\* A connection that the server closes.
LEMMA ClosedKeeps ==
  ASSUME ConnectionAssumption, ConnectionIInv, NEW k \in Conns, conn' = Closed(k), mailbox' = mailbox,
         call' = call, applied' = applied, generation' = generation
  PROVE  ConnectionIInv'
<1>1. conn \in [Conns -> Connections] /\ conn[k] \in Connections BY DEF ConnectionIInv, ConnectionTypeOK
<1>2. Left(k) \in Connections BY <1>1, LeftIs
<1> QED BY <1>1, <1>2, ClosesKeep DEF Closed

\* Every step of a connection but the one that fills the channel keeps the invariant.
LEMMA ConnectionStepKeeps ==
  ASSUME ConnectionAssumption, ConnectionIInv, NEW k \in Conns, ConnectionStep(k), ~DispatchCommand(k)
  PROVE  ConnectionIInv'
<1>1. CASE Accept(k) BY <1>1, AcceptKeeps
<1>2. CASE ReadRequest(k) BY <1>2, ReadRequestKeeps
<1>3. CASE IdleOrGone(k) BY <1>3, ClosedKeeps DEF IdleOrGone, serverVars
<1>4. CASE DispatchRead(k) BY <1>4, DispatchReadKeeps
<1>5. CASE Acknowledged(k) BY <1>5, AcknowledgedKeeps
<1>6. CASE DispatchTimesOut(k) BY <1>6, DispatchTimesOutKeeps
<1>7. CASE WriteResponse(k) BY <1>7, WriteResponseKeeps
<1>8. CASE AcknowledgeShutdown(k) BY <1>8, AcknowledgeShutdownKeeps
<1>9. CASE CancelSession(k) BY <1>9, ClosedKeeps DEF CancelSession
<1>10. CASE SeesShutdown(k) BY <1>10, ClosedKeeps DEF SeesShutdown, serverVars
<1> QED
  BY <1>1, <1>2, <1>3, <1>4, <1>5, <1>6, <1>7, <1>8, <1>9, <1>10 DEF ConnectionStep

\* The listener closes what it has not accepted.
LEMMA StopListeningKeeps ==
  ASSUME ConnectionAssumption, ConnectionIInv, StopListening PROVE ConnectionIInv'
<1>1. \A k \in Conns : conn[k] \in Connections BY DEF ConnectionIInv, ConnectionTypeOK
<1>2. \A k \in Conns : Left(k) \in Connections BY <1>1, LeftIs
<1>3. conn' = [k \in Conns |-> IF TaskIs(k, "backlog") THEN Left(k) ELSE conn[k]]
  BY DEF StopListening
<1>4. conn' \in [Conns -> Connections] BY <1>1, <1>2, <1>3
<1>5. \A k \in Conns : conn'[k] = conn[k] \/ conn'[k] = Left(k) BY <1>3
<1> QED BY <1>4, <1>5, ClosesKeep DEF StopListening

\* A process that dies closes everything.
LEMMA DiesKeeps ==
  ASSUME ConnectionAssumption, ConnectionIInv, Dies PROVE ConnectionIInv'
<1>1. \A k \in Conns : conn[k] \in Connections BY DEF ConnectionIInv, ConnectionTypeOK
<1>2. \A k \in Conns : Left(k) \in Connections BY <1>1, LeftIs
<1>3. conn' = [k \in Conns |-> Left(k)] BY DEF Dies
<1>4. conn' \in [Conns -> Connections] /\ \A k \in Conns : conn'[k] = Left(k) BY <1>2, <1>3
<1> QED BY <1>4, ClosesKeep DEF Dies

-----------------------------------------------------------------------------
(* The channel.                                                             *)

Commanded(k) == \E i \in DOMAIN mailbox : mailbox[i].conn = k

\* What a command that is sent does to the channel.
LEMMA Sending ==
  ASSUME mailbox \in Seq(Commands), NEW m \in Commands, mailbox' = Append(mailbox, m)
  PROVE  /\ mailbox' \in Seq(Commands)
         /\ \A c : InMail(c)' <=> InMail(c) \/ c = m.by
         /\ \A k : Commanded(k)' <=> Commanded(k) \/ k = m.conn
         /\ \A i \in DOMAIN mailbox' :
              mailbox'[i] = m \/ (i \in DOMAIN mailbox /\ mailbox'[i] = mailbox[i])
         /\ \A i, j \in DOMAIN mailbox' : mailbox'[i].by = mailbox'[j].by =>
              \/ i = j
              \/ i \in DOMAIN mailbox /\ j \in DOMAIN mailbox
                   /\ mailbox'[i] = mailbox[i] /\ mailbox'[j] = mailbox[j]
              \/ InMail(m.by) /\ mailbox'[i].by = m.by
<1> DEFINE n == Len(mailbox)
<1>1. /\ n \in Nat /\ DOMAIN mailbox = 1 .. n /\ DOMAIN mailbox' = 1 .. n + 1
      /\ \A i \in 1 .. n : mailbox'[i] = mailbox[i]
      /\ mailbox'[n + 1] = m /\ mailbox' \in Seq(Commands)
  OBVIOUS
<1> HIDE DEF n
<1>2. \A i \in 1 .. n + 1 : i \in 1 .. n \/ i = n + 1 BY <1>1
<1>3. n + 1 \in 1 .. n + 1 /\ \A i \in 1 .. n : i \in 1 .. n + 1 BY <1>1
<1>4. \A c : InMail(c)' <=> InMail(c) \/ c = m.by BY <1>1, <1>2, <1>3 DEF InMail
<1>5. \A k : Commanded(k)' <=> Commanded(k) \/ k = m.conn
  BY <1>1, <1>2, <1>3 DEF Commanded
<1>6. ASSUME NEW i \in DOMAIN mailbox', NEW j \in DOMAIN mailbox',
             mailbox'[i].by = mailbox'[j].by, i # j
      PROVE  \/ i \in DOMAIN mailbox /\ j \in DOMAIN mailbox
                   /\ mailbox'[i] = mailbox[i] /\ mailbox'[j] = mailbox[j]
             \/ InMail(m.by) /\ mailbox'[i].by = m.by
  BY <1>1, <1>2, <1>6 DEF InMail
<1> QED BY <1>1, <1>2, <1>4, <1>5, <1>6

\* What a command that is taken does to the channel.
LEMMA Receiving ==
  ASSUME mailbox \in Seq(Commands), mailbox # <<>>, mailbox' = Tail(mailbox), Mail
  PROVE  /\ mailbox' \in Seq(Commands) /\ Head(mailbox) \in Commands
         /\ InMail(Head(mailbox).by) /\ Commanded(Head(mailbox).conn)
         /\ \A c \in Callers : InMail(c)' => InMail(c) /\ (c # "operator" => c # Head(mailbox).by)
         /\ \A k : Commanded(k) => Commanded(k)' \/ k = Head(mailbox).conn
         /\ \A i \in DOMAIN mailbox' : i + 1 \in DOMAIN mailbox /\ mailbox'[i] = mailbox[i + 1]
         /\ \E i \in DOMAIN mailbox : Head(mailbox) = mailbox[i]
<1> DEFINE n == Len(mailbox)
<1>1. /\ n \in Nat \ {0} /\ DOMAIN mailbox = 1 .. n /\ DOMAIN mailbox' = 1 .. n - 1
      /\ \A i \in 1 .. n - 1 : mailbox'[i] = mailbox[i + 1]
      /\ Head(mailbox) = mailbox[1] /\ mailbox' \in Seq(Commands)
      /\ Head(mailbox) \in Commands
  OBVIOUS
<1> HIDE DEF n
<1>2. \A i \in 1 .. n : i = 1 \/ (i - 1 \in 1 .. n - 1 /\ (i - 1) + 1 = i) BY <1>1
<1>3. 1 \in 1 .. n /\ \A i \in 1 .. n - 1 : i + 1 \in 1 .. n /\ i + 1 # 1 BY <1>1
<1>4. InMail(Head(mailbox).by) /\ Commanded(Head(mailbox).conn)
  BY <1>1, <1>3 DEF InMail, Commanded
<1>5. \A c : InMail(c)' => InMail(c) /\ (c # "operator" => c # Head(mailbox).by)
  BY <1>1, <1>3 DEF InMail, Mail
<1>6. \A k : Commanded(k) => Commanded(k)' \/ k = Head(mailbox).conn
  <2> SUFFICES ASSUME NEW k, NEW i \in 1 .. n, mailbox[i].conn = k, k # Head(mailbox).conn
               PROVE  Commanded(k)'
    BY <1>1 DEF Commanded
  <2>1. i - 1 \in 1 .. n - 1 /\ (i - 1) + 1 = i BY <1>1, <1>2
  <2>2. mailbox'[i - 1] = mailbox[i] BY <1>1, <2>1
  <2> QED BY <1>1, <2>1, <2>2 DEF Commanded
<1> QED BY <1>1, <1>3, <1>4, <1>5, <1>6

\* A mutation that gets to the channel has left its connection.
LEMMA SentKeeps ==
  ASSUME ConnectionAssumption, ConnectionIInv, NEW k \in Conns, TaskIs(k, "dispatching"),
         conn[k].ask \in Mutations, conn' = [conn EXCEPT ![k].task = "waiting"],
         mailbox' = Append(mailbox, [by |-> conn[k].by, conn |-> k]),
         call' = call, applied' = applied, generation' = generation
  PROVE  ConnectionIInv'
<1>1. /\ ConnectionTypeOK /\ OnePlace /\ Mail /\ \A j \in Conns : Connected(j)
      /\ mailbox \in Seq(Commands) /\ conn \in [Conns -> Connections]
      /\ conn[k] \in Connections /\ call \in [Callers -> Calls]
  BY DEF ConnectionIInv, ConnectionTypeOK
<1>2. Carries(k) BY DEF Carries
<1>3. PICK c \in Callers : c = conn[k].by BY <1>1, <1>2 DEF Connected, Loaded
<1>4. Tried(c) /\ Mutator(c) /\ ~InMail(c) /\ applied[c] = <<>> /\ ~Never(c)
  BY <1>1, <1>2, <1>3 DEF Connected, Loaded, Tried, Never
<1> DEFINE m == [by |-> c, conn |-> k]
<1>5. m \in Commands /\ m.by = c /\ m.conn = k BY DEF Commands
<1>6. mailbox' = Append(mailbox, m) BY <1>3
<1> HIDE DEF m
<1>7. /\ mailbox' \in Seq(Commands)
      /\ \A d : InMail(d)' <=> InMail(d) \/ d = c
      /\ \A j : Commanded(j)' <=> Commanded(j) \/ j = k
      /\ \A i \in DOMAIN mailbox' :
              mailbox'[i] = m \/ (i \in DOMAIN mailbox /\ mailbox'[i] = mailbox[i])
      /\ \A i, j \in DOMAIN mailbox' : mailbox'[i].by = mailbox'[j].by =>
           \/ i = j
           \/ i \in DOMAIN mailbox /\ j \in DOMAIN mailbox
                   /\ mailbox'[i] = mailbox[i] /\ mailbox'[j] = mailbox[j]
  BY <1>1, <1>4, <1>5, <1>6, Sending
<1>8. Moved(k, "waiting", conn[k].up, conn[k].ask, conn[k].reply, conn[k].down)
  BY <1>1 DEF Moved, Connections, Tasks
<1>9. conn[k].up = <<>>
  BY <1>1, <1>3, <1>4 DEF Connected, Ends, SingleUse, TaskIs, Mutations
<1>10. ~Carries(k)' BY <1>8, <1>9, SendsNothing DEF Moved, Carries, TaskIs
<1>11. \A j \in Conns : Carries(j)' => j # k /\ Carries(j) /\ conn'[j].by = conn[j].by
  BY <1>8, <1>10 DEF Moved, Carries, TaskIs
<1>12. \A d \in Callers : /\ Mutator(d)' <=> Mutator(d)
                          /\ AtMutation(d)' <=> AtMutation(d)
                          /\ Tried(d)' <=> Tried(d)
  BY DEF Mutator, AtMutation, Tried, Running
<1>13. Faithful
  <2>1. \A d \in Callers : Never(d) => d # c BY <1>4
  <2>2. \A d \in Callers : Never(d) => Never(d)' BY <1>7, <1>11, <2>1 DEF Never
  <2> QED BY <1>12, <2>2 DEF Faithful
<1>14. ASSUME NEW j \in Conns PROVE Loaded(j)'
  <2> SUFFICES ASSUME Carries(j)' PROVE Loaded(j)' BY DEF Loaded
  <2>1. Carries(j) /\ j # k /\ conn'[j] = conn[j] BY <1>8, <1>11 DEF Moved
  <2>2. conn[j].by # c BY <1>1, <1>2, <1>3, <2>1 DEF OnePlace
  <2>3. PICK d \in Callers : d = conn[j].by BY <1>1, <2>1 DEF Connected, Loaded
  <2>4. Tried(d)' /\ ~InMail(d)' /\ applied'[d] = <<>>
    BY <1>1, <1>7, <1>12, <2>1, <2>2, <2>3 DEF Connected, Loaded
  <2> QED BY <2>1, <2>3, <2>4 DEF Loaded
<1>15. ASSUME NEW j \in Conns PROVE Connected(j)'
  <2>1. CASE j # k
    <3>1. conn'[j] = conn[j] BY <1>8, <2>1 DEF Moved
    <3>2. Commanded(j) => Commanded(j)' BY <1>7
    <3> QED BY <1>1, <1>13, <1>14, <3>1, <3>2, Elsewhere DEF Commanded
  <2>2. CASE j = k
    <3>1. Connected(k) BY <1>1
    <3>2. Commanded(k)' BY <1>7
    <3>3. Ends(k)' BY <3>1, <3>2, <1>8, Names DEF Moved, Connected, Ends, TaskIs, Commanded, Unused
    <3>4. SingleUse(k)'
      BY <1>8, <1>9, <3>1 DEF Moved, Connected, SingleUse, Mutator, AtMutation, Running, Now
    <3>5. OnlyMutators(k)' BY <1>8, <3>1 DEF Moved, Connected, OnlyMutators, Mutator
    <3>6. TellsTruth(k)' BY <1>8, <1>12, <1>13, <3>1, KeptTrue DEF Moved, Connected, TellsTruth
    <3> QED BY <1>14, <2>2, <3>3, <3>4, <3>5, <3>6 DEF Connected
  <2> QED BY <2>1, <2>2
<1>16. ASSUME NEW d \in Callers PROVE Calling(d)'
  <2>1. Calling(d) BY DEF ConnectionIInv
  <2>2. InMail(d)' => Tried(d) /\ applied'[d] = <<>> BY <1>4, <1>7, <2>1 DEF Calling
  <2>3. applied'[d] # <<>> => Tried(d) /\ Len(applied'[d]) = 1 BY <2>1 DEF Calling
  <2>4. \A j \in Conns : conn[j].client => conn'[j].client /\ conn'[j].by = conn[j].by
    BY <1>8 DEF Moved
  <2> QED BY <1>1, <1>13, <2>1, <2>2, <2>3, <2>4, CallingOn
<1>17. Mail'
  <2>1. \A i \in DOMAIN mailbox : mailbox[i] \in Commands BY <1>1
  <2>2. \A i \in DOMAIN mailbox : mailbox[i].conn # 0 => mailbox[i].conn \in Conns
    BY <2>1 DEF Commands
  <2>3. conn[k] # Unused BY Nothing DEF TaskIs
  <2>4. \A j \in Conns : /\ conn[j] = Unused => conn'[j] = Unused
                         /\ conn'[j].by = conn[j].by
    BY <1>8, <2>3 DEF Moved
  <2>5. \A i, j \in DOMAIN mailbox' :
          mailbox'[i].by = mailbox'[j].by => i = j \/ mailbox'[i].by = "operator"
    BY <1>1, <1>7 DEF Mail
  <2>6. ASSUME NEW i \in DOMAIN mailbox'
        PROVE  /\ mailbox'[i].conn = 0 <=> mailbox'[i].by = "operator"
               /\ mailbox'[i].conn # 0 =>
                    \/ conn'[mailbox'[i].conn] = Unused
                    \/ conn'[mailbox'[i].conn].by = mailbox'[i].by
    <3>1. CASE mailbox'[i] = m BY <1>3, <1>5, <2>4, <3>1, Names
    <3>2. CASE i \in DOMAIN mailbox /\ mailbox'[i] = mailbox[i]
      BY <1>1, <2>2, <2>4, <3>2 DEF Mail
    <3> QED BY <1>7, <3>1, <3>2
  <2> QED BY <2>5, <2>6 DEF Mail
<1>18. OnePlace' BY <1>1, <1>11 DEF OnePlace
<1>19. ConnectionTypeOK' BY <1>1, <1>7, <1>8 DEF ConnectionTypeOK, Moved
<1> QED BY <1>15, <1>16, <1>17, <1>18, <1>19 DEF ConnectionIInv

\* Of connection k, what the channel's steps leave as it is, or answer.
Untouched(k) ==
  /\ conn'[k] = conn[k]
  /\ TaskIs(k, "waiting") /\ conn[k].reply = None /\ Commanded(k) => Commanded(k)'

AnsweredWith(k, response) ==
  /\ TaskIs(k, "waiting") /\ conn'[k] = [conn[k] EXCEPT !.reply = response]
  /\ response.kind \in {"accepted", "rejected", "scheduler_stopped"}
  /\ conn[k].by \in Callers => True(conn[k].by, response)'

\* A step of the channel keeps the invariant if it answers waiting tasks with the truth.
LEMMA Answering ==
  ASSUME ConnectionAssumption, ConnectionIInv, Faithful, call' = call, ConnectionTypeOK', Mail',
         \A k \in Conns : Untouched(k) \/ \E response \in Responses : AnsweredWith(k, response),
         \A c \in Callers : InMail(c)' => Tried(c) /\ applied'[c] = <<>>,
         \A c \in Callers : applied'[c] # <<>> => Tried(c) /\ Len(applied'[c]) = 1,
         \A k \in Conns : Loaded(k)'
  PROVE  ConnectionIInv'
<1>1. /\ \A k \in Conns : Connected(k) /\ conn[k] \in Connections
      /\ call \in [Callers -> Calls] /\ OnePlace
  BY DEF ConnectionIInv, ConnectionTypeOK
<1>2. ASSUME NEW k \in Conns, NEW response \in Responses, AnsweredWith(k, response)
      PROVE  /\ (conn'[k].client <=> conn[k].client) /\ conn'[k].by = conn[k].by
             /\ conn'[k].task = "waiting" /\ conn'[k].up = conn[k].up
             /\ conn'[k].ask = conn[k].ask /\ conn'[k].down = conn[k].down
             /\ conn'[k].reply = response
  <2>1. conn'[k] = [conn[k] EXCEPT !.reply = response] /\ conn[k].task = "waiting"
    BY <1>2 DEF AnsweredWith, TaskIs
  <2> QED BY <1>1, <2>1 DEF Connections
<1>3. \A k \in Conns : /\ conn'[k].by = conn[k].by /\ (conn'[k].client <=> conn[k].client)
                       /\ Carries(k)' <=> Carries(k)
  <2> SUFFICES ASSUME NEW k \in Conns
               PROVE  /\ conn'[k].by = conn[k].by /\ (conn'[k].client <=> conn[k].client)
                      /\ Carries(k)' <=> Carries(k)
    OBVIOUS
  <2>1. CASE Untouched(k) BY <2>1 DEF Untouched, Carries, TaskIs
  <2>2. CASE \E response \in Responses : AnsweredWith(k, response)
    <3>1. PICK response \in Responses : AnsweredWith(k, response) BY <2>2
    <3>2. conn[k].task = "waiting" BY <3>1 DEF AnsweredWith, TaskIs
    <3> QED BY <1>2, <3>1, <3>2 DEF Carries, TaskIs
  <2> QED BY <2>1, <2>2
<1>4. \A c \in Callers : /\ Mutator(c)' <=> Mutator(c)
                         /\ AtMutation(c)' <=> AtMutation(c)
  BY DEF Mutator, AtMutation, Running
<1>5. ASSUME NEW k \in Conns PROVE Connected(k)'
  <2>1. CASE Untouched(k)
    BY <1>1, <2>1, Elsewhere DEF Untouched, Commanded
  <2>2. CASE \E response \in Responses : AnsweredWith(k, response)
    <3>1. PICK response \in Responses : AnsweredWith(k, response) BY <2>2
    <3>2. /\ conn[k].task = "waiting"
          /\ response.kind \in {"accepted", "rejected", "scheduler_stopped"}
          /\ conn[k].by \in Callers => True(conn[k].by, response)'
      BY <3>1 DEF AnsweredWith, TaskIs
    <3>3. response # None BY <3>2, Nothing
    <3>4. /\ (conn'[k].client <=> conn[k].client) /\ conn'[k].by = conn[k].by
          /\ conn'[k].task = "waiting" /\ conn'[k].up = conn[k].up
          /\ conn'[k].ask = conn[k].ask /\ conn'[k].down = conn[k].down
          /\ conn'[k].reply = response
      BY <1>2, <3>1
    <3>5. Connected(k) BY <1>1
    <3>6. Ends(k)' BY <3>2, <3>3, <3>4, <3>5, Nothing DEF Connected, Ends, TaskIs
    <3>7. SingleUse(k)' BY <1>4, <3>2, <3>4, <3>5 DEF Connected, SingleUse, Now
    <3>8. OnlyMutators(k)' BY <1>4, <3>4, <3>5 DEF Connected, OnlyMutators
    <3>9. TellsTruth(k)' BY <1>4, <3>2, <3>4, <3>5, KeptTrue DEF Connected, TellsTruth
    <3> QED BY <3>6, <3>7, <3>8, <3>9 DEF Connected
  <2> QED BY <2>1, <2>2
<1>6. ASSUME NEW c \in Callers PROVE Calling(c)'
  BY <1>1, <1>3, CallingOn DEF ConnectionIInv
<1>7. OnePlace' BY <1>1, <1>3 DEF OnePlace
<1> QED BY <1>5, <1>6, <1>7 DEF ConnectionIInv

\* The start of the run changes none of it.
LEMMA StartRunKeeps ==
  ASSUME ConnectionAssumption, ConnectionIInv, StartRun PROVE ConnectionIInv'
<1>1. /\ call' = call /\ conn' = conn /\ mailbox' = mailbox /\ applied' = applied
      /\ generation' = generation + 1
  BY DEF StartRun
<1>2. \A c \in Callers : /\ Tried(c)' <=> Tried(c)
                         /\ Never(c)' <=> Never(c)
  BY <1>1 DEF Tried, Mutator, AtMutation, Running, Never, InMail, Carries, TaskIs
<1>3. Faithful BY <1>1, <1>2 DEF Faithful
<1>4. ConnectionTypeOK' BY <1>1 DEF ConnectionIInv, ConnectionTypeOK
<1>5. Mail' BY <1>1 DEF ConnectionIInv, Mail
<1>6. \A k \in Conns : Untouched(k) BY <1>1 DEF Untouched, Commanded
<1>7. \A c \in Callers : InMail(c)' => Tried(c) /\ applied'[c] = <<>>
  BY <1>1 DEF ConnectionIInv, Calling, InMail
<1>8. \A c \in Callers : applied'[c] # <<>> => Tried(c) /\ Len(applied'[c]) = 1
  BY <1>1 DEF ConnectionIInv, Calling
<1>9. \A k \in Conns : Loaded(k)'
  BY <1>1, <1>2 DEF ConnectionIInv, Connected, Loaded, Carries, TaskIs, InMail
<1> QED BY <1>1, <1>3, <1>4, <1>5, <1>6, <1>7, <1>8, <1>9, Answering

\* A command of the operator is nobody's mutation.
LEMMA OperatorRestartsKeeps ==
  ASSUME ConnectionAssumption, ConnectionIInv, OperatorRestarts PROVE ConnectionIInv'
<1> DEFINE m == [by |-> "operator", conn |-> 0]
<1>1. /\ call' = call /\ conn' = conn /\ applied' = applied /\ generation' = generation
      /\ mailbox' = Append(mailbox, m) /\ mailbox \in Seq(Commands) /\ Mail
  BY DEF OperatorRestarts, serverVars, ConnectionIInv, ConnectionTypeOK
<1>2. m \in Commands /\ m.by = "operator" /\ m.conn = 0 BY DEF Commands
<1> HIDE DEF m
<1>3. /\ mailbox' \in Seq(Commands)
      /\ \A c : InMail(c)' <=> InMail(c) \/ c = "operator"
      /\ \A k : Commanded(k)' <=> Commanded(k) \/ k = 0
      /\ \A i \in DOMAIN mailbox' :
           mailbox'[i] = m \/ (i \in DOMAIN mailbox /\ mailbox'[i] = mailbox[i])
      /\ \A i, j \in DOMAIN mailbox' : mailbox'[i].by = mailbox'[j].by =>
           \/ i = j
           \/ i \in DOMAIN mailbox /\ j \in DOMAIN mailbox
                /\ mailbox'[i] = mailbox[i] /\ mailbox'[j] = mailbox[j]
           \/ mailbox'[i].by = "operator"
  BY <1>1, <1>2, Sending
<1>4. \A c \in Callers : InMail(c)' <=> InMail(c) BY <1>3, Names
<1>5. \A c \in Callers : /\ Tried(c)' <=> Tried(c)
                         /\ Never(c)' <=> Never(c)
  BY <1>1, <1>4 DEF Tried, Mutator, AtMutation, Running, Never, Carries, TaskIs
<1>6. Faithful BY <1>1, <1>5 DEF Faithful
<1>7. ConnectionTypeOK' BY <1>1, <1>3 DEF ConnectionIInv, ConnectionTypeOK
<1>8. Mail'
  <2>1. \A i, j \in DOMAIN mailbox' :
          mailbox'[i].by = mailbox'[j].by => i = j \/ mailbox'[i].by = "operator"
    BY <1>1, <1>3 DEF Mail
  <2>2. ASSUME NEW i \in DOMAIN mailbox'
        PROVE  /\ mailbox'[i].conn = 0 <=> mailbox'[i].by = "operator"
               /\ mailbox'[i].conn # 0 =>
                    \/ conn'[mailbox'[i].conn] = Unused
                    \/ conn'[mailbox'[i].conn].by = mailbox'[i].by
    BY <1>1, <1>2, <1>3 DEF Mail
  <2> QED BY <2>1, <2>2 DEF Mail
<1>9. \A k \in Conns : Untouched(k) BY <1>1, <1>3 DEF Untouched
<1>10. \A c \in Callers : InMail(c)' => Tried(c) /\ applied'[c] = <<>>
  BY <1>1, <1>4 DEF ConnectionIInv, Calling
<1>11. \A c \in Callers : applied'[c] # <<>> => Tried(c) /\ Len(applied'[c]) = 1
  BY <1>1 DEF ConnectionIInv, Calling
<1>12. \A k \in Conns : Loaded(k)'
  BY <1>1, <1>4, <1>5 DEF ConnectionIInv, Connected, Loaded, Carries, TaskIs
<1> QED BY <1>1, <1>6, <1>7, <1>8, <1>9, <1>10, <1>11, <1>12, Answering

\* The tool whose command is in the channel, and what is known of it.
LEMMA Awaiting ==
  ASSUME ConnectionAssumption, ConnectionIInv, NEW i \in DOMAIN mailbox, mailbox[i].conn # 0
  PROVE  /\ mailbox[i].conn \in Conns /\ mailbox[i].by \in Callers
         /\ InMail(mailbox[i].by) /\ Tried(mailbox[i].by) /\ applied[mailbox[i].by] = <<>>
         /\ TaskIs(mailbox[i].conn, "waiting") => conn[mailbox[i].conn].by = mailbox[i].by
         /\ \A k \in Conns : conn[k].by = mailbox[i].by => ~Carries(k)
<1>1. mailbox \in Seq(Commands) /\ Mail BY DEF ConnectionIInv, ConnectionTypeOK
<1>2. mailbox[i] \in Commands BY <1>1
<1>3. mailbox[i].by # "operator" BY <1>1 DEF Mail
<1>4. mailbox[i].conn \in Conns /\ mailbox[i].by \in Callers BY <1>2, <1>3 DEF Commands
<1>5. InMail(mailbox[i].by) BY DEF InMail
<1>6. Tried(mailbox[i].by) /\ applied[mailbox[i].by] = <<>> BY <1>4, <1>5 DEF ConnectionIInv, Calling
<1>7. TaskIs(mailbox[i].conn, "waiting") => conn[mailbox[i].conn].by = mailbox[i].by
  BY <1>1, Nothing DEF Mail, TaskIs
<1>8. \A k \in Conns : conn[k].by = mailbox[i].by => ~Carries(k)
  BY <1>5 DEF ConnectionIInv, Connected, Loaded
<1> QED BY <1>4, <1>5, <1>6, <1>7, <1>8

\* What the channel held when the scheduler stops will never be applied.
LEMMA SchedulerStopsKeeps ==
  ASSUME ConnectionAssumption, ConnectionIInv, SchedulerStops PROVE ConnectionIInv'
<1> DEFINE stopped == Response("scheduler_stopped")
<1>1. stopped \in Responses /\ stopped.kind = "scheduler_stopped"
  BY Responding DEF Kinds, ErrorKinds
<1>2. /\ call' = call /\ mailbox' = <<>> /\ applied' = applied /\ generation' = generation
      /\ conn' = [k \in Conns |-> IF TaskIs(k, "waiting") /\ conn[k].reply = None
                                    THEN [conn[k] EXCEPT !.reply = stopped] ELSE conn[k]]
      /\ \A k \in Conns : conn[k] \in Connections /\ Connected(k)
  BY DEF SchedulerStops, ConnectionIInv, ConnectionTypeOK
<1> HIDE DEF stopped
<1>3. ASSUME NEW k \in Conns
      PROVE  /\ conn'[k] \in Connections
             /\ conn'[k].by = conn[k].by /\ conn'[k].up = conn[k].up
             /\ conn'[k].task = conn[k].task /\ conn'[k].ask = conn[k].ask
             /\ IF TaskIs(k, "waiting") /\ conn[k].reply = None
                  THEN conn'[k] = [conn[k] EXCEPT !.reply = stopped] ELSE conn'[k] = conn[k]
  <2>1. CASE TaskIs(k, "waiting") /\ conn[k].reply = None
    <3>1. conn'[k] = [conn[k] EXCEPT !.reply = stopped] BY <1>2, <2>1
    <3> QED BY <1>1, <1>2, <2>1, <3>1 DEF Connections
  <2>2. CASE ~(TaskIs(k, "waiting") /\ conn[k].reply = None) BY <1>2, <2>2
  <2> QED BY <2>1, <2>2
<1>4. conn' \in [Conns -> Connections] BY <1>2, <1>3
<1>5. \A k \in Conns : Carries(k)' <=> Carries(k) BY <1>3 DEF Carries, TaskIs
<1>6. \A c \in Callers : ~InMail(c)' BY <1>2 DEF InMail
<1>7. \A c \in Callers : Tried(c)' <=> Tried(c)
  BY <1>2 DEF Tried, Mutator, AtMutation, Running
<1>8. Lighter BY <1>2, <1>3, <1>5, <1>6, <1>7 DEF Lighter
<1>9. Faithful BY <1>8, LighterIsFaithful
<1>10. ASSUME NEW k \in Conns
       PROVE  Untouched(k) \/ \E response \in Responses : AnsweredWith(k, response)
  <2>1. CASE TaskIs(k, "waiting") /\ conn[k].reply = None
    <3>1. PICK i \in DOMAIN mailbox : mailbox[i].conn = k
      BY <1>2, <2>1 DEF Connected, Ends
    <3>2. PICK c \in Callers : c = mailbox[i].by BY <3>1, Awaiting, Names
    <3>3. /\ conn[k].by = c /\ Tried(c) /\ applied[c] = <<>>
          /\ \A j \in Conns : conn[j].by = c => ~Carries(j)
      BY <2>1, <3>1, <3>2, Awaiting, Names
    <3>4. Never(c)' BY <1>2, <1>3, <1>5, <1>6, <3>3 DEF Never
    <3>5. True(c, stopped)' BY <1>1, <1>7, <3>3, <3>4 DEF True, stopped, Response
    <3>6. conn'[k].by = c BY <1>3, <3>3
    <3>7. conn[k].by \in Callers => True(conn[k].by, stopped)' BY <3>5, <3>6
    <3>8. AnsweredWith(k, stopped) BY <1>1, <1>3, <2>1, <3>7 DEF AnsweredWith
    <3> QED BY <1>1, <3>8
  <2>2. CASE ~(TaskIs(k, "waiting") /\ conn[k].reply = None)
    BY <1>3, <2>2 DEF Untouched
  <2> QED BY <2>1, <2>2
<1>11. Mail' BY <1>2 DEF Mail
<1>12. ConnectionTypeOK'
  <2>1. <<>> \in Seq(Commands) OBVIOUS
  <2> QED BY <1>2, <1>4, <2>1 DEF ConnectionIInv, ConnectionTypeOK
<1>13. \A k \in Conns : Loaded(k)' BY <1>2, <1>8, StillLoaded DEF ConnectionIInv, Connected
<1>14. \A c \in Callers : applied'[c] # <<>> => Tried(c) /\ Len(applied'[c]) = 1
  BY <1>2 DEF ConnectionIInv, Calling
<1> QED BY <1>2, <1>6, <1>9, <1>10, <1>11, <1>12, <1>13, <1>14, Answering

\* A command is taken: of the operator, or of a tool that is told what became of it.
LEMMA HandleCommandKeeps ==
  ASSUME ConnectionAssumption, ConnectionIInv, HandleCommand PROVE ConnectionIInv'
<1>1. /\ call' = call /\ generation' = generation /\ mailbox' = Tail(mailbox)
      /\ mailbox # <<>> /\ mailbox \in Seq(Commands) /\ Mail /\ ConnectionTypeOK
      /\ \A k \in Conns : conn[k] \in Connections /\ Connected(k)
  BY DEF HandleCommand, ConnectionIInv, ConnectionTypeOK
<1> DEFINE m == Head(mailbox)
<1>2. /\ mailbox' \in Seq(Commands) /\ m \in Commands
      /\ \A c \in Callers : InMail(c)' => InMail(c) /\ (c # "operator" => c # m.by)
      /\ \A k : Commanded(k) => Commanded(k)' \/ k = m.conn
      /\ \A i \in DOMAIN mailbox' : i + 1 \in DOMAIN mailbox /\ mailbox'[i] = mailbox[i + 1]
      /\ \E i \in DOMAIN mailbox : m = mailbox[i]
  BY <1>1, Receiving
<1>3. PICK n \in DOMAIN mailbox : m = mailbox[n] BY <1>2
<1>4. \A c \in Callers : InMail(c)' => InMail(c) /\ c # m.by BY <1>2, Names
<1> DEFINE accepted == [kind |-> "accepted", generation |-> generation]
<1> DEFINE rejected == Response("rejected")
<1>5. /\ accepted \in Responses /\ accepted.kind = "accepted"
      /\ accepted.generation = generation
      /\ rejected \in Responses /\ rejected.kind = "rejected"
  BY <1>1, Responding DEF Kinds, ErrorKinds, Responses, ConnectionTypeOK
<1>6. PICK response \in {accepted, rejected} :
        /\ Reply(m.conn, response)
        /\ applied' = IF response = accepted /\ m.conn # 0
                        THEN [applied EXCEPT ![m.by] = Append(applied[m.by], generation)]
                        ELSE applied
  BY <1>5 DEF HandleCommand
<1> HIDE DEF m, accepted, rejected
<1>7. m.conn \in Conns \cup {0} /\ m.by \in Callers \cup {"operator"} BY <1>2 DEF Commands
<1>8. m.conn # 0 =>
        /\ m.conn \in Conns /\ m.by \in Callers /\ InMail(m.by) /\ Tried(m.by)
        /\ applied[m.by] = <<>> /\ (TaskIs(m.conn, "waiting") => conn[m.conn].by = m.by)
        /\ \A k \in Conns : conn[k].by = m.by => ~Carries(k)
  BY <1>3, Awaiting
<1>9. /\ applied' \in [Callers -> Seq(Nat)]
      /\ \A c \in Callers : c # m.by => applied'[c] = applied[c]
      /\ m.conn = 0 => applied' = applied
      /\ m.conn # 0 => applied'[m.by] = IF response = accepted THEN <<generation>> ELSE <<>>
  <2>1. CASE m.conn = 0 BY <1>1, <1>6, <2>1 DEF ConnectionTypeOK
  <2>2. CASE m.conn # 0
    <3>1. m.by \in Callers /\ applied[m.by] = <<>> BY <1>8, <2>2
    <3>2. Append(applied[m.by], generation) = <<generation>> BY <3>1
    <3>3. <<generation>> \in Seq(Nat) BY <1>1 DEF ConnectionTypeOK
    <3>4. applied \in [Callers -> Seq(Nat)] BY <1>1 DEF ConnectionTypeOK
    <3>5. CASE response = accepted
      <4>1. applied' = [applied EXCEPT ![m.by] = <<generation>>] BY <1>6, <2>2, <3>2, <3>5
      <4> QED BY <2>2, <3>1, <3>3, <3>4, <3>5, <4>1
    <3>6. CASE response # accepted
      <4>1. applied' = applied BY <1>6, <3>6
      <4> QED BY <2>2, <3>1, <3>4, <3>6, <4>1
    <3> QED BY <3>5, <3>6
  <2> QED BY <2>1, <2>2
<1>10. conn' = IF m.conn # 0 /\ TaskIs(m.conn, "waiting")
                 THEN [conn EXCEPT ![m.conn].reply = response] ELSE conn
  BY <1>6 DEF Reply
<1>11. ASSUME NEW k \in Conns
       PROVE  /\ conn'[k] \in Connections
              /\ conn'[k].by = conn[k].by /\ conn'[k].up = conn[k].up
              /\ conn'[k].task = conn[k].task /\ conn'[k].ask = conn[k].ask
              /\ IF k = m.conn /\ TaskIs(k, "waiting")
                   THEN conn'[k] = [conn[k] EXCEPT !.reply = response] ELSE conn'[k] = conn[k]
  <2>1. response \in Responses BY <1>5
  <2>2. conn \in [Conns -> Connections] /\ conn[k] \in Connections BY <1>1 DEF ConnectionTypeOK
  <2>3. CASE k = m.conn /\ TaskIs(k, "waiting")
    <3>1. conn' = [conn EXCEPT ![k].reply = response] BY <1>10, <2>3, Names
    <3>2. conn'[k] = [conn[k] EXCEPT !.reply = response] BY <2>2, <3>1
    <3> QED BY <2>1, <2>2, <2>3, <3>2 DEF Connections
  <2>4. CASE ~(k = m.conn /\ TaskIs(k, "waiting"))
    <3>1. conn'[k] = conn[k] BY <1>7, <1>10, <2>2, <2>4
    <3> QED BY <2>2, <2>4, <3>1
  <2> QED BY <2>3, <2>4
<1>12. conn' \in [Conns -> Connections]
  <2>1. conn \in [Conns -> Connections] BY <1>1 DEF ConnectionTypeOK
  <2>2. conn' = conn \/ conn' = [conn EXCEPT ![m.conn].reply = response] BY <1>10
  <2>3. conn' = [k \in Conns |-> conn'[k]] BY <2>1, <2>2
  <2> QED BY <1>11, <2>3
<1>13. \A k \in Conns : Carries(k)' <=> Carries(k) BY <1>11 DEF Carries, TaskIs
<1>14. \A c \in Callers : Tried(c)' <=> Tried(c)
  BY <1>1 DEF Tried, Mutator, AtMutation, Running
<1>15. \A c \in Callers : c = m.by => m.conn # 0
  BY <1>1, <1>3, Names DEF Mail
<1>16. Faithful
  <2>1. \A c \in Callers : Never(c) => c # m.by BY <1>8, <1>15 DEF Never
  <2>2. \A c \in Callers : Never(c) => Never(c)'
    BY <1>4, <1>9, <1>11, <1>13, <2>1 DEF Never
  <2>3. \A c \in Callers : applied[c] # <<>> => applied'[c] = applied[c]
    BY <1>8, <1>9, <1>15
  <2> QED BY <1>14, <2>2, <2>3 DEF Faithful
<1>17. ASSUME NEW k \in Conns
       PROVE  Untouched(k) \/ \E r \in Responses : AnsweredWith(k, r)
  <2>1. CASE k = m.conn /\ TaskIs(k, "waiting")
    <3>1. PICK c \in Callers : c = m.by BY <1>8, <2>1, Names
    <3>2. /\ conn[k].by = c /\ Tried(c) /\ \A j \in Conns : conn[j].by = c => ~Carries(j)
      BY <1>8, <2>1, <3>1, Names
    <3>3. CASE response = accepted
      <4>1. applied'[c] = <<generation>> BY <1>9, <2>1, <3>1, <3>3, Names
      <4>2. True(c, response)'
        BY <1>1, <1>5, <1>14, <3>2, <3>3, <4>1 DEF True, accepted
      <4> QED BY <1>5, <1>11, <2>1, <3>2, <3>3, <4>2 DEF AnsweredWith
    <3>4. CASE response # accepted
      <4>1. response = rejected /\ response.kind = "rejected" BY <1>5, <3>4
      <4>2. applied'[c] = <<>> BY <1>9, <2>1, <3>1, <3>4, Names
      <4>3. Never(c)' BY <1>4, <1>11, <1>13, <3>1, <3>2, <4>2 DEF Never
      <4>4. True(c, response)'
        BY <1>14, <3>2, <4>1, <4>3 DEF True, rejected, Response
      <4> QED BY <1>5, <1>11, <2>1, <3>2, <4>1, <4>4 DEF AnsweredWith
    <3> QED BY <3>3, <3>4
  <2>2. CASE ~(k = m.conn /\ TaskIs(k, "waiting"))
    BY <1>2, <1>11, <2>2 DEF Untouched
  <2> QED BY <2>1, <2>2
<1>18. ConnectionTypeOK' BY <1>1, <1>2, <1>9, <1>12 DEF ConnectionTypeOK
<1>19. Mail'
  <2>1. \A i \in DOMAIN mailbox : mailbox[i] \in Commands BY <1>1
  <2>2. \A i \in DOMAIN mailbox : mailbox[i].conn # 0 => mailbox[i].conn \in Conns
    BY <2>1 DEF Commands
  <2>3. \A k \in Conns : conn[k] = Unused => conn'[k] = Unused
    BY <1>11, Nothing DEF TaskIs
  <2>4. ASSUME NEW i \in DOMAIN mailbox'
        PROVE  /\ mailbox'[i].conn = 0 <=> mailbox'[i].by = "operator"
               /\ mailbox'[i].conn # 0 =>
                    \/ conn'[mailbox'[i].conn] = Unused
                    \/ conn'[mailbox'[i].conn].by = mailbox'[i].by
    <3>1. PICK j \in DOMAIN mailbox : mailbox'[i] = mailbox[j] BY <1>2
    <3>2. /\ mailbox[j].conn = 0 <=> mailbox[j].by = "operator"
          /\ mailbox[j].conn # 0 =>
               conn[mailbox[j].conn] = Unused \/ conn[mailbox[j].conn].by = mailbox[j].by
      BY <1>1 DEF Mail
    <3>3. CASE mailbox[j].conn = 0 BY <3>1, <3>2, <3>3
    <3>4. CASE mailbox[j].conn # 0
      <4>1. mailbox[j].conn \in Conns BY <2>2, <3>4
      <4> QED BY <1>11, <2>3, <3>1, <3>2, <3>4, <4>1
    <3> QED BY <3>3, <3>4
  <2>5. \A i, j \in DOMAIN mailbox' : i + 1 = j + 1 => i = j BY <1>2
  <2>6. \A i, j \in DOMAIN mailbox' :
          mailbox'[i].by = mailbox'[j].by => i = j \/ mailbox'[i].by = "operator"
    BY <1>1, <1>2, <2>5 DEF Mail
  <2> QED BY <2>4, <2>6 DEF Mail
<1>20. \A c \in Callers : InMail(c)' => Tried(c) /\ applied'[c] = <<>>
  BY <1>4, <1>9 DEF ConnectionIInv, Calling
<1>21. \A c \in Callers : applied'[c] # <<>> => Tried(c) /\ Len(applied'[c]) = 1
  <2>1. Len(<<generation>>) = 1 OBVIOUS
  <2>2. \A c \in Callers : c # m.by => (applied'[c] # <<>> => Tried(c) /\ Len(applied'[c]) = 1)
    BY <1>9 DEF ConnectionIInv, Calling
  <2>3. \A c \in Callers : c = m.by => (applied'[c] # <<>> => Tried(c) /\ Len(applied'[c]) = 1)
    BY <1>8, <1>9, <1>15, <2>1
  <2> QED BY <2>2, <2>3
<1>22. ASSUME NEW k \in Conns PROVE Loaded(k)'
  <2> SUFFICES ASSUME Carries(k)' PROVE Loaded(k)' BY DEF Loaded
  <2>1. Carries(k) /\ conn'[k].by = conn[k].by BY <1>11, <1>13
  <2>2. PICK c \in Callers : c = conn[k].by BY <1>1, <2>1 DEF Connected, Loaded
  <2>3. Tried(c) /\ ~InMail(c) /\ applied[c] = <<>> BY <1>1, <2>1, <2>2 DEF Connected, Loaded
  <2>4. c # m.by BY <1>8, <1>15, <2>3
  <2>5. Tried(c)' /\ ~InMail(c)' /\ applied'[c] = <<>> BY <1>4, <1>9, <1>14, <2>3, <2>4
  <2> QED BY <2>1, <2>2, <2>5 DEF Loaded
<1> QED
  BY <1>1, <1>16, <1>17, <1>18, <1>19, <1>20, <1>21, <1>22, Answering

\* The two ways in which a command is dispatched.
LEMMA DispatchCommandKeeps ==
  ASSUME ConnectionAssumption, ConnectionIInv, NEW k \in Conns, DispatchCommand(k) PROVE ConnectionIInv'
<1>1. CASE scheduler BY <1>1, SentKeeps DEF DispatchCommand, serverVars
<1>2. CASE ~scheduler BY <1>2, RefusedKeeps DEF DispatchCommand, serverVars
<1> QED BY <1>1, <1>2
-----------------------------------------------------------------------------
(* The tools.                                                               *)

\* A step of call c touches its own connections, and those that are free.
ByCall(c) ==
  /\ applied' = applied /\ mailbox' = mailbox /\ generation' = generation
  /\ call' \in [Callers -> Calls] /\ conn' \in [Conns -> Connections]
  /\ \A d \in Callers \ {c} : call'[d] = call[d]
  /\ \A k \in Conns : \/ conn'[k] = conn[k]
                      \/ /\ conn[k].by \in {c, "none"}
                         /\ conn'[k] = Unused \/ conn'[k].by = c

\* A step of a call keeps the invariant if it does so of the call and its connections.
LEMMA Stepping ==
  ASSUME ConnectionAssumption, ConnectionIInv, NEW c \in Callers, ByCall(c), Calling(c)',
         \A k \in Conns : conn'[k].by = c => Connected(k)',
         \A k \in Conns : conn[k] = Unused /\ conn'[k] # Unused => ~Commanded(k),
         \A k, l \in Conns :
           Carries(k)' /\ Carries(l)' /\ conn'[k].by = c /\ conn'[l].by = c => k = l
  PROVE  ConnectionIInv'
<1>1. /\ ConnectionTypeOK /\ OnePlace /\ Mail /\ \A k \in Conns : Connected(k)
      /\ mailbox \in Seq(Commands) /\ call \in [Callers -> Calls] /\ "none" \notin Callers
  BY Names DEF ConnectionIInv, ConnectionTypeOK
<1>2. \A k \in Conns : conn[k].by = "none" => conn[k] = Unused
  BY <1>1 DEF Connected, Ends
<1>3. \A d \in Callers : d # c =>
        /\ Mutator(d)' <=> Mutator(d)
        /\ AtMutation(d)' <=> AtMutation(d)
        /\ Tried(d)' <=> Tried(d)
  BY DEF ByCall, Mutator, AtMutation, Tried, Running
<1>4. ASSUME NEW k \in Conns, conn'[k].by \in Callers, conn'[k].by # c
      PROVE  conn'[k] = conn[k]
  BY <1>1, <1>4, Nothing DEF ByCall
<1>5. \A k \in Conns : conn'[k] = conn[k] => (Carries(k)' <=> Carries(k))
  BY DEF Carries, TaskIs
<1>6. \A d \in Callers : InMail(d)' <=> InMail(d) BY DEF ByCall, InMail
<1>7. \A d \in Callers : d # c => (Never(d) => Never(d)')
  BY <1>4, <1>5, <1>6 DEF Never, ByCall
<1>8. \A d \in Callers : d # c => \A response : True(d, response) => True(d, response)'
  BY <1>3, <1>7 DEF True, ByCall
<1>9. ASSUME NEW k \in Conns PROVE Connected(k)'
  <2>1. CASE conn'[k].by = c BY <2>1
  <2>2. CASE conn'[k].by # c /\ conn'[k].by \in Callers
    <3>1. conn'[k] = conn[k] BY <1>4, <2>2
    <3>2. PICK d \in Callers : d = conn[k].by BY <2>2, <3>1
    <3>3. /\ d # c /\ call'[d] = call[d] /\ mailbox' = mailbox /\ applied' = applied
          /\ (Mutator(d)' <=> Mutator(d)) /\ (AtMutation(d)' <=> AtMutation(d))
          /\ Tried(d)' <=> Tried(d)
      BY <1>3, <2>2, <3>1, <3>2 DEF ByCall
    <3>4. Connected(k) BY <1>1
    <3>5. Ends(k)' BY <3>1, <3>2, <3>3, <3>4 DEF Connected, Ends, TaskIs
    <3>6. SingleUse(k)' BY <3>1, <3>2, <3>3, <3>4 DEF Connected, SingleUse, Now
    <3>7. OnlyMutators(k)' BY <3>1, <3>2, <3>3, <3>4 DEF Connected, OnlyMutators
    <3>8. TellsTruth(k)' BY <1>8, <3>1, <3>2, <3>3, <3>4 DEF Connected, TellsTruth
    <3>9. Loaded(k)' BY <1>5, <1>6, <3>1, <3>2, <3>3, <3>4 DEF Connected, Loaded
    <3> QED BY <3>5, <3>6, <3>7, <3>8, <3>9 DEF Connected
  <2>3. CASE conn'[k].by \notin Callers
    <3>0. conn'[k] \in Connections BY DEF ByCall
    <3>1. conn'[k].by = "none" BY <2>3, <3>0 DEF Connections
    <3>2. conn'[k] = Unused BY <1>2, <2>3, <3>1 DEF ByCall
    <3>3. Ends(k)' BY <1>1, <3>1, <3>2, Nothing DEF Ends, TaskIs
    <3>4. ~Carries(k)' BY <3>2, Nothing, SendsNothing DEF Carries, TaskIs
    <3>5. SingleUse(k)' /\ OnlyMutators(k)' /\ TellsTruth(k)' /\ Loaded(k)'
      BY <2>3, <3>4 DEF SingleUse, OnlyMutators, TellsTruth, Loaded
    <3> QED BY <3>3, <3>5 DEF Connected
  <2> QED BY <2>1, <2>2, <2>3
<1>10. ASSUME NEW d \in Callers PROVE Calling(d)'
  <2>1. CASE d = c BY <2>1
  <2>2. CASE d # c
    <3>1. Calling(d) /\ call'[d] = call[d] /\ mailbox' = mailbox /\ applied' = applied
      BY <2>2 DEF ConnectionIInv, ByCall
    <3>2. call[d].conn # 0 => call[d].conn \in Conns BY <1>1 DEF Calls
    <3>3. call[d].conn # 0 => conn'[call[d].conn] = conn[call[d].conn]
      BY <1>1, <2>2, <3>1, <3>2 DEF ByCall, Calling
    <3>4. (Mutator(d)' <=> Mutator(d)) /\ (Tried(d)' <=> Tried(d))
      BY <1>3, <2>2
    <3>5. Running(d)' <=> Running(d) BY <3>1 DEF Running
    <3> QED BY <1>6, <1>7, <2>2, <3>1, <3>3, <3>4, <3>5 DEF Calling
  <2> QED BY <2>1, <2>2
<1>11. Mail'
  <2>1. \A i \in DOMAIN mailbox : mailbox[i] \in Commands BY <1>1
  <2>2. ASSUME NEW i \in DOMAIN mailbox, mailbox[i].conn # 0
        PROVE  \/ conn'[mailbox[i].conn] = Unused
               \/ conn'[mailbox[i].conn].by = mailbox[i].by
    <3>1. PICK k \in Conns : k = mailbox[i].conn BY <2>1, <2>2 DEF Commands
    <3>2. conn[k] = Unused \/ conn[k].by = mailbox[i].by BY <1>1, <2>2, <3>1 DEF Mail
    <3>3. Commanded(k) BY <3>1 DEF Commanded
    <3>4. conn[k] = Unused => conn'[k] = Unused BY <3>3
    <3>5. conn[k] # Unused => conn[k].by # "none" BY <1>2
    <3> QED BY <3>1, <3>2, <3>4, <3>5 DEF ByCall
  <2> QED BY <1>1, <2>2 DEF Mail, ByCall
<1>12. OnePlace'
  <2> SUFFICES ASSUME NEW k \in Conns, NEW l \in Conns, Carries(k)', Carries(l)',
                      conn'[k].by = conn'[l].by
               PROVE  k = l
    BY DEF OnePlace
  <2>1. CASE conn'[k].by = c BY <2>1
  <2>2. CASE conn'[k].by # c
    <3>1. conn'[k].by \in Callers BY <1>9 DEF Connected, Loaded
    <3>2. conn'[k] = conn[k] /\ conn'[l] = conn[l] BY <1>4, <2>2, <3>1
    <3> QED BY <1>1, <1>5, <3>2 DEF OnePlace
  <2> QED BY <2>1, <2>2
<1>13. ConnectionTypeOK' BY <1>1 DEF ConnectionTypeOK, ByCall
<1> QED BY <1>9, <1>10, <1>11, <1>12, <1>13 DEF ConnectionIInv

\* A connection that the call has left stays as it is.
LEMMA Behind ==
  ASSUME NEW c \in Callers, NEW k \in Conns, Connected(k), conn[k].by = c, ~conn[k].client,
         conn'[k] = conn[k], mailbox' = mailbox, call'[c].tool = call[c].tool,
         \A response : Mutator(c) /\ True(c, response) => True(c, response)',
         Loaded(k)'
  PROVE  Connected(k)'
<1>1. Mutator(c)' <=> Mutator(c) BY DEF Mutator
<1>2. Ends(k)' BY DEF Connected, Ends, TaskIs
<1>3. SingleUse(k)' BY <1>1 DEF Connected, SingleUse
<1>4. OnlyMutators(k)' BY <1>1 DEF Connected, OnlyMutators
<1>5. TellsTruth(k)' BY <1>1 DEF Connected, TellsTruth
<1> QED BY <1>2, <1>3, <1>4, <1>5 DEF Connected

\* A call that begins has no connection and has sent nothing.
LEMMA BeginCallKeeps ==
  ASSUME ConnectionAssumption, ConnectionIInv, NEW c \in Callers, BeginCall(c) PROVE ConnectionIInv'
<1>1. /\ call[c] = NoCall /\ call \in [Callers -> Calls] /\ conn \in [Conns -> Connections]
      /\ Calling(c) /\ \A k \in Conns : Connected(k)
      /\ conn' = conn /\ mailbox' = mailbox /\ applied' = applied /\ generation' = generation
  BY DEF BeginCall, ConnectionIInv, ConnectionTypeOK, serverVars
<1>2. PICK tool \in ToolsOf[c] :
        call' = [call EXCEPT ![c] = [NoCall EXCEPT !.tool = tool, !.step = 1,
                                                   !.outcome = "running"]]
  BY DEF BeginCall
<1>3. tool \in ToolNames BY DEF ConnectionAssumption, ToolNames
<1>4. tool # "none" BY <1>3 DEF ToolNames
<1> DEFINE next == [NoCall EXCEPT !.tool = tool, !.step = 1, !.outcome = "running"]
<1>5. /\ next \in Calls /\ next.tool = tool /\ next.step = 1 /\ next.conn = 0
      /\ ~next.asked /\ next.outcome = "running"
  BY <1>3, Nothing DEF Calls, NoCall, Outcomes
<1>6. call' = [call EXCEPT ![c] = next] BY <1>2
<1> HIDE DEF next
<1>7. call' \in [Callers -> Calls] /\ call'[c] = next /\ \A d \in Callers \ {c} : call'[d] = call[d]
  BY <1>1, <1>5, <1>6
<1>8. ByCall(c) BY <1>1, <1>7 DEF ByCall
<1>9. ~Mutator(c) /\ ~Tried(c) /\ ~InMail(c) /\ applied[c] = <<>>
  BY <1>1, Nothing DEF Mutator, Tried, Calling
<1>10. \A k \in Conns : conn[k].by # c BY <1>1, Nothing DEF Connected, Ends
<1>11. Calling(c)'
  <2>1. 1 \in 1 .. Len(Script(tool)) BY <1>3, Scripts
  <2>2. ~InMail(c)' /\ applied'[c] = <<>> BY <1>1, <1>9 DEF InMail
  <2>3. /\ call'[c].tool = tool /\ call'[c].step = 1 /\ call'[c].conn = 0
        /\ ~call'[c].asked /\ call'[c].outcome = "running"
    BY <1>5, <1>7
  <2> QED BY <1>3, <1>4, <2>1, <2>2, <2>3 DEF Calling
<1>12. \A k \in Conns : conn'[k].by # c /\ (conn[k] = Unused => conn'[k] = Unused)
  BY <1>1, <1>10
<1> QED BY <1>8, <1>11, <1>12, Stepping

\* A new connection carries nothing.
LEMMA ConnectKeeps ==
  ASSUME ConnectionAssumption, ConnectionIInv, NEW c \in Callers, Connect(c) PROVE ConnectionIInv'
<1>1. /\ Running(c) /\ call[c].conn = 0 /\ call \in [Callers -> Calls]
      /\ conn \in [Conns -> Connections]
      /\ Calling(c) /\ \A k \in Conns : Connected(k)
      /\ mailbox' = mailbox /\ applied' = applied /\ generation' = generation
  BY DEF Connect, ConnectionIInv, ConnectionTypeOK, serverVars
<1>2. PICK k \in Conns :
        /\ Free(k)
        /\ conn' = [conn EXCEPT ![k] =
                      [Unused EXCEPT !.client = TRUE, !.by = c, !.task = "backlog"]]
        /\ call' = [call EXCEPT ![c].conn = k]
  BY DEF Connect
<1>3. conn[k] = Unused /\ ~Commanded(k) BY <1>2 DEF Free, Commanded
<1> DEFINE next == [Unused EXCEPT !.client = TRUE, !.by = c, !.task = "backlog"]
<1>4. /\ next \in Connections /\ next.client /\ next.by = c /\ next.task = "backlog"
      /\ next.up = <<>> /\ next.down = <<>> /\ next.ask = "none" /\ next.reply = None
  BY Nothing DEF Connections, Tasks, Unused
<1>5. conn' = [conn EXCEPT ![k] = next] BY <1>2
<1> HIDE DEF next
<1>6. /\ conn' \in [Conns -> Connections] /\ conn'[k] = next
      /\ \A j \in Conns \ {k} : conn'[j] = conn[j]
  BY <1>1, <1>4, <1>5
<1>7. /\ call' \in [Callers -> Calls] /\ call'[c] = [call[c] EXCEPT !.conn = k]
      /\ \A d \in Callers \ {c} : call'[d] = call[d]
  BY <1>1, <1>2 DEF Calls
<1>8. /\ call'[c].tool = call[c].tool /\ call'[c].step = call[c].step /\ call'[c].conn = k
      /\ (call'[c].asked <=> call[c].asked) /\ call'[c].outcome = call[c].outcome
      /\ call'[c].answer = call[c].answer
  BY <1>1, <1>7 DEF Calls
<1>9. ByCall(c) BY <1>1, <1>3, <1>4, <1>6, <1>7, Nothing DEF ByCall
<1>10. ~call[c].asked /\ call[c].tool # "none"
  BY <1>1, Nothing DEF Calling, Running
<1>11. (Mutator(c)' <=> Mutator(c)) /\ (AtMutation(c)' <=> AtMutation(c)) /\ (Tried(c)' <=> Tried(c))
  BY <1>8 DEF Mutator, AtMutation, Tried, Running
<1>12. ~Carries(k)' BY <1>4, <1>6, SendsNothing DEF Carries, TaskIs
<1>13. \A d \in Callers : InMail(d)' <=> InMail(d) BY <1>1 DEF InMail
<1>14. \A d \in Callers : Tried(d)' <=> Tried(d)
  BY <1>7, <1>11 DEF Tried, Mutator, AtMutation, Running
<1>15. Lighter
  <2>1. \A j \in Conns \ {k} : Carries(j)' => Carries(j) BY <1>6 DEF Carries, TaskIs
  <2> QED BY <1>1, <1>6, <1>12, <1>13, <1>14, <2>1 DEF Lighter
<1>16. OnePlace' /\ \A j \in Conns : Loaded(j)'
  BY <1>1, <1>15, StillLoaded DEF ConnectionIInv, Connected
<1>17. ASSUME NEW j \in Conns, conn'[j].by = c PROVE Connected(j)'
  <2>1. CASE j # k
    <3>1. conn'[j] = conn[j] BY <1>6, <2>1
    <3>2. ~conn[j].client BY <1>1, <1>17, <3>1, Names DEF Connected, Ends
    <3> QED BY <1>1, <1>8, <1>15, <1>16, <1>17, <3>1, <3>2, StillTrue, Behind
  <2>2. CASE j = k
    <3>1. Ends(k)' BY <1>4, <1>6, <1>8, <1>10, Names, Nothing DEF Ends, TaskIs
    <3>2. SingleUse(k)' BY <1>4, <1>6, Nothing DEF SingleUse
    <3>3. OnlyMutators(k)' BY <1>4, <1>6, SendsNothing DEF OnlyMutators, Mutations
    <3>4. TellsTruth(k)' BY <1>4, <1>6, Nothing DEF TellsTruth, True
    <3> QED BY <1>16, <2>2, <3>1, <3>2, <3>3, <3>4 DEF Connected
  <2> QED BY <2>1, <2>2
<1>18. Calling(c)'
  <2>1. Never(c) => Never(c)' BY <1>15, StillTrue
  <2>2. Running(c)' /\ call'[c].conn = k /\ conn'[k].client /\ conn'[k].by = c
        /\ call'[c].tool # "none" /\ k # 0
    BY <1>1, <1>4, <1>6, <1>8, <1>10, Names DEF Running
  <2>3. call'[c].tool \in ToolNames /\ call'[c].step \in 1 .. Len(Script(call'[c].tool))
    BY <1>1, <1>8 DEF Calling
  <2>4. /\ InMail(c)' => Tried(c)' /\ applied'[c] = <<>>
        /\ applied'[c] # <<>> => Tried(c)' /\ Len(applied'[c]) = 1
    BY <1>1, <1>11, <1>13 DEF Calling
  <2>5. Mutator(c)' =>
          /\ call'[c].outcome = "ok" => applied'[c] = <<call'[c].answer.generation>>
          /\ call'[c].outcome \in {"rejected", "scheduler_stopped"} => Never(c)'
          /\ call'[c].outcome # "mixed"
    BY <1>1, <1>8, <1>11, <2>1 DEF Calling
  <2> QED BY <2>2, <2>3, <2>4, <2>5 DEF Calling
<1>19. \A j \in Conns : conn[j] = Unused /\ conn'[j] # Unused => ~Commanded(j)
  BY <1>3, <1>6
<1>20. \A j, l \in Conns :
         Carries(j)' /\ Carries(l)' /\ conn'[j].by = c /\ conn'[l].by = c => j = l
  BY <1>16 DEF OnePlace
<1> QED BY <1>9, <1>17, <1>18, <1>19, <1>20, Stepping

\* A tool asks: one that mutates has not asked for anything on this connection.
LEMMA AskKeeps ==
  ASSUME ConnectionAssumption, ConnectionIInv, NEW c \in Callers, Ask(c) PROVE ConnectionIInv'
<1>1. /\ Running(c) /\ call[c].conn # 0 /\ ~call[c].asked /\ call \in [Callers -> Calls]
      /\ conn \in [Conns -> Connections]
      /\ Calling(c) /\ \A j \in Conns : Connected(j)
      /\ mailbox' = mailbox /\ applied' = applied /\ generation' = generation
  BY DEF Ask, ConnectionIInv, ConnectionTypeOK, serverVars
<1>2. PICK k \in Conns : k = call[c].conn BY <1>1 DEF Calls
<1>3. /\ conn[k].client /\ conn[k].by = c /\ call[c].tool \in ToolNames
      /\ call[c].step \in 1 .. Len(Script(call[c].tool)) /\ conn[k] \in Connections
  BY <1>1, <1>2 DEF Calling
<1> DEFINE ask == Now(c).ask
<1>4. ask \in Asks /\ (~Mutator(c) => ask \notin Mutations)
  BY <1>3, Scripts DEF Now, Mutator
<1>5. Mutator(c) => (ask \in Mutations => AtMutation(c)) /\ ask \in {"list"} \cup Mutations
  <2>1. CASE call[c].tool = "mutate"
    <3>1. call[c].step = 1 \/ call[c].step = 2 BY <1>3, <2>1, Scripts
    <3>2. "list" \notin Mutations BY DEF Mutations
    <3> QED BY <1>1, <2>1, <3>1, <3>2, Scripts DEF Now, Mutator, AtMutation, Mutations
  <2>2. CASE call[c].tool = "dynamic"
    <3>1. call[c].step = 1 BY <1>3, <2>2, Scripts
    <3> QED BY <1>1, <2>2, <3>1, Scripts DEF Now, Mutator, AtMutation, Mutations
  <2> QED BY <2>1, <2>2 DEF Mutator
<1>6. /\ call' \in [Callers -> Calls] /\ call'[c] = [call[c] EXCEPT !.asked = TRUE]
      /\ \A d \in Callers \ {c} : call'[d] = call[d]
  BY <1>1 DEF Ask, Calls
<1>7. /\ call'[c].tool = call[c].tool /\ call'[c].step = call[c].step
      /\ call'[c].conn = k /\ call'[c].asked /\ call'[c].outcome = call[c].outcome
      /\ call'[c].answer = call[c].answer
  BY <1>1, <1>2, <1>6 DEF Calls
<1>8. /\ Mutator(c)' <=> Mutator(c)
      /\ AtMutation(c)' <=> AtMutation(c)
      /\ Running(c)' /\ Now(c)' = Now(c)
  BY <1>1, <1>7 DEF Mutator, AtMutation, Running, Now
<1>9. ~Tried(c) BY <1>1 DEF Tried
<1>10. ~InMail(c) /\ applied[c] = <<>> /\ \A j \in Conns : conn[j].by = c => ~Carries(j)
  BY <1>1, <1>9 DEF Calling, Connected, Loaded
<1> DEFINE up == IF conn[k].task = "none" THEN conn[k].up ELSE Append(conn[k].up, ask)
<1>11. conn[k].up \in Seq(Asks) BY <1>3 DEF Connections
<1>12. up \in Seq(Asks) BY <1>4, <1>11, Appending
<1>13. Moved(k, conn[k].task, up, conn[k].ask, conn[k].reply, conn[k].down)
  <2> DEFINE next == [conn[k] EXCEPT !.up = up]
  <2>1. CASE conn[k].task = "none"
    <3>1. conn' = conn BY <1>2, <2>1 DEF Ask, Mine
    <3> QED BY <1>1, <2>1, <3>1 DEF Moved
  <2>2. CASE conn[k].task # "none"
    <3>1. conn' = [conn EXCEPT ![k].up = Append(conn[k].up, ask)]
      BY <1>2, <2>2 DEF Ask, Mine
    <3>2. conn' = [conn EXCEPT ![k] = next] BY <1>1, <2>2, <3>1
    <3>3. /\ next \in Connections /\ (next.client <=> conn[k].client) /\ next.by = conn[k].by
          /\ next.task = conn[k].task /\ next.up = up /\ next.ask = conn[k].ask
          /\ next.reply = conn[k].reply /\ next.down = conn[k].down
      BY <1>3, <1>12 DEF Connections
    <3> HIDE DEF next, up
    <3> QED BY <1>1, <3>2, <3>3 DEF Moved
  <2> QED BY <2>1, <2>2
<1>14. ByCall(c) BY <1>1, <1>3, <1>6, <1>13 DEF ByCall, Moved
<1>15. Mutator(c) =>
         /\ conn[k].up = <<>> /\ conn[k].ask = "none" /\ conn[k].down = <<>>
         /\ conn[k].task \in {"none", "backlog", "reading"} /\ conn[k].reply = None
  BY <1>1, <1>3 DEF Connected, SingleUse, Ends
<1>16. Mutator(c) => up = <<>> \/ (up # <<>> /\ Head(up) = ask /\ Tail(up) = <<>>)
  BY <1>4, <1>11, <1>15, Appending
<1>17. Sends(up) => Sends(conn[k].up) \/ ask \in Mutations
  BY <1>4, <1>11, SendsAppended
<1>18. conn[k].task = "none" => up = <<>> BY <1>1 DEF Connected, Ends, TaskIs
<1> HIDE DEF up, ask
<1>19. Carries(k)' => Mutator(c) /\ ask \in Mutations
  <2>1. ~Carries(k) BY <1>3, <1>10
  <2> QED BY <1>4, <1>13, <1>17, <2>1 DEF Moved, Carries, TaskIs
<1>20. Loaded(k)'
  <2> SUFFICES ASSUME Carries(k)' PROVE Loaded(k)' BY DEF Loaded
  <2>1. Mutator(c) /\ AtMutation(c) BY <1>5, <1>19 DEF ask
  <2>2. Tried(c)' BY <1>7, <1>8, <2>1 DEF Tried
  <2>3. ~InMail(c)' /\ applied'[c] = <<>> BY <1>1, <1>10 DEF InMail
  <2>4. conn'[k].by = c BY <1>3, <1>13 DEF Moved
  <2> QED BY <2>2, <2>3, <2>4 DEF Loaded
<1>21. Connected(k)'
  <2>1. Connected(k) BY <1>1
  <2>2. Ends(k)'
    BY <1>1, <1>3, <1>7, <1>13, <1>18, <2>1, Names DEF Moved, Connected, Ends, TaskIs, Unused
  <2>3. SingleUse(k)'
    <3> SUFFICES ASSUME Mutator(c)' PROVE SingleUse(k)' BY <1>3, <1>13 DEF Moved, SingleUse
    <3>1. /\ conn'[k].by = c /\ conn'[k].up = up /\ conn'[k].ask = "none"
          /\ conn'[k].down = <<>> /\ conn'[k].reply = None /\ conn'[k].task = conn[k].task
      BY <1>3, <1>8, <1>13, <1>15 DEF Moved
    <3>2. up # <<>> => conn[k].task \in {"backlog", "reading"}
      BY <1>8, <1>15, <1>18
    <3>3. ask \in {"list"} \cup Mutations BY <1>5, <1>8 DEF ask
    <3>4. Now(c)'.ask = ask BY <1>8 DEF ask
    <3>5. up # <<>> => Head(up) = ask /\ Tail(up) = <<>> BY <1>8, <1>16
    <3> QED BY <1>7, <3>1, <3>2, <3>3, <3>4, <3>5, Nothing DEF SingleUse
  <2>4. OnlyMutators(k)'
    BY <1>3, <1>4, <1>8, <1>13, <1>17, <2>1 DEF Moved, Connected, OnlyMutators, ask
  <2>5. TellsTruth(k)'
    BY <1>3, <1>8, <1>13, <1>15, Nothing DEF Moved, TellsTruth, True
  <2> QED BY <1>20, <2>2, <2>3, <2>4, <2>5 DEF Connected
<1>22. ASSUME NEW j \in Conns, conn'[j].by = c, j # k PROVE Connected(j)' /\ ~Carries(j)'
  <2>1. conn'[j] = conn[j] BY <1>13, <1>22 DEF Moved
  <2>2. ~conn[j].client BY <1>1, <1>2, <1>22, <2>1, Names DEF Connected, Ends
  <2>3. ~Carries(j)' BY <1>10, <1>22, <2>1 DEF Carries, TaskIs
  <2>4. \A response : Mutator(c) /\ True(c, response) => True(c, response)'
    BY <1>9 DEF True
  <2>5. Loaded(j)' BY <2>3 DEF Loaded
  <2> QED BY <1>1, <1>7, <1>22, <2>1, <2>2, <2>3, <2>4, <2>5, Behind
<1>23. \A j \in Conns : conn'[j].by = c => Connected(j)' BY <1>21, <1>22
<1>24. Calling(c)'
  <2>1. /\ Running(c)' /\ call'[c].conn = k /\ conn'[k].client /\ conn'[k].by = c
        /\ call'[c].tool # "none" /\ k # 0 /\ call'[c].tool \in ToolNames
        /\ call'[c].step \in 1 .. Len(Script(call'[c].tool))
    BY <1>1, <1>2, <1>3, <1>7, <1>8, <1>13, Names DEF Moved, ToolNames
  <2>2. ~InMail(c)' /\ applied'[c] = <<>> BY <1>1, <1>10 DEF InMail
  <2>3. call'[c].outcome = "running" BY <1>1, <1>7 DEF Running
  <2> QED BY <2>1, <2>2, <2>3 DEF Calling
<1>25. \A j \in Conns : conn[j] = Unused /\ conn'[j] # Unused => ~Commanded(j)
  BY <1>3, <1>13, Nothing DEF Moved
<1>26. \A j, l \in Conns :
         Carries(j)' /\ Carries(l)' /\ conn'[j].by = c /\ conn'[l].by = c => j = l
  BY <1>22
<1> QED BY <1>14, <1>23, <1>24, <1>25, <1>26, Stepping

\* A call goes on without its connection, or ends and reports an outcome.
GoesOn(c) ==
  /\ Mutator(c) => ~AtMutation(c)
  /\ call'[c].outcome = "running" /\ call'[c].step \in 1 .. Len(Script(call[c].tool))

Reports(c) ==
  /\ call'[c].outcome \notin {"none", "running"}
  /\ Mutator(c) =>
       /\ call'[c].outcome = "ok" => applied[c] = <<call'[c].answer.generation>>
       /\ call'[c].outcome \in {"rejected", "scheduler_stopped"} => Never(c)
       /\ call'[c].outcome # "mixed"

\* A call that leaves its connection, to go on or to report, keeps the invariant.
LEMMA Departing ==
  ASSUME ConnectionAssumption, ConnectionIInv, NEW c \in Callers, Running(c),
         applied' = applied, mailbox' = mailbox, generation' = generation,
         call' \in [Callers -> Calls], \A d \in Callers \ {c} : call'[d] = call[d],
         call'[c].tool = call[c].tool, call'[c].conn = 0, ~call'[c].asked,
         conn' = Dropped(conn, call[c].conn), GoesOn(c) \/ Reports(c)
  PROVE  ConnectionIInv'
<1>1. /\ call \in [Callers -> Calls] /\ conn \in [Conns -> Connections]
      /\ Calling(c) /\ \A j \in Conns : Connected(j)
      /\ \A d \in Callers : Calling(d)
  BY DEF ConnectionIInv, ConnectionTypeOK
<1>0. PICK k \in Conns \cup {0} : k = call[c].conn BY <1>1 DEF Calls
<1>2. /\ k = 0 => conn' = conn
      /\ k # 0 =>
           /\ k \in Conns /\ conn[k].client /\ conn[k].by = c
           /\ conn' \in [Conns -> Connections] /\ \A j \in Conns \ {k} : conn'[j] = conn[j]
           /\ TaskIs(k, "none") => conn'[k] = Unused
           /\ ~TaskIs(k, "none") =>
                /\ ~conn'[k].client /\ conn'[k].down = <<>>
                /\ conn'[k].by = c /\ conn'[k].up = conn[k].up
                /\ conn'[k].task = conn[k].task /\ conn'[k].ask = conn[k].ask
                /\ conn'[k].reply = conn[k].reply
  <2>1. CASE k = 0 BY <1>0, <2>1 DEF Dropped
  <2>2. CASE k # 0
    <3>1. k \in Conns /\ conn[k].client /\ conn[k].by = c BY <1>0, <1>1, <2>2 DEF Calls, Calling
    <3>2. conn' = Dropped(conn, k) BY <1>0
    <3> QED BY <1>1, <2>2, <3>1, <3>2, Dropping DEF TaskIs
  <2> QED BY <2>1, <2>2
<1>3. ByCall(c) BY <1>1, <1>2, Nothing DEF ByCall
<1>4. Mutator(c)' <=> Mutator(c) BY DEF Mutator
<1>5. Tried(c) => Tried(c)'
  BY <1>4 DEF Tried, GoesOn, Reports, Running
<1>6. \A d \in Callers : Tried(d) => Tried(d)'
  BY <1>5 DEF Tried, Mutator, AtMutation, Running
<1>7. \A d \in Callers : InMail(d)' <=> InMail(d) BY DEF InMail
<1>8. ASSUME NEW j \in Conns, Carries(j)' PROVE Carries(j) /\ conn'[j].by = conn[j].by
  <2>1. CASE conn'[j] = conn[j] BY <1>8, <2>1 DEF Carries, TaskIs
  <2>2. CASE conn'[j] # conn[j]
    <3>1. j = k /\ k # 0 BY <1>2, <2>2
    <3>2. conn'[k] # Unused BY <1>8, <3>1, Nothing, SendsNothing DEF Carries, TaskIs
    <3> QED BY <1>2, <1>8, <3>1, <3>2 DEF Carries, TaskIs
  <2> QED BY <2>1, <2>2
<1>9. Lighter BY <1>6, <1>7, <1>8 DEF Lighter
<1>10. OnePlace' /\ \A j \in Conns : Loaded(j)'
  BY <1>1, <1>9, StillLoaded DEF ConnectionIInv, Connected
<1>11. ASSUME NEW j \in Conns, conn'[j].by = c PROVE Connected(j)'
  <2>1. CASE conn'[j] = conn[j] /\ j # k
    <3>1. ~conn[j].client BY <1>0, <1>1, <1>11, <2>1, Names DEF Connected, Ends
    <3> QED BY <1>1, <1>9, <1>10, <1>11, <2>1, <3>1, StillTrue, Behind
  <2>2. CASE ~(conn'[j] = conn[j] /\ j # k)
    <3>1. j = k /\ k # 0 BY <1>2, <2>2, Names
    <3>2. ~TaskIs(k, "none") BY <1>2, <1>11, <3>1, Nothing, Names
    <3>3. /\ k \in Conns /\ conn[k].client /\ conn[k].by = c
          /\ ~conn'[k].client /\ conn'[k].down = <<>>
          /\ conn'[k].by = c /\ conn'[k].up = conn[k].up
          /\ conn'[k].task = conn[k].task /\ conn'[k].ask = conn[k].ask
          /\ conn'[k].reply = conn[k].reply
      BY <1>2, <3>1, <3>2
    <3>4. Connected(k) /\ call[c].tool # "none" /\ "none" \notin Callers
      BY <1>1, <3>3, Names DEF Connected, Ends
    <3>5. Ends(k)' BY <3>2, <3>3, <3>4 DEF Connected, Ends, TaskIs
    <3>6. SingleUse(k)' BY <1>4, <3>3, <3>4 DEF Connected, SingleUse
    <3>7. OnlyMutators(k)' BY <1>4, <3>3, <3>4 DEF Connected, OnlyMutators
    <3>8. TellsTruth(k)' BY <1>4, <1>9, <3>3, <3>4, StillTrue DEF Connected, TellsTruth
    <3> QED BY <1>10, <3>1, <3>5, <3>6, <3>7, <3>8 DEF Connected
  <2> QED BY <2>1, <2>2
<1>12. Calling(c)'
  <2>1. Never(c) => Never(c)' BY <1>9, StillTrue
  <2>2. call[c].tool # "none" /\ call[c].tool \in ToolNames
    BY <1>1 DEF Calling, ToolNames
  <2>3. Running(c)' <=> call'[c].outcome = "running" BY DEF Running
  <2>4. Running(c)' => call'[c].tool \in ToolNames /\ call'[c].step \in 1 .. Len(Script(call'[c].tool))
    BY <2>2, <2>3 DEF GoesOn, Reports
  <2>5. Mutator(c)' =>
          /\ call'[c].outcome = "ok" => applied'[c] = <<call'[c].answer.generation>>
          /\ call'[c].outcome \in {"rejected", "scheduler_stopped"} => Never(c)'
          /\ call'[c].outcome # "mixed"
    BY <1>4, <2>1 DEF GoesOn, Reports
  <2>6. /\ InMail(c)' => Tried(c)' /\ applied'[c] = <<>>
        /\ applied'[c] # <<>> => Tried(c)' /\ Len(applied'[c]) = 1
    BY <1>1, <1>5, <1>7 DEF Calling
  <2> QED BY <2>2, <2>4, <2>5, <2>6 DEF Calling
<1>13. \A j \in Conns : conn[j] = Unused /\ conn'[j] # Unused => ~Commanded(j)
  BY <1>2, Nothing
<1>14. \A j, l \in Conns :
         Carries(j)' /\ Carries(l)' /\ conn'[j].by = c /\ conn'[l].by = c => j = l
  BY <1>10 DEF OnePlace
<1> QED BY <1>3, <1>11, <1>12, <1>13, <1>14, Stepping

\* A tool that only reads asks again on the connection it has.
LEMMA Staying ==
  ASSUME ConnectionAssumption, ConnectionIInv, NEW c \in Callers, Running(c), ~Mutator(c),
         applied' = applied, mailbox' = mailbox, generation' = generation,
         call' \in [Callers -> Calls], \A d \in Callers \ {c} : call'[d] = call[d],
         call'[c].tool = call[c].tool, call'[c].conn = call[c].conn, ~call'[c].asked,
         call'[c].outcome = "running", call'[c].step \in 1 .. Len(Script(call[c].tool)),
         conn' = conn
           \/ \E down \in Seq(Responses) :
                /\ call[c].conn # 0
                /\ conn' = [conn EXCEPT ![call[c].conn].down = down]
  PROVE  ConnectionIInv'
<1>1. /\ call \in [Callers -> Calls] /\ conn \in [Conns -> Connections]
      /\ Calling(c) /\ \A j \in Conns : Connected(j)
      /\ call[c].tool \in ToolNames /\ call[c].tool # "none"
  BY DEF ConnectionIInv, ConnectionTypeOK, Calling, ToolNames
<1>0. PICK k \in Conns \cup {0} : k = call[c].conn BY <1>1 DEF Calls
<1>2. k # 0 => k \in Conns /\ conn[k].client /\ conn[k].by = c BY <1>0, <1>1 DEF Calls, Calling
<1>3. /\ conn' \in [Conns -> Connections] /\ \A j \in Conns : j # k => conn'[j] = conn[j]
      /\ k # 0 =>
           /\ conn'[k].client /\ conn'[k].by = c /\ conn'[k].up = conn[k].up
           /\ conn'[k].task = conn[k].task /\ conn'[k].ask = conn[k].ask
           /\ conn'[k].reply = conn[k].reply
  <2>1. CASE conn' = conn BY <1>1, <1>2, <2>1
  <2>2. CASE conn' # conn
    <3>1. PICK down \in Seq(Responses) : k # 0 /\ conn' = [conn EXCEPT ![k].down = down]
      BY <1>0, <2>2
    <3>2. k \in Conns /\ conn[k].client /\ conn[k].by = c /\ conn[k] \in Connections
      BY <1>1, <1>2, <3>1
    <3> DEFINE next == [conn[k] EXCEPT !.down = down]
    <3>3. /\ next \in Connections /\ (next.client <=> conn[k].client) /\ next.by = conn[k].by
          /\ next.task = conn[k].task /\ next.up = conn[k].up /\ next.ask = conn[k].ask
          /\ next.reply = conn[k].reply
      BY <3>2 DEF Connections
    <3>4. conn' = [conn EXCEPT ![k] = next] BY <1>1, <3>1
    <3> HIDE DEF next
    <3> QED BY <1>1, <3>2, <3>3, <3>4
  <2> QED BY <2>1, <2>2
<1>4. ByCall(c) BY <1>2, <1>3 DEF ByCall
<1>5. ~Mutator(c)' /\ ~Tried(c) BY DEF Mutator, Tried
<1>6. ASSUME NEW j \in Conns, conn'[j].by = c PROVE Connected(j)' /\ ~Carries(j)'
  <2>1. CASE j # k
    <3>1. conn'[j] = conn[j] BY <1>3, <2>1
    <3>2. ~conn[j].client BY <1>0, <1>1, <1>6, <2>1, <3>1, Names DEF Connected, Ends
    <3>3. ~Carries(j) BY <1>1, <1>5, <1>6, <3>1 DEF Connected, Loaded
    <3>4. ~Carries(j)' BY <3>1, <3>3 DEF Carries, TaskIs
    <3>5. Loaded(j)' BY <3>4 DEF Loaded
    <3> QED BY <1>1, <1>6, <3>1, <3>2, <3>4, <3>5, Behind
  <2>2. CASE j = k
    <3>1. k # 0 BY <2>2, Names
    <3>2. /\ conn[k].client /\ conn[k].by = c /\ Connected(k)
          /\ conn'[k].client /\ conn'[k].by = c /\ conn'[k].up = conn[k].up
          /\ conn'[k].task = conn[k].task /\ conn'[k].ask = conn[k].ask
          /\ conn'[k].reply = conn[k].reply
      BY <1>1, <1>2, <1>3, <2>2, <3>1
    <3>3. ~Carries(k) BY <1>5, <3>2 DEF Connected, Loaded
    <3>4. ~Carries(k)' BY <3>2, <3>3 DEF Carries, TaskIs
    <3>5. Ends(k)' BY <1>0, <1>1, <3>2, Names DEF Connected, Ends, TaskIs
    <3>6. OnlyMutators(k)' BY <1>5, <3>2 DEF Connected, OnlyMutators
    <3>7. SingleUse(k)' /\ TellsTruth(k)' /\ Loaded(k)'
      BY <1>5, <3>2, <3>4 DEF SingleUse, TellsTruth, Loaded
    <3> QED BY <2>2, <3>4, <3>5, <3>6, <3>7 DEF Connected
  <2> QED BY <2>1, <2>2
<1>7. Calling(c)'
  <2>1. ~InMail(c)' /\ applied'[c] = <<>> BY <1>1, <1>5 DEF Calling, InMail
  <2>2. call'[c].conn # 0 =>
          Running(c)' /\ conn'[call'[c].conn].client /\ conn'[call'[c].conn].by = c
    BY <1>0, <1>3 DEF Running
  <2> QED BY <1>1, <1>5, <2>1, <2>2 DEF Calling
<1>8. \A j \in Conns : conn[j] = Unused /\ conn'[j] # Unused => ~Commanded(j)
  BY <1>2, <1>3, Nothing, Names
<1>9. \A j, l \in Conns :
        Carries(j)' /\ Carries(l)' /\ conn'[j].by = c /\ conn'[l].by = c => j = l
  BY <1>6
<1> QED BY <1>4, <1>6, <1>7, <1>8, <1>9, Stepping

\* How a call goes on after a request.
LEMMA Proceeding ==
  ASSUME ConnectionAssumption, ConnectionIInv, NEW c \in Callers, Running(c),
         NEW outcome \in Outcomes \ {"none", "running"}, NEW answer \in Responses, NEW cs,
         Proceed(c, outcome, answer, cs)
  PROVE  /\ call' \in [Callers -> Calls] /\ \A d \in Callers \ {c} : call'[d] = call[d]
         /\ call'[c].tool = call[c].tool /\ ~call'[c].asked
         /\ \/ /\ call'[c].conn = 0 /\ conn' = Dropped(cs, call[c].conn)
               /\ call'[c].outcome = outcome /\ call'[c].answer = answer
               /\ Mutator(c) => AtMutation(c)
            \/ call'[c].conn = 0 /\ conn' = Dropped(cs, call[c].conn) /\ GoesOn(c)
            \/ /\ ~Mutator(c) /\ conn' = cs /\ call'[c].conn = call[c].conn
               /\ call'[c].outcome = "running" /\ call'[c].step \in 1 .. Len(Script(call[c].tool))
<1>1. call \in [Callers -> Calls] /\ call[c] \in Calls /\ Calling(c) BY DEF ConnectionIInv, ConnectionTypeOK
<1> DEFINE script == Script(call[c].tool)
<1> DEFINE step == call[c].step
<1>2. call[c].tool \in ToolNames /\ step \in 1 .. Len(script) BY <1>1 DEF Calling
<1>3. Len(script) \in Nat \ {0} BY <1>2, Scripts
<1> DEFINE ends == step = Len(script) \/ (outcome # "ok" /\ ~Now(c).best)
<1> DEFINE closes == ends \/ script[step + 1].fresh
<1> DEFINE to == IF closes THEN 0 ELSE call[c].conn
<1> DEFINE again == ~closes /\ call[c].conn = 0
<1> DEFINE ended == [NoCall EXCEPT !.tool = call[c].tool, !.outcome = outcome, !.answer = answer]
<1> DEFINE going ==
      [call[c] EXCEPT !.step = step + 1, !.asked = FALSE, !.conn = to, !.again = again]
<1>4. /\ call' = [call EXCEPT ![c] = IF ends THEN ended ELSE going]
      /\ conn' = IF closes THEN Dropped(cs, call[c].conn) ELSE cs
  BY DEF Proceed
<1>5. /\ ended \in Calls /\ ended.tool = call[c].tool /\ ~ended.asked /\ ended.conn = 0
      /\ ended.outcome = outcome /\ ended.answer = answer
  BY <1>2, Nothing DEF Calls, NoCall
<1>6. /\ going \in Calls /\ going.tool = call[c].tool /\ ~going.asked
      /\ going.conn = (IF closes THEN 0 ELSE call[c].conn)
      /\ going.outcome = call[c].outcome /\ going.step = step + 1
  <2>1. to \in Conns \cup {0} /\ again \in BOOLEAN /\ step + 1 \in Nat
    BY <1>1, <1>2, <1>3 DEF Calls
  <2>2. to = IF closes THEN 0 ELSE call[c].conn OBVIOUS
  <2> HIDE DEF to, again, closes, step
  <2> QED BY <1>1, <2>1, <2>2 DEF Calls
<1>7. Mutator(c) /\ ends => AtMutation(c)
  <2>1. CASE call[c].tool = "mutate"
    <3>1. step = 1 \/ step = 2 BY <1>2, <2>1, Scripts
    <3> QED BY <2>1, <3>1, Scripts DEF Now, AtMutation, Mutator
  <2>2. CASE call[c].tool = "dynamic"
    <3>1. step = 1 BY <1>2, <2>2, Scripts
    <3> QED BY <2>2, <3>1, Scripts DEF AtMutation, Mutator
  <2> QED BY <2>1, <2>2 DEF Mutator
<1>8. Mutator(c) => closes
  <2>1. CASE call[c].tool = "mutate"
    <3>1. step = 1 \/ step = 2 BY <1>2, <2>1, Scripts
    <3>2. 1 + 1 = 2 OBVIOUS
    <3> QED BY <2>1, <3>1, <3>2, Scripts
  <2>2. CASE call[c].tool = "dynamic"
    <3>1. step = 1 BY <1>2, <2>2, Scripts
    <3> QED BY <2>2, <3>1, Scripts
  <2> QED BY <2>1, <2>2 DEF Mutator
<1>9. ~ends => step + 1 \in 1 .. Len(script) /\ (Mutator(c) => ~AtMutation(c))
  BY <1>2, <1>3 DEF AtMutation
<1> HIDE DEF ended, going
<1>10. /\ call' \in [Callers -> Calls] /\ \A d \in Callers \ {c} : call'[d] = call[d]
       /\ call'[c] = IF ends THEN ended ELSE going
  BY <1>1, <1>4, <1>5, <1>6
<1> HIDE DEF ends
<1>11. CASE ends BY <1>4, <1>5, <1>7, <1>10, <1>11
<1>12. CASE ~ends /\ closes BY <1>4, <1>6, <1>9, <1>10, <1>12 DEF GoesOn, Running
<1>13. CASE ~ends /\ ~closes BY <1>4, <1>6, <1>8, <1>9, <1>10, <1>13 DEF Running
<1> QED BY <1>11, <1>12, <1>13

\* Nothing is received: the time is up, or the other end has gone.
LEMMA GivingUp ==
  ASSUME ConnectionAssumption, ConnectionIInv, NEW c \in Callers, Running(c),
         NEW outcome \in {"lost", "timeout"}, Proceed(c, outcome, None, conn),
         applied' = applied, mailbox' = mailbox, generation' = generation
  PROVE  ConnectionIInv'
<1>1. outcome \in Outcomes \ {"none", "running"} BY DEF Outcomes, ErrorKinds
<1>2. /\ call' \in [Callers -> Calls] /\ \A d \in Callers \ {c} : call'[d] = call[d]
      /\ call'[c].tool = call[c].tool /\ ~call'[c].asked
      /\ \/ /\ call'[c].conn = 0 /\ conn' = Dropped(conn, call[c].conn)
            /\ call'[c].outcome = outcome /\ call'[c].answer = None
            /\ Mutator(c) => AtMutation(c)
         \/ call'[c].conn = 0 /\ conn' = Dropped(conn, call[c].conn) /\ GoesOn(c)
         \/ /\ ~Mutator(c) /\ conn' = conn /\ call'[c].conn = call[c].conn
            /\ call'[c].outcome = "running" /\ call'[c].step \in 1 .. Len(Script(call[c].tool))
  BY <1>1, Nothing, Proceeding
<1>3. CASE call'[c].outcome = outcome /\ call'[c].conn = 0 /\ conn' = Dropped(conn, call[c].conn)
  <2>1. Reports(c) BY <1>3 DEF Reports
  <2> QED BY <1>2, <1>3, <2>1, Departing
<1>4. CASE call'[c].conn = 0 /\ conn' = Dropped(conn, call[c].conn) /\ GoesOn(c)
  BY <1>2, <1>4, Departing
<1>5. CASE ~Mutator(c) /\ conn' = conn /\ call'[c].conn = call[c].conn
            /\ call'[c].outcome = "running" /\ call'[c].step \in 1 .. Len(Script(call[c].tool))
  BY <1>2, <1>5, Staying
<1> QED BY <1>2, <1>3, <1>4, <1>5

\* What is lost and repeated is not the mutation.
LEMMA LostKeeps ==
  ASSUME ConnectionAssumption, ConnectionIInv, NEW c \in Callers, Lost(c) PROVE ConnectionIInv'
<1>1. /\ Running(c) /\ mailbox' = mailbox /\ applied' = applied /\ generation' = generation
      /\ call \in [Callers -> Calls] /\ call[c] \in Calls /\ Calling(c)
  BY DEF Lost, serverVars, ConnectionIInv, ConnectionTypeOK
<1>2. CASE RetrySafe(Now(c).ask) /\ ~call[c].again
  <2> DEFINE next == [call[c] EXCEPT !.conn = 0, !.asked = FALSE, !.again = TRUE]
  <2>1. /\ call' = [call EXCEPT ![c].conn = 0, ![c].asked = FALSE, ![c].again = TRUE]
        /\ conn' = Dropped(conn, call[c].conn)
    BY <1>2 DEF Lost
  <2>2. call' = [call EXCEPT ![c] = next] BY <1>1, <2>1
  <2>3. /\ next \in Calls /\ next.tool = call[c].tool /\ next.conn = 0 /\ ~next.asked
        /\ next.outcome = call[c].outcome /\ next.step = call[c].step
    BY <1>1 DEF Calls
  <2> HIDE DEF next
  <2>4. /\ call' \in [Callers -> Calls] /\ \A d \in Callers \ {c} : call'[d] = call[d]
        /\ call'[c] = next
    BY <1>1, <2>2, <2>3
  <2>5. ~AtMutation(c) BY <1>2, Wanted DEF RetrySafe, Mutations
  <2>6. GoesOn(c) BY <1>1, <2>3, <2>4, <2>5 DEF GoesOn, Calling, Running
  <2> QED BY <1>1, <2>1, <2>3, <2>4, <2>6, Departing
<1>3. CASE ~(RetrySafe(Now(c).ask) /\ ~call[c].again)
  <2>1. Proceed(c, "lost", None, conn) BY <1>3 DEF Lost
  <2> QED BY <1>1, <2>1, GivingUp
<1> QED BY <1>2, <1>3

\* An answer is read; what else the connection carried does not matter once it
\* is dropped.
LEMMA DroppedAnyway ==
  ASSUME ConnectionAssumption, conn \in [Conns -> Connections], NEW k \in Conns,
         NEW down \in Seq(Responses)
  PROVE  Dropped([conn EXCEPT ![k].down = down], k) = Dropped(conn, k)
<1> DEFINE cs == [conn EXCEPT ![k].down = down]
<1>1. conn[k] \in Connections /\ cs \in [Conns -> Connections] BY DEF Connections
<1>2. /\ cs[k].task = conn[k].task
      /\ [cs[k] EXCEPT !.client = FALSE, !.down = <<>>]
           = [conn[k] EXCEPT !.client = FALSE, !.down = <<>>]
      /\ \A j \in Conns \ {k} : cs[j] = conn[j]
  BY <1>1 DEF Connections
<1> HIDE DEF cs
<1> DEFINE left == IF conn[k].task = "none" THEN Unused
                   ELSE [conn[k] EXCEPT !.client = FALSE, !.down = <<>>]
<1>3. Dropped(cs, k) = [cs EXCEPT ![k] = left] BY <1>2, Names DEF Dropped
<1>4. Dropped(conn, k) = [conn EXCEPT ![k] = left] BY Names DEF Dropped
<1> HIDE DEF left
<1>5. [cs EXCEPT ![k] = left] = [conn EXCEPT ![k] = left] BY <1>1, <1>2
<1> QED BY <1>3, <1>4, <1>5 DEF cs

\* The answer is that of the request, and what it says is true.
LEMMA AnswerReadKeeps ==
  ASSUME ConnectionAssumption, ConnectionIInv, NEW c \in Callers, AnswerRead(c) PROVE ConnectionIInv'
<1>1. /\ Running(c) /\ mailbox' = mailbox /\ applied' = applied /\ generation' = generation
      /\ call \in [Callers -> Calls] /\ conn \in [Conns -> Connections]
      /\ call[c].asked /\ Calling(c) /\ \A j \in Conns : Connected(j)
  BY DEF AnswerRead, serverVars, ConnectionIInv, ConnectionTypeOK
<1>2. call[c].conn # 0 BY <1>1 DEF Calling
<1>3. PICK k \in Conns : k = call[c].conn BY <1>1, <1>2 DEF Calls
<1>4. conn[k].client /\ conn[k].by = c /\ Connected(k) /\ conn[k] \in Connections
  BY <1>1, <1>2, <1>3 DEF Calling
<1> DEFINE response == Head(conn[k].down)
<1> DEFINE down == Tail(conn[k].down)
<1> DEFINE outcome == Outcome(Now(c).ask, response)
<1>5. /\ conn[k].down # <<>>
      /\ Proceed(c, outcome, response, [conn EXCEPT ![k].down = down])
  BY <1>3 DEF AnswerRead, Mine
<1>6. response \in Responses /\ down \in Seq(Responses)
  <2>1. conn[k].down \in Seq(Responses) BY <1>4 DEF Connections
  <2> QED BY <1>5, <2>1, Taking
<1>7. /\ outcome \in {"ok", "mixed"} \cup ErrorKinds
      /\ outcome = "ok" => response.kind = Kind(Now(c).ask)
      /\ outcome \in ErrorKinds => response.kind = outcome
      /\ outcome = "mixed" => response.kind # Kind(Now(c).ask) /\ response.kind \notin ErrorKinds
  BY DEF Outcome, ErrorKinds
<1>8. Mutator(c) /\ AtMutation(c) =>
        /\ outcome = "ok" => applied[c] = <<response.generation>>
        /\ outcome \in {"rejected", "scheduler_stopped"} => Never(c)
        /\ outcome # "mixed"
  <2> SUFFICES ASSUME Mutator(c), AtMutation(c)
               PROVE  /\ outcome = "ok" => applied[c] = <<response.generation>>
                      /\ outcome \in {"rejected", "scheduler_stopped"} => Never(c)
                      /\ outcome # "mixed"
    OBVIOUS
  <2>1. Kind(Now(c).ask) = "accepted" BY Wanted DEF Kind, Mutations
  <2>2. response.kind \in {"accepted", "rejected", "scheduler_stopped", "timeout"}
    BY <1>4, <1>5 DEF Connected, SingleUse
  <2>3. True(c, response) BY <1>4, <1>5 DEF Connected, TellsTruth
  <2>4. \A kind \in {"rejected", "scheduler_stopped", "timeout"} : kind \in ErrorKinds
    BY DEF ErrorKinds
  <2> HIDE DEF response, outcome
  <2> QED BY <1>7, <2>1, <2>2, <2>3, <2>4 DEF True, ErrorKinds
<1> HIDE DEF response, outcome, down
<1>9. outcome \in Outcomes \ {"none", "running"} BY <1>7 DEF Outcomes, ErrorKinds
<1>10. /\ call' \in [Callers -> Calls] /\ \A d \in Callers \ {c} : call'[d] = call[d]
       /\ call'[c].tool = call[c].tool /\ ~call'[c].asked
       /\ \/ /\ call'[c].conn = 0 /\ conn' = Dropped([conn EXCEPT ![k].down = down], k)
             /\ call'[c].outcome = outcome /\ call'[c].answer = response
             /\ Mutator(c) => AtMutation(c)
          \/ /\ call'[c].conn = 0 /\ conn' = Dropped([conn EXCEPT ![k].down = down], k)
             /\ GoesOn(c)
          \/ /\ ~Mutator(c) /\ conn' = [conn EXCEPT ![k].down = down]
             /\ call'[c].conn = call[c].conn
             /\ call'[c].outcome = "running" /\ call'[c].step \in 1 .. Len(Script(call[c].tool))
  <2> DEFINE cs == [conn EXCEPT ![k].down = down]
  <2>1. Proceed(c, outcome, response, cs) BY <1>5
  <2> HIDE DEF cs
  <2>2. /\ call' \in [Callers -> Calls] /\ \A d \in Callers \ {c} : call'[d] = call[d]
        /\ call'[c].tool = call[c].tool /\ ~call'[c].asked
        /\ \/ /\ call'[c].conn = 0 /\ conn' = Dropped(cs, k)
              /\ call'[c].outcome = outcome /\ call'[c].answer = response
              /\ Mutator(c) => AtMutation(c)
           \/ call'[c].conn = 0 /\ conn' = Dropped(cs, k) /\ GoesOn(c)
           \/ /\ ~Mutator(c) /\ conn' = cs /\ call'[c].conn = call[c].conn
              /\ call'[c].outcome = "running" /\ call'[c].step \in 1 .. Len(Script(call[c].tool))
    BY <1>1, <1>3, <1>6, <1>9, <2>1, Proceeding
  <2> QED BY <2>2 DEF cs
<1>11. Dropped([conn EXCEPT ![k].down = down], k) = Dropped(conn, call[c].conn)
  BY <1>1, <1>3, <1>6, DroppedAnyway
<1>12. CASE /\ call'[c].conn = 0 /\ conn' = Dropped([conn EXCEPT ![k].down = down], k)
            /\ call'[c].outcome = outcome /\ call'[c].answer = response
            /\ Mutator(c) => AtMutation(c)
  <2>1. Reports(c) BY <1>8, <1>9, <1>12 DEF Reports
  <2> QED BY <1>1, <1>10, <1>11, <1>12, <2>1, Departing
<1>13. CASE /\ call'[c].conn = 0 /\ conn' = Dropped([conn EXCEPT ![k].down = down], k)
            /\ GoesOn(c)
  BY <1>1, <1>10, <1>11, <1>13, Departing
<1>14. CASE /\ ~Mutator(c) /\ conn' = [conn EXCEPT ![k].down = down]
            /\ call'[c].conn = call[c].conn
            /\ call'[c].outcome = "running" /\ call'[c].step \in 1 .. Len(Script(call[c].tool))
  BY <1>1, <1>2, <1>3, <1>6, <1>10, <1>14, Staying
<1> QED BY <1>10, <1>12, <1>13, <1>14

\* Every step of a call keeps the invariant.
LEMMA ClientStepKeeps ==
  ASSUME ConnectionAssumption, ConnectionIInv, NEW c \in Callers, ClientStep(c) PROVE ConnectionIInv'
<1>1. CASE BeginCall(c) BY <1>1, BeginCallKeeps
<1>2. CASE Connect(c) BY <1>2, ConnectKeeps
<1>3. CASE ConnectFails(c) BY <1>3, GivingUp DEF ConnectFails, serverVars
<1>4. CASE Ask(c) BY <1>4, AskKeeps
<1>5. CASE AnswerRead(c) BY <1>5, AnswerReadKeeps
<1>6. CASE TimesOut(c) BY <1>6, GivingUp DEF TimesOut, serverVars
<1>7. CASE Lost(c) BY <1>7, LostKeeps
<1> QED BY <1>1, <1>2, <1>3, <1>4, <1>5, <1>6, <1>7 DEF ClientStep

-----------------------------------------------------------------------------
(* The theorems.                                                            *)

\* The invariant holds at the start.
LEMMA StartsWell == ASSUME ConnectionAssumption, ConnectionInit PROVE ConnectionIInv
<1>1. /\ \A c \in Callers : call[c] = NoCall /\ applied[c] = <<>>
      /\ \A k \in Conns : conn[k] = Unused
      /\ mailbox = <<>> /\ generation = 1
  BY DEF ConnectionInit
<1>2. ConnectionTypeOK
  <2>1. <<>> \in Seq(Commands) /\ <<>> \in Seq(Nat) OBVIOUS
  <2> QED BY <2>1, Nothing DEF ConnectionInit, ConnectionTypeOK
<1>3. ASSUME NEW k \in Conns PROVE Connected(k) /\ ~Carries(k)
  <2>1. /\ conn[k] = Unused /\ ~conn[k].client /\ conn[k].by = "none" /\ conn[k].task = "none"
        /\ conn[k].up = <<>> /\ conn[k].down = <<>> /\ conn[k].ask = "none"
        /\ conn[k].reply = None /\ "none" \notin Callers
    BY <1>1, Nothing, Names
  <2>2. Ends(k) BY <2>1 DEF Ends, TaskIs
  <2>3. ~Carries(k) BY <2>1, SendsNothing DEF Carries, TaskIs
  <2>4. SingleUse(k) /\ OnlyMutators(k) /\ TellsTruth(k) /\ Loaded(k)
    BY <2>1, <2>3 DEF SingleUse, OnlyMutators, TellsTruth, Loaded
  <2> QED BY <2>2, <2>3, <2>4 DEF Connected
<1>4. ASSUME NEW c \in Callers PROVE Calling(c)
  <2>1. ~Mutator(c) /\ ~Running(c) /\ ~InMail(c)
    BY <1>1, Nothing DEF Mutator, Running, InMail
  <2> QED BY <1>1, <2>1, Nothing DEF Calling
<1>5. OnePlace BY <1>3 DEF OnePlace
<1>6. Mail BY <1>1 DEF Mail
<1> QED BY <1>2, <1>3, <1>4, <1>5, <1>6 DEF ConnectionIInv

\* It is about nothing but the variables.
LEMMA Standing ==
  ASSUME ConnectionAssumption, ConnectionIInv, UNCHANGED connectionVars PROVE ConnectionIInv'
<1>1. /\ call' = call /\ applied' = applied /\ generation' = generation
      /\ mailbox' = mailbox /\ conn' = conn
  BY DEF connectionVars, serverVars
<1>2. conn' \in [Conns -> Connections] BY <1>1 DEF ConnectionIInv, ConnectionTypeOK
<1> QED BY <1>1, <1>2, ClosesKeep

\* The channel and the connections hold each mutation in one place, and what
\* has been answered to it stays true.
THEOREM ConnectionInvariance == ASSUME ConnectionAssumption PROVE ConnectionSpec => []ConnectionIInv
<1>1. ConnectionInit => ConnectionIInv BY StartsWell
<1>2. ASSUME ConnectionIInv, [ConnectionNext]_connectionVars PROVE ConnectionIInv'
  <2>1. ASSUME NEW c \in Callers, ClientStep(c) PROVE ConnectionIInv'
    BY <1>2, <2>1, ClientStepKeeps
  <2>2. ASSUME NEW k \in Conns, ConnectionStep(k) PROVE ConnectionIInv'
    BY <1>2, <2>2, ConnectionStepKeeps, DispatchCommandKeeps
  <2>3. CASE StopListening BY <1>2, <2>3, StopListeningKeeps
  <2>4. CASE OperatorRestarts BY <1>2, <2>4, OperatorRestartsKeeps
  <2>5. CASE HandleCommand BY <1>2, <2>5, HandleCommandKeeps
  <2>6. CASE StartRun BY <1>2, <2>6, StartRunKeeps
  <2>7. CASE SchedulerStops BY <1>2, <2>7, SchedulerStopsKeeps
  <2>8. CASE Dies BY <1>2, <2>8, DiesKeeps
  <2>9. CASE UNCHANGED connectionVars BY <1>2, <2>9, Standing
  <2> QED
    BY <1>2, <2>1, <2>2, <2>3, <2>4, <2>5, <2>6, <2>7, <2>8, <2>9 DEF ConnectionNext
<1> QED BY <1>1, <1>2, PTL DEF ConnectionSpec

\* A mutation is applied once at most, and reported as what became of it.
THEOREM MutationAccountedHolds ==
  ASSUME ConnectionAssumption PROVE ConnectionSpec => []MutationAccounted
<1>1. ASSUME ConnectionIInv PROVE MutationAccounted
  <2> SUFFICES ASSUME NEW c \in Callers, Mutator(c)
               PROVE  /\ Len(applied[c]) <= 1
                      /\ call[c].outcome = "ok" => applied[c] = <<call[c].answer.generation>>
                      /\ call[c].outcome \in {"rejected", "scheduler_stopped"} =>
                           applied[c] = <<>> /\ \A i \in DOMAIN mailbox : mailbox[i].by # c
                      /\ call[c].outcome # "mixed"
    BY DEF MutationAccounted, Mutator
  <2>1. Calling(c) BY <1>1 DEF ConnectionIInv
  <2>2. Len(applied[c]) <= 1
    <3>1. CASE applied[c] = <<>>
      <4>1. Len(<<>>) <= 1 OBVIOUS
      <4> QED BY <3>1, <4>1, Zenon
    <3>2. CASE applied[c] # <<>>
      <4>1. Len(applied[c]) = 1 BY <2>1, <3>2 DEF Calling
      <4> QED BY <4>1
    <3> QED BY <3>1, <3>2
  <2> QED BY <2>1, <2>2 DEF Calling, Never, InMail
<1> QED BY <1>1, ConnectionInvariance, PTL
=============================================================================
