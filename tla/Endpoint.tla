------------------------------- MODULE Endpoint -------------------------------
(***************************************************************************)
(* Who owns a project's control socket (server/unix.rs, endpoint.rs, and   *)
(* control.rs of the CLI).  Each session of the project takes the          *)
(* project's lock, then the lock of the socket's path, replaces what a     *)
(* crash has left there and serves until it drops its guard.  Diagnostic   *)
(* probes take the path's lock shared for a moment.  The system releases   *)
(* the locks of a process that is gone, and leaves its socket.             *)
(***************************************************************************)
EXTENDS Naturals, FiniteSets

CONSTANTS
  Sessions,  \* processes started for one canonical config path
  Probes,    \* clients that ask whether the path has an owner
  Paths      \* the socket paths that runtime_dir may lead to

\* Assumed by the modules that instantiate this one.
EndpointAssumption == IsFiniteSet(Sessions) /\ Paths # {}

VARIABLES
  pc,      \* where each session is
  path,    \* the socket path of each session
  project, \* sessions that hold the project's lock
  owner,   \* for each path, the sessions that hold its lock
  shared,  \* for each path, the probes that hold its lock
  socket,  \* for each path, the session whose socket it is: a set of one, or none
  said     \* what each probe was told: [path, held], or that it was not yet

endpointVars == <<pc, path, project, owner, shared, socket, said>>

At(s, at) == pc[s] = at
Goes(s, at) == pc' = [pc EXCEPT ![s] = at]
NotYet == [held |-> FALSE, done |-> FALSE]

-----------------------------------------------------------------------------
(* bind_project. *)

\* runtime_dir is the first candidate that can be used when it is asked.
Start(s, p) ==
  /\ At(s, "new")
  /\ path' = [path EXCEPT ![s] = p]
  /\ Goes(s, "started")
  /\ UNCHANGED <<project, owner, shared, socket, said>>

LockProject(s) ==
  /\ At(s, "started")
  /\ IF project = {} THEN project' = {s} /\ Goes(s, "locked")
                     ELSE UNCHANGED project /\ Goes(s, "elsewhere")
  /\ UNCHANGED <<path, owner, shared, socket, said>>

LockEndpoint(s) ==
  /\ At(s, "locked") /\ owner[path[s]] = {} /\ shared[path[s]] = {}
  /\ owner' = [owner EXCEPT ![path[s]] = {s}]
  /\ Goes(s, "owner")
  /\ UNCHANGED <<path, project, shared, socket, said>>

\* try_lock_endpoint_owner's grace is over; the project's lock is dropped.
GiveUp(s) ==
  /\ At(s, "locked") /\ (owner[path[s]] # {} \/ shared[path[s]] # {})
  /\ project' = project \ {s}
  /\ Goes(s, "elsewhere")
  /\ UNCHANGED <<path, owner, shared, socket, said>>

RemoveStale(s) ==
  /\ At(s, "owner")
  /\ socket' = [socket EXCEPT ![path[s]] = {}]
  /\ Goes(s, "binding")
  /\ UNCHANGED <<path, project, owner, shared, said>>

\* An address in use is an error: the control plane is off, the locks dropped.
Bind(s) ==
  /\ At(s, "binding")
  /\ IF socket[path[s]] = {}
       THEN /\ socket' = [socket EXCEPT ![path[s]] = {s}] /\ Goes(s, "serving")
            /\ UNCHANGED <<project, owner>>
       ELSE /\ project' = project \ {s}
            /\ owner' = [owner EXCEPT ![path[s]] = @ \ {s}]
            /\ Goes(s, "unavailable") /\ UNCHANGED socket
  /\ UNCHANGED <<path, shared, said>>

-----------------------------------------------------------------------------
(* The end of a session: EndpointGuard::drop, then its fields. *)

\* Mutant: the locks are dropped before the socket is removed.
ClosingUnlocksFirst == <<"unlocking endpoint", "unlocking project", "unlinking">>

Closing == <<"unlinking", "unlocking endpoint", "unlocking project">>

After(at) ==
  CASE at = Closing[1] -> Closing[2]
    [] at = Closing[2] -> Closing[3]
    [] at = Closing[3] -> "gone"

Shutdown(s) ==
  /\ At(s, "serving")
  /\ Goes(s, Closing[1])
  /\ UNCHANGED <<path, project, owner, shared, socket, said>>

Unlink(s) ==
  /\ At(s, "unlinking")
  /\ socket' = [socket EXCEPT ![path[s]] = {}]
  /\ Goes(s, After("unlinking"))
  /\ UNCHANGED <<path, project, owner, shared, said>>

UnlockEndpoint(s) ==
  /\ At(s, "unlocking endpoint")
  /\ owner' = [owner EXCEPT ![path[s]] = @ \ {s}]
  /\ Goes(s, After("unlocking endpoint"))
  /\ UNCHANGED <<path, project, shared, socket, said>>

UnlockProject(s) ==
  /\ At(s, "unlocking project")
  /\ project' = project \ {s}
  /\ Goes(s, After("unlocking project"))
  /\ UNCHANGED <<path, owner, shared, socket, said>>

Alive(s) == pc[s] \notin {"new", "gone"}

Crash(s) ==
  /\ Alive(s)
  /\ Goes(s, "gone")
  /\ project' = project \ {s}
  /\ owner' = [p \in Paths |-> owner[p] \ {s}]
  /\ UNCHANGED <<path, shared, socket, said>>

-----------------------------------------------------------------------------
(* owner_lock_held_unix: the shared lock is had, and dropped, or would block. *)

Probe(c, p) ==
  /\ said[c] = NotYet /\ \A q \in Paths : c \notin shared[q]
  /\ IF owner[p] = {}
       THEN shared' = [shared EXCEPT ![p] = @ \cup {c}] /\ UNCHANGED said
       ELSE said' = [said EXCEPT ![c] = [held |-> TRUE, done |-> TRUE]] /\ UNCHANGED shared
  /\ UNCHANGED <<pc, path, project, owner, socket>>

ProbeEnds(c, p) ==
  /\ c \in shared[p]
  /\ shared' = [shared EXCEPT ![p] = @ \ {c}]
  /\ said' = [said EXCEPT ![c] = [held |-> FALSE, done |-> TRUE]]
  /\ UNCHANGED <<pc, path, project, owner, socket>>

-----------------------------------------------------------------------------
EndpointInit ==
  /\ pc = [s \in Sessions |-> "new"]
  /\ path \in [Sessions -> {CHOOSE p \in Paths : TRUE}]
  /\ project = {}
  /\ owner = [p \in Paths |-> {}] /\ shared = [p \in Paths |-> {}]
  /\ socket = [p \in Paths |-> {}]
  /\ said = [c \in Probes |-> NotYet]

SessionStep(s) ==
  \/ \E p \in Paths : Start(s, p)
  \/ LockProject(s) \/ LockEndpoint(s) \/ GiveUp(s) \/ RemoveStale(s) \/ Bind(s)
  \/ Shutdown(s) \/ Unlink(s) \/ UnlockEndpoint(s) \/ UnlockProject(s) \/ Crash(s)
ProbeStep(c) == \E p \in Paths : Probe(c, p) \/ ProbeEnds(c, p)

EndpointNext == (\E s \in Sessions : SessionStep(s)) \/ (\E c \in Probes : ProbeStep(c))

EndpointSpec == EndpointInit /\ [][EndpointNext]_endpointVars

-----------------------------------------------------------------------------
(* However sessions start, end and crash and wherever their runtime directory  *)
(* is: one session of the project serves; the socket at its path is its own    *)
(* from the bind until it removes it itself; a start that has the locks finds  *)
(* the path free; what is left behind is of a session that crashed; and a path *)
(* that a probe holds has no owner (unix.rs:178).                              *)
OneOwner ==
  LET Holds(s) == pc[s] \in {"locked", "owner", "binding", "serving", "unlinking"}
  IN  /\ \A s, t \in Sessions : Holds(s) /\ Holds(t) => s = t
      /\ \A s \in Sessions :
           /\ At(s, "serving") \/ At(s, "unlinking") =>
                socket[path[s]] = {s} /\ owner[path[s]] = {s} /\ project = {s}
           /\ At(s, "binding") => socket[path[s]] = {}
           /\ ~At(s, "unavailable")
      /\ \A p \in Paths : \A s \in socket[p] : pc[s] \in {"serving", "unlinking", "gone"}
      /\ \A p \in Paths : shared[p] = {} \/ owner[p] = {}
=============================================================================
