-------------------------------- MODULE Roster --------------------------------
(***************************************************************************)
(* The roster of a session: which services exist and why.  Configured      *)
(* services come and go with the configuration file (reload, reconcile),   *)
(* dynamic services are created, replaced, renewed and stopped over the    *)
(* control plane and expire with their lease; either leaves a retired      *)
(* entry behind that is evicted later (scheduler.rs).                      *)
(*                                                                         *)
(* A run is reduced to what the roster depends on: whether there is one,   *)
(* its id, and its log readers; Scheduler.tla is about runs.  When a pass  *)
(* starts a service is left open.                                          *)
(***************************************************************************)
EXTENDS Integers, Sequences, FiniteSets, Functions

CONSTANTS
  Ids,           \* service ids
  Files,         \* what load_services_from_disk may return: id -> dependencies
  Specs,         \* the dependencies a dynamic service may ask for
  Leases,        \* the lifetimes the policy grants: "bounded", "unbounded"
  Keys,          \* idempotency keys
  NoKey,
  MaxServices,   \* the policy's limit of live dynamic services
  MaxRetired,    \* MAX_RETIRED_SERVICES
  Window,        \* IDEMPOTENCY_WINDOW
  MaxRevision,   \* bound: revisions of a dynamic service
  MaxRuns,       \* bound: run ids of an entry
  MaxBirths      \* bound: how often an id is entered in the roster

Sound(deps) ==
  /\ \A s \in DOMAIN deps : deps[s] \subseteq DOMAIN deps
  /\ \E rank \in [DOMAIN deps -> 1 .. Cardinality(DOMAIN deps)] :
       \A s \in DOMAIN deps : \A d \in deps[s] : rank[d] < rank[s]

\* Assumed by the modules that instantiate this one.
RosterAssumption ==
  /\ IsFiniteSet(Ids)
  /\ Files \subseteq UNION {[S -> SUBSET S] : S \in SUBSET Ids}
  /\ \A f \in Files : Sound(f)
  /\ Specs \subseteq SUBSET Ids
  /\ Leases \subseteq {"bounded", "unbounded"}
  /\ NoKey \notin Keys
  /\ MaxServices \in Nat /\ MaxRetired \in Nat /\ Window \in Nat \ {0}
  /\ MaxRevision \in Nat /\ MaxRuns \in Nat /\ MaxBirths \in Nat

VARIABLES
  stage,          \* where the scheduler task is
  pending,     \* the command that waits for the file to be loaded
  roster,      \* the entries, by id
  records,     \* the idempotency window, oldest first
  threads,     \* the processes and log readers whose end was not yet received
  births       \* history: how often each id was entered in the roster

rosterVars == <<stage, pending, roster, records, threads, births>>

NoRun == 0
Runs == Nat \ {0}

Entry ==
  [origin   : {"configured", "dynamic"},
   revision : Nat,                         \* 0 for a configured service
   deps     : SUBSET Ids,
   retired  : {"no", "stopped", "expired", "removed"},
   lease    : {"none", "unbounded", "ahead", "due"},
   wanted   : {"enabled", "disabled"},
   running  : BOOLEAN,
   run      : Nat,                         \* the last run id allocated
   held     : BOOLEAN,                     \* the running service's reader
   parked   : SUBSET Runs]                 \* draining_log_readers

\* A request with its operation; a digest is taken to identify the request.
DynamicRequests ==
  [op : {"start", "replace"}, service : Ids, expected : 0 .. MaxRevision,
   deps : Specs, lease : Leases]
Record ==
  [key : Keys, request : DynamicRequests, revision : Nat,
   birth : Nat]                            \* history: which entry it is about

Thread ==
  [kind : {"process", "reader"}, service : Ids, run : Runs, ended : BOOLEAN,
   birth : Nat]                            \* history: of which entry

Pending ==
  [kind : {"none", "restart", "enable", "restart_all", "reconcile", "auto"},
   targets : SUBSET Ids]
NoCommand == [kind |-> "none", targets |-> {}]

RosterTypeOK ==
  /\ stage \in {"select", "await", "evict", "evictQuiet", "schedule", "launch"}
  /\ pending \in Pending
  /\ DOMAIN roster \subseteq Ids
  /\ \A s \in DOMAIN roster : roster[s] \in Entry
  /\ records \in Seq(Record) /\ Len(records) <= Window
  /\ threads \subseteq Thread
  /\ births \in [Ids -> Nat]

-----------------------------------------------------------------------------

IsLive(e) == e.retired = "no"
LiveConfigured == {s \in DOMAIN roster : IsLive(roster[s]) /\ roster[s].origin = "configured"}
LiveDynamic == {s \in DOMAIN roster : IsLive(roster[s]) /\ roster[s].origin = "dynamic"}
Dynamic == {s \in DOMAIN roster : roster[s].origin = "dynamic"}
Retired == {s \in DOMAIN roster : ~IsLive(roster[s])}

DepsOf(r) == [s \in DOMAIN r |-> r[s].deps]

\* f @@ r, and r with an entry for s, in a form the provers can expand.
Over(f, r) == [s \in DOMAIN f \cup DOMAIN r |-> IF s \in DOMAIN f THEN f[s] ELSE r[s]]
With(r, s, e) == Over([t \in {s} |-> e], r)

NewEntry(origin, revision, deps, lease) ==
  [origin |-> origin, revision |-> revision, deps |-> deps, retired |-> "no",
   lease |-> lease, wanted |-> "enabled", running |-> FALSE, run |-> 0,
   held |-> FALSE, parked |-> {}]

Granted(lease) == IF lease = "bounded" THEN "ahead" ELSE "unbounded"

\* Every retirement disables the service and ends its lease.
Retire(e, reason) ==
  [e EXCEPT !.wanted = "disabled", !.retired = reason, !.lease = "none"]

Enabled(e) == [e EXCEPT !.wanted = "enabled"]

RosterInit ==
  /\ stage = "schedule" /\ pending = NoCommand
  /\ \E f \in Files :
       /\ roster = [s \in DOMAIN f |-> NewEntry("configured", 0, f[s], "none")]
       /\ births = [s \in Ids |-> IF s \in DOMAIN f THEN 1 ELSE 0]
  /\ records = <<>> /\ threads = {}

-----------------------------------------------------------------------------
(***************************************************************************)
(* The loop: a wake-up, the eviction that follows every one, and the       *)
(* schedule pass if the wake-up asked for it.                              *)
(***************************************************************************)

Scheduling == stage' = "evict" /\ pending' = NoCommand
Quiet == stage' = "evictQuiet" /\ pending' = NoCommand

\* A command that is rejected, or answered from the idempotency window,
\* schedules all the same; input and resizes do not.
Wake ==
  /\ stage = "select"
  /\ Scheduling \/ Quiet
  /\ UNCHANGED <<roster, records, threads, births>>

\* Mutant: the eviction overlooks a reader that is still to be heard of.
EvictableDraining ==
  {s \in Retired : ~roster[s].running /\ \A t \in DOMAIN roster : s \notin roster[t].deps}

Evictable ==
  {s \in Retired :
     /\ ~roster[s].running /\ roster[s].parked = {}
     /\ \A t \in DOMAIN roster : s \notin roster[t].deps}

\* One turn of evict_retired's loop.  The oldest by the wall clock goes first;
\* that clock may stand still or step back, so any of them may be the oldest.
Evict ==
  /\ stage \in {"evict", "evictQuiet"}
  /\ Cardinality(Retired) > MaxRetired
  /\ \E s \in Evictable : roster' = Restrict(roster, DOMAIN roster \ {s})
  /\ UNCHANGED <<stage, pending, records, threads, births>>

EvictDone ==
  /\ stage \in {"evict", "evictQuiet"}
  /\ Cardinality(Retired) <= MaxRetired \/ Evictable = {}
  /\ stage' = (IF stage = "evict" THEN "schedule" ELSE "select")
  /\ UNCHANGED <<pending, roster, records, threads, births>>

\* A pass that finds an automatic restart due reloads the file first.
SchedulePass ==
  /\ stage = "schedule"
  /\ \/ stage' = "launch" /\ UNCHANGED pending
     \/ /\ \E s \in DOMAIN roster :
             roster[s].wanted = "enabled" /\ ~roster[s].running /\ roster[s].run > 0
        /\ stage' = "await" /\ pending' = [kind |-> "auto", targets |-> {}]
  /\ UNCHANGED <<roster, records, threads, births>>

Begin(e) == [e EXCEPT !.run = @ + 1, !.running = TRUE, !.held = TRUE]

Launch(s) ==
  /\ stage = "launch"
  /\ roster[s].wanted = "enabled" /\ ~roster[s].running /\ roster[s].run < MaxRuns
  /\ roster' = [roster EXCEPT ![s] = Begin(@)]
  /\ threads' = threads \cup
       [kind : {"process", "reader"}, service : {s}, run : {roster[s].run + 1},
        ended : {FALSE}, birth : {births[s]}]
  /\ UNCHANGED <<stage, pending, records, births>>

LaunchFails(s) ==
  /\ stage = "launch"
  /\ roster[s].wanted = "enabled" /\ ~roster[s].running /\ roster[s].run < MaxRuns
  /\ roster' = [roster EXCEPT ![s].run = @ + 1]
  /\ UNCHANGED <<stage, pending, records, threads, births>>

PassEnds ==
  /\ stage = "launch"
  /\ stage' = "select"
  /\ UNCHANGED <<pending, roster, records, threads, births>>

-----------------------------------------------------------------------------
(***************************************************************************)
(* Runs end, and the scheduler hears of it.                                *)
(***************************************************************************)

ThreadEnds(t) ==
  /\ ~t.ended
  /\ threads' = (threads \ {t}) \cup {[t EXCEPT !.ended = TRUE]}
  /\ UNCHANGED <<stage, pending, roster, records, births>>

\* handle_event: the run ids decide, and all it goes by is the service's id.
Concerns(e, t) ==
  \/ e.running /\ t.run = e.run
  \/ t.kind = "reader" /\ t.run \in e.parked

Finished(e, t) ==
  IF t.kind = "process"
  THEN [e EXCEPT !.running = FALSE, !.held = FALSE,
                 !.parked = IF e.held THEN @ \cup {t.run} ELSE @]
  ELSE [e EXCEPT !.held = @ /\ ~(e.running /\ t.run = e.run), !.parked = @ \ {t.run}]

HandleEvent(t) ==
  LET known == t.service \in DOMAIN roster /\ Concerns(roster[t.service], t)
  IN  /\ stage \in {"select", "await"}
      /\ t.ended
      /\ threads' = threads \ {t}
      /\ roster' = IF known THEN [roster EXCEPT ![t.service] = Finished(@, t)] ELSE roster
      /\ IF stage = "await" THEN UNCHANGED <<stage, pending>>
         ELSE IF known /\ t.kind = "process" THEN Scheduling ELSE Quiet
      /\ UNCHANGED <<records, births>>

-----------------------------------------------------------------------------
(***************************************************************************)
(* Dynamic services.                                                       *)
(***************************************************************************)

\* replay_idempotent lets a request through whose key is unknown, or whose
\* service has left the revision the record is about.
Fresh(key, request) ==
  \A i \in DOMAIN records :
    records[i].key = key =>
      /\ records[i].request = request
      /\ request.service \in Dynamic =>
           roster[request.service].revision # records[i].revision

Remember(key, request, revision, birth) ==
  LET others == SelectSeq(records, LAMBDA r : r.key # key)
      kept == IF Len(others) >= Window
              THEN SubSeq(others, Len(others) - Window + 2, Len(others)) ELSE others
  IN  records' = IF key = NoKey THEN records
                 ELSE Append(kept, [key |-> key, request |-> request,
                                    revision |-> revision, birth |-> birth])

\* Mutant: the graph is not checked.
AcyclicOrNot(s, deps) ==
  /\ s \notin deps
  /\ \A d \in deps : d \in DOMAIN roster /\ IsLive(roster[d])

\* validate_candidate: the dependencies are there and not retired, and the
\* whole roster stays sound with the candidate in it.
ValidCandidate(s, deps) ==
  /\ s \notin deps
  /\ \A d \in deps : d \in DOMAIN roster /\ IsLive(roster[d])
  /\ Sound(With(DepsOf(roster), s, deps))

SlotFree == Cardinality(LiveDynamic) < MaxServices

StartDynamic(request, key) ==
  LET s == request.service
  IN  /\ stage = "select"
      /\ request.op = "start" /\ request.expected = 0
      /\ Fresh(key, request)
      /\ s \notin DOMAIN roster
      /\ SlotFree
      /\ ValidCandidate(s, request.deps)
      /\ births[s] < MaxBirths
      /\ births' = [births EXCEPT ![s] = @ + 1]
      /\ roster' = With(roster, s, NewEntry("dynamic", 1, request.deps, Granted(request.lease)))
      /\ Remember(key, request, 1, births'[s])
      /\ Scheduling
      /\ UNCHANGED threads

ReviveNeedsSlot(s) == s \in Retired => SlotFree

Replaced(e, request) ==
  [Enabled(e) EXCEPT !.retired = "no", !.revision = @ + 1, !.deps = request.deps,
                     !.lease = Granted(request.lease)]

ReplaceDynamic(request, key) ==
  LET s == request.service
  IN  /\ stage = "select"
      /\ request.op = "replace"
      /\ Fresh(key, request)
      /\ s \in Dynamic
      /\ roster[s].revision = request.expected
      /\ ReviveNeedsSlot(s)
      /\ ValidCandidate(s, request.deps)
      /\ roster[s].revision < MaxRevision
      /\ roster' = [roster EXCEPT ![s] = Replaced(@, request)]
      /\ Remember(key, request, roster[s].revision + 1, births[s])
      /\ Scheduling
      /\ UNCHANGED <<threads, births>>

StopDynamic(s) ==
  /\ stage = "select"
  /\ s \in LiveDynamic
  /\ roster' = [roster EXCEPT ![s] = Retire(@, "stopped")]
  /\ Scheduling
  /\ UNCHANGED <<records, threads, births>>

\* The revision is the caller's expectation, which is met or rejected.
RenewDynamic(s, lease) ==
  /\ stage = "select"
  /\ s \in LiveDynamic
  /\ roster' = [roster EXCEPT ![s].lease = Granted(lease)]
  /\ Scheduling
  /\ UNCHANGED <<records, threads, births>>

LeaseElapses(s) ==
  /\ roster[s].lease = "ahead"
  /\ roster' = [roster EXCEPT ![s].lease = "due"]
  /\ UNCHANGED <<stage, pending, records, threads, births>>

\* Mutant: a service without a run is thought to be gone already.
DueRunning == {s \in DOMAIN roster : IsLive(roster[s]) /\ roster[s].lease = "due" /\ roster[s].running}
Due == {s \in DOMAIN roster : IsLive(roster[s]) /\ roster[s].lease = "due"}

ExpireDue ==
  /\ stage = "select"
  /\ Due # {}
  /\ roster' = [s \in DOMAIN roster |-> IF s \in Due THEN Retire(roster[s], "expired") ELSE roster[s]]
  /\ Scheduling
  /\ UNCHANGED <<records, threads, births>>

-----------------------------------------------------------------------------
(***************************************************************************)
(* Commands to any service, and the configuration file.                    *)
(***************************************************************************)

DisableService(s) ==
  /\ stage = "select"
  /\ roster' = [roster EXCEPT ![s].wanted = "disabled"]
  /\ Scheduling
  /\ UNCHANGED <<records, threads, births>>

\* What apply_restart, apply_enable and apply_restart_all check before they
\* await the reload; nothing is checked again after it.
Await(command) ==
  /\ stage = "select"
  /\ \A s \in command.targets : IsLive(roster[s])
  /\ command.kind = "restart" => \A s \in command.targets : roster[s].wanted = "enabled"
  /\ stage' = "await" /\ pending' = command
  /\ UNCHANGED <<roster, records, threads, births>>

\* Whom the command enables once the file is loaded.
Targets ==
  CASE pending.kind \in {"restart", "enable"} -> pending.targets
    [] pending.kind = "restart_all" ->
         {s \in DOMAIN roster : roster[s].wanted = "enabled" /\ IsLive(roster[s])}
    [] OTHER -> {}

\* reload_services: new definitions for exactly the live configured services.
MayReload(f) ==
  /\ DOMAIN f \cap Dynamic = {}
  /\ DOMAIN f = LiveConfigured
  /\ Sound(Over(f, DepsOf(roster)))

ReloadSucceeds(f) ==
  /\ stage = "await" /\ pending.kind # "reconcile"
  /\ MayReload(f)
  /\ roster' = [s \in DOMAIN roster |->
       LET defined == IF s \in DOMAIN f THEN [roster[s] EXCEPT !.deps = f[s]] ELSE roster[s]
       IN  IF s \in Targets THEN Enabled(defined) ELSE defined]
  /\ IF pending.kind = "auto" THEN stage' = "launch" /\ pending' = NoCommand ELSE Scheduling
  /\ UNCHANGED <<records, threads, births>>

\* The file cannot be used, or a reconciliation was only to be previewed.
LoadFails ==
  /\ stage = "await"
  /\ IF pending.kind = "auto" THEN stage' = "launch" /\ pending' = NoCommand ELSE Scheduling
  /\ UNCHANGED <<roster, records, threads, births>>

RemovedBy(f) == LiveConfigured \ DOMAIN f

\* Mutant: what dynamic services depend on may be removed.
MayReconcileOrphaning(f) ==
  DOMAIN f \cap Dynamic = {} /\ Sound(Over(f, DepsOf(roster)))

\* validate_reconcile_candidate
MayReconcile(f) ==
  /\ DOMAIN f \cap Dynamic = {}
  /\ \A s \in LiveDynamic : roster[s].deps \cap RemovedBy(f) = {}
  /\ Sound(Over(f, DepsOf(roster)))

\* An added service is new, or a removed one that is taken back; `startup`
\* are those whose startup mode is enabled.
Reconciled(f, s, startup) ==
  LET mode == IF s \in startup THEN "enabled" ELSE "disabled"
  IN  IF s \in RemovedBy(f) THEN Retire(roster[s], "removed")
      ELSE IF s \notin DOMAIN f THEN roster[s]
      ELSE IF s \notin DOMAIN roster
           THEN [NewEntry("configured", 0, f[s], "none") EXCEPT !.wanted = mode]
      ELSE IF s \in Retired
           THEN [roster[s] EXCEPT !.retired = "no", !.lease = "none", !.wanted = mode, !.deps = f[s]]
      ELSE [roster[s] EXCEPT !.deps = f[s]]

Reconcile(f, startup) ==
  /\ stage = "await" /\ pending.kind = "reconcile"
  /\ MayReconcile(f)
  /\ \A s \in DOMAIN f \ DOMAIN roster : births[s] < MaxBirths
  /\ births' = [s \in DOMAIN births |-> IF s \in DOMAIN f \ DOMAIN roster THEN births[s] + 1 ELSE births[s]]
  /\ roster' = [s \in DOMAIN roster \cup DOMAIN f |-> Reconciled(f, s, startup)]
  /\ Scheduling
  /\ UNCHANGED <<records, threads>>

-----------------------------------------------------------------------------

LoopStep == Wake \/ Evict \/ EvictDone \/ SchedulePass \/ PassEnds
DynamicStep ==
  \/ \E request \in DynamicRequests, key \in Keys \cup {NoKey} :
       StartDynamic(request, key) \/ ReplaceDynamic(request, key)
  \/ \E s \in DOMAIN roster : StopDynamic(s) \/ LeaseElapses(s)
  \/ \E s \in DOMAIN roster, lease \in Leases : RenewDynamic(s, lease)
CommandStep ==
  \/ \E s \in DOMAIN roster :
       \/ DisableService(s)
       \/ \E kind \in {"restart", "enable"} : Await([kind |-> kind, targets |-> {s}])
  \/ \E kind \in {"restart_all", "reconcile"} : Await([kind |-> kind, targets |-> {}])
FileStep ==
  \/ \E f \in Files : ReloadSucceeds(f) \/ (\E startup \in SUBSET DOMAIN f : Reconcile(f, startup))
  \/ LoadFails

RosterNext ==
  \/ LoopStep \/ DynamicStep \/ ExpireDue \/ CommandStep \/ FileStep
  \/ \E s \in DOMAIN roster : Launch(s) \/ LaunchFails(s)
  \/ \E t \in threads : ThreadEnds(t) \/ HandleEvent(t)

RosterSpec == RosterInit /\ [][RosterNext]_rosterVars

(***************************************************************************)
(* The scheduler goes on, a load ends in the end, and the expiry timer,    *)
(* like every branch of the select!, is polled in random order.            *)
(***************************************************************************)
RosterFairness ==
  /\ WF_rosterVars(Evict \/ EvictDone) /\ WF_rosterVars(SchedulePass) /\ WF_rosterVars(PassEnds)
  /\ WF_rosterVars(FileStep)
  /\ SF_rosterVars(ExpireDue)

RosterFairSpec == RosterSpec /\ RosterFairness

-----------------------------------------------------------------------------

\* Whatever is created, replaced, reloaded, reconciled, stopped and evicted,
\* every entry's dependencies are entries, and there is no cycle: a service is
\* never blocked by something that cannot come back or by itself.
GraphSound == Sound(DepsOf(roster))

\* A retired service is not wanted and cannot be made to run except by its
\* revival, however it was retired and whatever commands were on their way;
\* and no live service depends on one that was removed from the configuration.
RetiredStaysDown ==
  /\ \A s \in Retired : roster[s].wanted = "disabled"
  /\ \A s \in DOMAIN roster : IsLive(roster[s]) =>
       \A d \in roster[s].deps : d \in DOMAIN roster => roster[d].retired # "removed"

\* A process or reader that still has to report belongs to the entry that has
\* its id: an evicted id can be used anew, with run ids that start over, and
\* an end of the old entry would be taken for one of the new.
ReportsFindTheirEntry ==
  \A t \in threads :
    /\ t.service \in DOMAIN roster /\ t.birth = births[t.service]
    /\ Concerns(roster[t.service], t)

\* A lease that is over ends, by retirement or renewal.
LeaseEnds ==
  \A s \in Ids :
    (s \in DOMAIN roster /\ roster[s].lease = "due")
      ~> (s \notin DOMAIN roster \/ roster[s].lease # "due")

\* "an idempotent replay waits on the original run": a request that would be
\* answered from a record is about the very entry the record is about.
ReplayIsOriginal ==
  \A i \in DOMAIN records :
    LET s == records[i].request.service
    IN  (s \in Dynamic /\ roster[s].revision = records[i].revision)
          => records[i].birth = births[s]
=============================================================================
