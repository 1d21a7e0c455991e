----------------------------- MODULE RosterProofs -----------------------------
(***************************************************************************)
(* What holds of the roster for every set of services, every sequence of   *)
(* configuration files and every policy: retired services stay down, the   *)
(* reports of runs find the entry they are about, and the graph stays      *)
(* sound through every way to change it.                                   *)
(*                                                                         *)
(* The command that waits for the file (`TargetsLive`) and the ids of the  *)
(* runs (`RunsPassed`, `OnceEach`) have to be added to the first two for   *)
(* them to carry themselves; the third needs that ranks can be packed when *)
(* an entry is evicted.                                                    *)
(*                                                                         *)
(* Then, what those reports of one run promise the scheduler, for every    *)
(* number of retries, every capacity of the channel and either kind of     *)
(* platform.  The invariants on `sent` do not carry themselves: that the   *)
(* exit is the last report needs that every other sender is through by     *)
(* then, the probe loop because it was stopped and the detached Killed     *)
(* because it was joined.  `Senders` and `KillProgress` say so for each    *)
(* place of the termination task.                                          *)
(***************************************************************************)
EXTENDS Roster, RunTask, FiniteSetTheorems, TLAPS

\* RosterTypeOK without the idempotency window, which no theorem here is about.
Shaped ==
  /\ stage \in {"select", "await", "evict", "evictQuiet", "schedule", "launch"}
  /\ pending \in Pending
  /\ DOMAIN roster \subseteq Ids
  /\ \A s \in DOMAIN roster : roster[s] \in Entry
  /\ threads \subseteq Thread
  /\ births \in [Ids -> Nat]

\* A command that waits was checked, and nothing retires a service meanwhile.
TargetsLive ==
  stage = "await" => \A s \in pending.targets : s \in DOMAIN roster /\ IsLive(roster[s])

-----------------------------------------------------------------------------
(* What the operators on entries change, and what they keep.                *)

SameRun(e, g) ==
  g.running = e.running /\ g.run = e.run /\ g.held = e.held /\ g.parked = e.parked

\* But for the lease.
SamePolicy(e, g) ==
  g.origin = e.origin /\ g.deps = e.deps /\ g.retired = e.retired /\ g.wanted = e.wanted

\* A retired entry is well shaped, disabled and unwanted.
LEMMA Retiring ==
  ASSUME NEW e \in Entry, NEW reason \in {"stopped", "expired", "removed"}
  PROVE  /\ Retire(e, reason) \in Entry
         /\ SameRun(e, Retire(e, reason))
         /\ Retire(e, reason).origin = e.origin /\ Retire(e, reason).deps = e.deps
         /\ Retire(e, reason).retired = reason /\ Retire(e, reason).wanted = "disabled"
  BY DEF Retire, Entry, SameRun

\* What enabling a service does to its record.
LEMMA Enabling ==
  ASSUME NEW e \in Entry
  PROVE  /\ Enabled(e) \in Entry
         /\ SameRun(e, Enabled(e))
         /\ Enabled(e).origin = e.origin /\ Enabled(e).deps = e.deps
         /\ Enabled(e).retired = e.retired
  BY DEF Enabled, Entry, SameRun

\* What the start of a run does to it.
LEMMA Beginning ==
  ASSUME NEW e \in Entry
  PROVE  /\ Begin(e) \in Entry
         /\ SamePolicy(e, Begin(e))
         /\ Begin(e).running /\ Begin(e).held
         /\ Begin(e).run = e.run + 1 /\ Begin(e).parked = e.parked
<1>1. e.run + 1 \in Nat BY DEF Entry
<1>2. Begin(e) \in Entry BY <1>1 DEF Begin, Entry
<1>3. Begin(e).running /\ Begin(e).held BY DEF Begin, Entry
<1>4. /\ SamePolicy(e, Begin(e))
      /\ Begin(e).run = e.run + 1 /\ Begin(e).parked = e.parked
  BY DEF Begin, Entry, SamePolicy
<1> QED BY <1>2, <1>3, <1>4

\* What the end of a run does to it.
LEMMA Finishing ==
  ASSUME NEW e \in Entry, NEW t \in Thread
  PROVE  /\ Finished(e, t) \in Entry
         /\ SamePolicy(e, Finished(e, t))
         /\ Finished(e, t).run = e.run
         /\ t.kind = "process" =>
              /\ ~Finished(e, t).running
              /\ Finished(e, t).parked = IF e.held THEN e.parked \cup {t.run} ELSE e.parked
         /\ t.kind = "reader" =>
              /\ Finished(e, t).running = e.running
              /\ Finished(e, t).held = (e.held /\ ~(e.running /\ t.run = e.run))
              /\ Finished(e, t).parked = e.parked \ {t.run}
<1>1. t.run \in Runs /\ t.kind \in {"process", "reader"} BY DEF Thread
<1>2. CASE t.kind = "process" BY <1>1, <1>2 DEF Finished, Entry, SamePolicy
<1>3. CASE t.kind = "reader" BY <1>1, <1>3 DEF Finished, Entry, SamePolicy
<1> QED BY <1>1, <1>2, <1>3

\* A new entry is well shaped.
LEMMA Entering ==
  ASSUME NEW origin \in {"configured", "dynamic"}, NEW revision \in Nat,
         NEW deps \in SUBSET Ids, NEW lease \in {"none", "unbounded", "ahead", "due"}
  PROVE  /\ NewEntry(origin, revision, deps, lease) \in Entry
         /\ NewEntry(origin, revision, deps, lease).origin = origin
         /\ NewEntry(origin, revision, deps, lease).deps = deps
         /\ NewEntry(origin, revision, deps, lease).retired = "no"
         /\ NewEntry(origin, revision, deps, lease).wanted = "enabled"
         /\ NewEntry(origin, revision, deps, lease).parked = {}
  BY DEF NewEntry, Entry

\* The lease that a definition grants.
LEMMA Granting == \A lease : Granted(lease) \in {"none", "unbounded", "ahead", "due"}
  BY DEF Granted

\* What a replaced definition does to the entry.
LEMMA Replacing ==
  ASSUME NEW e \in Entry, NEW request, request.deps \in SUBSET Ids
  PROVE  /\ Replaced(e, request) \in Entry
         /\ SameRun(e, Replaced(e, request))
         /\ Replaced(e, request).origin = e.origin
         /\ Replaced(e, request).deps = request.deps
         /\ Replaced(e, request).retired = "no"
<1>1. Enabled(e) \in Entry BY Enabling
<1>2. Granted(request.lease) \in {"none", "unbounded", "ahead", "due"} BY Granting
<1> DEFINE Revised(g, lease) ==
      [g EXCEPT !.retired = "no", !.revision = @ + 1, !.deps = request.deps, !.lease = lease]
<1>3. \A g \in Entry : \A lease \in {"none", "unbounded", "ahead", "due"} :
        /\ Revised(g, lease) \in Entry /\ SameRun(g, Revised(g, lease))
        /\ Revised(g, lease).origin = g.origin /\ Revised(g, lease).deps = request.deps
        /\ Revised(g, lease).retired = "no"
  <2> TAKE g \in Entry
  <2> TAKE lease \in {"none", "unbounded", "ahead", "due"}
  <2>1. g.revision + 1 \in Nat BY DEF Entry
  <2> QED BY <2>1 DEF Entry, SameRun
<1>4. Replaced(e, request) = Revised(Enabled(e), Granted(request.lease)) BY DEF Replaced
<1> HIDE DEF Revised
<1> QED BY <1>1, <1>2, <1>3, <1>4, Enabling DEF SameRun

\* Over and With.
LEMMA OverOf ==
  ASSUME NEW f, NEW r
  PROVE  /\ DOMAIN Over(f, r) = DOMAIN f \cup DOMAIN r
         /\ \A s \in DOMAIN f : Over(f, r)[s] = f[s]
         /\ \A s \in DOMAIN r \ DOMAIN f : Over(f, r)[s] = r[s]
  BY DEF Over

\* The roster with one entry changed.
LEMMA WithOf ==
  ASSUME NEW r, NEW s, NEW e
  PROVE  /\ DOMAIN With(r, s, e) = DOMAIN r \cup {s}
         /\ With(r, s, e)[s] = e
         /\ \A t \in DOMAIN r \ {s} : With(r, s, e)[t] = r[t]
  BY DEF With, Over

\* The dependency graph of a roster.
LEMMA DepsOfOf ==
  ASSUME NEW r
  PROVE  DOMAIN DepsOf(r) = DOMAIN r /\ \A s \in DOMAIN r : DepsOf(r)[s] = r[s].deps
  BY DEF DepsOf
-----------------------------------------------------------------------------
(* The shape of the state.                                                  *)

\* A configuration file's services have a sound graph among themselves.
LEMMA FileOf ==
  ASSUME RosterAssumption, NEW f \in Files
  PROVE  /\ Sound(f)
         /\ f = [s \in DOMAIN f |-> f[s]]
         /\ DOMAIN f \in SUBSET Ids
         /\ \A s \in DOMAIN f : f[s] \subseteq DOMAIN f /\ f[s] \in SUBSET Ids
<1>1. Sound(f) BY DEF RosterAssumption
<1>2. PICK S \in SUBSET Ids : f \in [S -> SUBSET S] BY DEF RosterAssumption
<1> QED BY <1>1, <1>2

\* One entry changes, and stays an entry.
Alone(s) ==
  DOMAIN roster' = DOMAIN roster /\ \A t \in DOMAIN roster \ {s} : roster'[t] = roster[t]

\* A change of one entry that leaves the rest alone.
LEMMA AloneOf ==
  ASSUME NEW s \in DOMAIN roster, NEW g, roster' = [roster EXCEPT ![s] = g]
  PROVE  Alone(s) /\ roster'[s] = g
  BY DEF Alone

\* Such a change keeps the roster in shape if it does so of the entry.
LEMMA ShapedAlone ==
  ASSUME Shaped, NEW s \in DOMAIN roster, Alone(s), roster'[s] \in Entry
  PROVE  DOMAIN roster' \subseteq Ids /\ \A t \in DOMAIN roster' : roster'[t] \in Entry
  BY DEF Shaped, Alone

\* A policy is given to an entry, whose runs go on as they are.
Governed(s) ==
  /\ s \in DOMAIN roster /\ Alone(s)
  /\ roster'[s] \in Entry /\ SameRun(roster[s], roster'[s])
  /\ UNCHANGED <<threads, births>>

\* What a stop does to the roster.
LEMMA StopEffect ==
  ASSUME Shaped, NEW s \in DOMAIN roster, StopDynamic(s)
  PROVE  /\ Governed(s)
         /\ roster'[s].deps = roster[s].deps
         /\ roster'[s].retired = "stopped" /\ roster'[s].wanted = "disabled"
<1>1. Alone(s) /\ roster'[s] = Retire(roster[s], "stopped") /\ UNCHANGED <<threads, births>>
  BY AloneOf DEF StopDynamic
<1>2. roster[s] \in Entry BY DEF Shaped
<1> QED BY <1>1, <1>2, Retiring DEF Governed

\* What the renewal or the lapse of a lease does to it.
LEMMA LeaseEffect ==
  ASSUME Shaped, NEW s \in DOMAIN roster, NEW lease,
         RenewDynamic(s, lease) \/ LeaseElapses(s)
  PROVE  Governed(s) /\ SamePolicy(roster[s], roster'[s])
<1>1. PICK l \in {"none", "unbounded", "ahead", "due"} :
        /\ roster' = [roster EXCEPT ![s] = [roster[s] EXCEPT !.lease = l]]
        /\ UNCHANGED <<threads, births>>
  BY Granting DEF RenewDynamic, LeaseElapses
<1>2. Alone(s) /\ roster'[s] = [roster[s] EXCEPT !.lease = l] BY <1>1, AloneOf
<1>3. roster[s] \in Entry BY DEF Shaped
<1>4. \A e \in Entry :
        LET g == [e EXCEPT !.lease = l] IN g \in Entry /\ SameRun(e, g) /\ SamePolicy(e, g)
  BY DEF Entry, SameRun, SamePolicy
<1> QED BY <1>1, <1>2, <1>3, <1>4 DEF Governed

\* What a disable does to the roster.
LEMMA DisableEffect ==
  ASSUME Shaped, NEW s \in DOMAIN roster, DisableService(s)
  PROVE  /\ Governed(s)
         /\ roster'[s].deps = roster[s].deps
         /\ roster'[s].retired = roster[s].retired /\ roster'[s].wanted = "disabled"
<1>1. /\ roster' = [roster EXCEPT ![s] = [roster[s] EXCEPT !.wanted = "disabled"]]
      /\ UNCHANGED <<threads, births>>
  BY DEF DisableService
<1>2. Alone(s) /\ roster'[s] = [roster[s] EXCEPT !.wanted = "disabled"] BY <1>1, AloneOf
<1>3. roster[s] \in Entry BY DEF Shaped
<1>4. \A e \in Entry :
        LET g == [e EXCEPT !.wanted = "disabled"]
        IN  /\ g \in Entry /\ SameRun(e, g)
            /\ g.deps = e.deps /\ g.retired = e.retired /\ g.wanted = "disabled"
  BY DEF Entry, SameRun
<1> QED BY <1>1, <1>2, <1>3, <1>4 DEF Governed

\* What a replaced definition does to the roster.
LEMMA ReplaceEffect ==
  ASSUME RosterAssumption, Shaped, NEW request \in DynamicRequests, NEW key,
         ReplaceDynamic(request, key)
  PROVE  /\ Governed(request.service)
         /\ ValidCandidate(request.service, request.deps)
         /\ roster'[request.service].deps = request.deps
         /\ roster'[request.service].retired = "no"
<1> DEFINE s == request.service
<1>1. s \in DOMAIN roster /\ roster[s] \in Entry BY DEF ReplaceDynamic, Dynamic, Shaped
<1>2. request.deps \in SUBSET Ids BY DEF DynamicRequests, RosterAssumption
<1>3. /\ roster' = [roster EXCEPT ![s] = Replaced(roster[s], request)]
      /\ UNCHANGED <<threads, births>> /\ ValidCandidate(s, request.deps)
  BY DEF ReplaceDynamic
<1>4. Alone(s) /\ roster'[s] = Replaced(roster[s], request)
  BY <1>1, <1>3, AloneOf
<1> HIDE DEF s
<1> QED BY <1>1, <1>2, <1>3, <1>4, Replacing DEF Governed, s
\* A run of an entry begins or ends, whose policy stays as it is.
Ran(s) ==
  /\ s \in DOMAIN roster /\ Alone(s)
  /\ roster'[s] \in Entry /\ SamePolicy(roster[s], roster'[s])
  /\ UNCHANGED births

\* What a launch does to the roster.
LEMMA LaunchEffect ==
  ASSUME Shaped, NEW s \in DOMAIN roster, Launch(s)
  PROVE  /\ Ran(s)
         /\ ~roster[s].running /\ roster'[s] = Begin(roster[s])
         /\ threads' = threads \cup
              [kind : {"process", "reader"}, service : {s}, run : {roster[s].run + 1},
               ended : {FALSE}, birth : {births[s]}]
<1>1. roster[s] \in Entry BY DEF Shaped
<1>2. Alone(s) /\ roster'[s] = Begin(roster[s]) BY AloneOf DEF Launch
<1> QED BY <1>1, <1>2, Beginning DEF Ran, Launch

\* What a launch that fails does to the roster.
LEMMA LaunchFailsEffect ==
  ASSUME Shaped, NEW s \in DOMAIN roster, LaunchFails(s)
  PROVE  /\ Ran(s)
         /\ UNCHANGED threads
         /\ ~roster[s].running /\ ~roster'[s].running
         /\ roster'[s].run = roster[s].run + 1
         /\ roster'[s].held = roster[s].held /\ roster'[s].parked = roster[s].parked
<1>1. roster' = [roster EXCEPT ![s] = [roster[s] EXCEPT !.run = roster[s].run + 1]]
  BY DEF LaunchFails
<1>2. Alone(s) /\ roster'[s] = [roster[s] EXCEPT !.run = roster[s].run + 1] BY <1>1, AloneOf
<1>3. roster[s] \in Entry BY DEF Shaped
<1>4. \A e \in Entry :
        LET g == [e EXCEPT !.run = e.run + 1]
        IN  /\ g \in Entry /\ SamePolicy(e, g)
            /\ g.running = e.running /\ g.run = e.run + 1
            /\ g.held = e.held /\ g.parked = e.parked
  BY DEF Entry, SamePolicy
<1> QED BY <1>2, <1>3, <1>4 DEF Ran, LaunchFails

\* The report of a thread that the entry knows, or of one that it does not.
LEMMA EventEffect ==
  ASSUME Shaped, NEW t \in threads, HandleEvent(t)
  PROVE  /\ threads' = threads \ {t} /\ UNCHANGED births
         /\ (t.service \in DOMAIN roster /\ Concerns(roster[t.service], t)) =>
              (Ran(t.service) /\ roster'[t.service] = Finished(roster[t.service], t))
         /\ ~(t.service \in DOMAIN roster /\ Concerns(roster[t.service], t)) => UNCHANGED roster
<1>1. t \in Thread BY DEF Shaped
<1>2. ASSUME t.service \in DOMAIN roster, Concerns(roster[t.service], t)
      PROVE  Ran(t.service) /\ roster'[t.service] = Finished(roster[t.service], t)
  <2> DEFINE s == t.service
  <2>1. roster' = [roster EXCEPT ![s] = Finished(roster[s], t)] /\ UNCHANGED births
    BY <1>2 DEF HandleEvent
  <2>2. Alone(s) /\ roster'[s] = Finished(roster[s], t) BY <1>2, <2>1, AloneOf
  <2>3. roster[s] \in Entry BY <1>2 DEF Shaped
  <2> QED BY <1>1, <1>2, <2>1, <2>2, <2>3, Finishing DEF Ran
<1>3. ASSUME ~(t.service \in DOMAIN roster /\ Concerns(roster[t.service], t))
      PROVE  UNCHANGED roster
  BY <1>3 DEF HandleEvent
<1> QED BY <1>2, <1>3 DEF HandleEvent

\* What a new definition does to the roster.
LEMMA StartEffect ==
  ASSUME RosterAssumption, Shaped, NEW request \in DynamicRequests, NEW key,
         StartDynamic(request, key)
  PROVE  LET s == request.service
         IN  /\ s \in Ids /\ s \notin DOMAIN roster
             /\ ValidCandidate(s, request.deps)
             /\ DOMAIN roster' = DOMAIN roster \cup {s}
             /\ \A t \in DOMAIN roster : roster'[t] = roster[t]
             /\ roster'[s] \in Entry
             /\ roster'[s].deps = request.deps /\ roster'[s].retired = "no"
             /\ roster'[s].parked = {}
             /\ UNCHANGED threads
             /\ births' \in [Ids -> Nat] /\ \A t \in Ids \ {s} : births'[t] = births[t]
<1> DEFINE s == request.service
           e == NewEntry("dynamic", 1, request.deps, Granted(request.lease))
<1>1. s \in Ids /\ request.deps \in SUBSET Ids BY DEF DynamicRequests, RosterAssumption
<1>2. e \in Entry /\ e.deps = request.deps /\ e.retired = "no" /\ e.parked = {}
  <2> Granted(request.lease) \in {"none", "unbounded", "ahead", "due"} BY Granting
  <2> QED BY <1>1, Entering
<1>3. /\ s \notin DOMAIN roster /\ ValidCandidate(s, request.deps)
      /\ roster' = With(roster, s, e)
      /\ births' = [births EXCEPT ![s] = births[s] + 1]
      /\ UNCHANGED threads
  BY DEF StartDynamic
<1>4. births' \in [Ids -> Nat] /\ \A t \in Ids \ {s} : births'[t] = births[t]
  BY <1>1, <1>3 DEF Shaped
<1> HIDE DEF s, e
<1>5. /\ DOMAIN roster' = DOMAIN roster \cup {s} /\ roster'[s] = e
      /\ \A t \in DOMAIN roster \ {s} : roster'[t] = roster[t]
  <2> roster' = With(roster, s, e) BY <1>3
  <2> QED BY DEF With, Over
<1> QED BY <1>1, <1>2, <1>3, <1>4, <1>5 DEF s

\* What the end of a lease does to the roster.
LEMMA ExpireEffect ==
  ASSUME Shaped, ExpireDue
  PROVE  /\ DOMAIN roster' = DOMAIN roster /\ UNCHANGED <<threads, births>>
         /\ \A s \in DOMAIN roster :
              /\ roster'[s] \in Entry /\ SameRun(roster[s], roster'[s])
              /\ roster'[s].deps = roster[s].deps
              /\ \/ (roster'[s].retired = "expired" /\ roster'[s].wanted = "disabled")
                 \/ roster'[s] = roster[s]
<1>1. /\ DOMAIN roster' = DOMAIN roster /\ UNCHANGED <<threads, births>>
      /\ \A s \in DOMAIN roster :
           roster'[s] = IF s \in Due THEN Retire(roster[s], "expired") ELSE roster[s]
  BY DEF ExpireDue
<1>2. ASSUME NEW s \in DOMAIN roster
      PROVE  /\ roster'[s] \in Entry /\ SameRun(roster[s], roster'[s])
             /\ roster'[s].deps = roster[s].deps
             /\ \/ (roster'[s].retired = "expired" /\ roster'[s].wanted = "disabled")
                \/ roster'[s] = roster[s]
  <2>1. roster[s] \in Entry BY DEF Shaped
  <2>2. CASE s \in Due BY <1>1, <2>1, <2>2, Retiring
  <2>3. CASE s \notin Due BY <1>1, <2>1, <2>3 DEF SameRun
  <2> QED BY <2>2, <2>3
<1> QED BY <1>1, <1>2

\* What an eviction does to the roster.
LEMMA EvictEffect ==
  ASSUME Evict
  PROVE  \E s \in Evictable :
           /\ s \in DOMAIN roster /\ roster' = Restrict(roster, DOMAIN roster \ {s})
           /\ DOMAIN roster' = DOMAIN roster \ {s}
           /\ \A t \in DOMAIN roster' : roster'[t] = roster[t]
           /\ UNCHANGED <<threads, births>>
  BY DEF Evict, Evictable, Retired, Restrict
\* An entry that is given dependencies.
LEMMA Defining ==
  ASSUME NEW e \in Entry, NEW d \in SUBSET Ids
  PROVE  /\ [e EXCEPT !.deps = d] \in Entry
         /\ SameRun(e, [e EXCEPT !.deps = d])
         /\ [e EXCEPT !.deps = d].deps = d
         /\ [e EXCEPT !.deps = d].origin = e.origin
         /\ [e EXCEPT !.deps = d].retired = e.retired
         /\ [e EXCEPT !.deps = d].wanted = e.wanted
  BY DEF Entry, SameRun

\* What a reload does to the roster.
LEMMA ReloadEffect ==
  ASSUME RosterAssumption, Shaped, NEW f \in Files, ReloadSucceeds(f)
  PROVE  /\ stage = "await" /\ DOMAIN f = LiveConfigured /\ Sound(Over(f, DepsOf(roster)))
         /\ DOMAIN roster' = DOMAIN roster /\ UNCHANGED <<threads, births>>
         /\ \A s \in DOMAIN roster :
              /\ roster'[s] \in Entry /\ SameRun(roster[s], roster'[s])
              /\ roster'[s].retired = roster[s].retired
              /\ roster'[s].deps = IF s \in DOMAIN f THEN f[s] ELSE roster[s].deps
              /\ s \notin Targets => roster'[s].wanted = roster[s].wanted
<1> DEFINE Defined(s) == IF s \in DOMAIN f THEN [roster[s] EXCEPT !.deps = f[s]] ELSE roster[s]
<1>1. /\ stage = "await" /\ DOMAIN f = LiveConfigured /\ Sound(Over(f, DepsOf(roster)))
      /\ DOMAIN roster' = DOMAIN roster /\ UNCHANGED <<threads, births>>
      /\ \A s \in DOMAIN roster :
           roster'[s] = IF s \in Targets THEN Enabled(Defined(s)) ELSE Defined(s)
  BY DEF ReloadSucceeds, MayReload
<1>2. ASSUME NEW s \in DOMAIN roster
      PROVE  /\ Defined(s) \in Entry /\ SameRun(roster[s], Defined(s))
             /\ Defined(s).retired = roster[s].retired
             /\ Defined(s).deps = IF s \in DOMAIN f THEN f[s] ELSE roster[s].deps
             /\ Defined(s).wanted = roster[s].wanted
  <2>1. roster[s] \in Entry BY DEF Shaped
  <2>2. CASE s \in DOMAIN f
    <3>1. f[s] \in SUBSET Ids BY <2>2, FileOf
    <3>2. Defined(s) = [roster[s] EXCEPT !.deps = f[s]] BY <2>2
    <3> HIDE DEF Defined
    <3> QED BY <2>1, <2>2, <3>1, <3>2, Defining
  <2>3. CASE s \notin DOMAIN f BY <2>1, <2>3 DEF SameRun
  <2> QED BY <2>2, <2>3
<1> HIDE DEF Defined
<1>3. ASSUME NEW s \in DOMAIN roster
      PROVE  /\ roster'[s] \in Entry /\ SameRun(roster[s], roster'[s])
             /\ roster'[s].retired = roster[s].retired
             /\ roster'[s].deps = IF s \in DOMAIN f THEN f[s] ELSE roster[s].deps
             /\ s \notin Targets => roster'[s].wanted = roster[s].wanted
  <2>1. CASE s \in Targets
    <3>1. roster'[s] = Enabled(Defined(s)) BY <1>1, <2>1
    <3>2. /\ Enabled(Defined(s)) \in Entry
          /\ SameRun(Defined(s), Enabled(Defined(s)))
          /\ Enabled(Defined(s)).deps = Defined(s).deps
          /\ Enabled(Defined(s)).retired = Defined(s).retired
      BY <1>2, Enabling
    <3> QED BY <1>2, <2>1, <3>1, <3>2 DEF SameRun
  <2>2. CASE s \notin Targets BY <1>1, <1>2, <2>2
  <2> QED BY <2>1, <2>2
<1> QED BY <1>1, <1>3

\* The entry that reconciliation leaves.
LEMMA ReconciledOf ==
  ASSUME RosterAssumption, Shaped, NEW f \in Files, NEW startup, NEW s \in DOMAIN roster \cup DOMAIN f
  PROVE  /\ s \in RemovedBy(f) =>
              /\ Reconciled(f, s, startup) \in Entry
              /\ SameRun(roster[s], Reconciled(f, s, startup))
              /\ Reconciled(f, s, startup).deps = roster[s].deps
              /\ Reconciled(f, s, startup).wanted = "disabled"
         /\ (s \notin RemovedBy(f) /\ s \notin DOMAIN f) => Reconciled(f, s, startup) = roster[s]
         /\ s \in DOMAIN f =>
              /\ Reconciled(f, s, startup) \in Entry
              /\ Reconciled(f, s, startup).retired = "no"
              /\ Reconciled(f, s, startup).deps = f[s]
              /\ s \in DOMAIN roster => SameRun(roster[s], Reconciled(f, s, startup))
              /\ s \notin DOMAIN roster => Reconciled(f, s, startup).parked = {}
<1> DEFINE g == Reconciled(f, s, startup)
           mode == IF s \in startup THEN "enabled" ELSE "disabled"
<1>1. s \in DOMAIN roster => roster[s] \in Entry BY DEF Shaped
<1>2. s \in DOMAIN f => f[s] \in SUBSET Ids BY FileOf
<1>3. CASE s \in RemovedBy(f)
  <2>1. s \in DOMAIN roster /\ s \notin DOMAIN f BY <1>3 DEF RemovedBy, LiveConfigured
  <2>2. g = Retire(roster[s], "removed") BY <1>3 DEF Reconciled
  <2> HIDE DEF g
  <2>3. g \in Entry /\ SameRun(roster[s], g) /\ g.deps = roster[s].deps /\ g.wanted = "disabled"
    BY <1>1, <2>1, <2>2, Retiring
  <2> QED BY <1>3, <2>1, <2>3 DEF g
<1>4. CASE s \notin RemovedBy(f) /\ s \notin DOMAIN f
  <2> g = roster[s] BY <1>4 DEF Reconciled
  <2> QED BY <1>4
<1>5. CASE s \in DOMAIN f /\ s \notin DOMAIN roster
  <2>1. s \notin RemovedBy(f) BY <1>5 DEF RemovedBy
  <2> DEFINE e == NewEntry("configured", 0, f[s], "none")
  <2>2. g = [e EXCEPT !.wanted = mode] BY <1>5, <2>1 DEF Reconciled
  <2>3. e \in Entry /\ e.deps = f[s] /\ e.retired = "no" /\ e.parked = {}
    BY <1>2, <1>5, Entering
  <2>4. mode \in {"enabled", "disabled"} OBVIOUS
  <2> HIDE DEF e, g, mode
  <2>5. g \in Entry /\ g.retired = "no" /\ g.deps = f[s] /\ g.parked = {}
    BY <2>2, <2>3, <2>4 DEF Entry
  <2> QED BY <1>5, <2>1, <2>5 DEF g
<1>6. CASE s \in DOMAIN f /\ s \in Retired
  <2>1. s \notin RemovedBy(f) /\ s \in DOMAIN roster BY <1>6 DEF RemovedBy, Retired
  <2>2. g = [roster[s] EXCEPT !.retired = "no", !.lease = "none", !.wanted = mode, !.deps = f[s]]
    BY <1>6, <2>1 DEF Reconciled
  <2>3. mode \in {"enabled", "disabled"} OBVIOUS
  <2> HIDE DEF g, mode
  <2>4. \A e \in Entry : \A d \in SUBSET Ids :
          LET h == [e EXCEPT !.retired = "no", !.lease = "none", !.wanted = mode, !.deps = d]
          IN  h \in Entry /\ h.retired = "no" /\ h.deps = d /\ SameRun(e, h)
    <3> SUFFICES ASSUME NEW e \in Entry, NEW d \in SUBSET Ids
                 PROVE  LET h == [e EXCEPT !.retired = "no", !.lease = "none", !.wanted = mode, !.deps = d]
                        IN  h \in Entry /\ h.retired = "no" /\ h.deps = d /\ SameRun(e, h)
      OBVIOUS
    <3> DEFINE h == [e EXCEPT !.retired = "no", !.lease = "none", !.wanted = mode, !.deps = d]
    <3>1. h \in Entry  BY <2>3 DEF Entry
    <3>2. h.retired = "no" /\ h.deps = d  BY DEF Entry
    <3>3. SameRun(e, h)  BY DEF Entry, SameRun
    <3> QED BY <3>1, <3>2, <3>3
  <2>5. g \in Entry /\ g.retired = "no" /\ g.deps = f[s] /\ SameRun(roster[s], g)
    BY <1>1, <1>2, <1>6, <2>1, <2>2, <2>4
  <2> QED BY <1>6, <2>1, <2>5 DEF g
<1>7. CASE s \in DOMAIN f /\ s \in DOMAIN roster /\ s \notin Retired
  <2>1. s \notin RemovedBy(f) BY <1>7 DEF RemovedBy
  <2>2. g = [roster[s] EXCEPT !.deps = f[s]] BY <1>7, <2>1 DEF Reconciled
  <2>3. roster[s].retired = "no" BY <1>7 DEF Retired, IsLive
  <2> HIDE DEF g
  <2>4. g \in Entry /\ g.retired = "no" /\ g.deps = f[s] /\ SameRun(roster[s], g)
    BY <1>1, <1>2, <1>7, <2>2, <2>3, Defining
  <2> QED BY <1>7, <2>1, <2>4 DEF g
<1> QED BY <1>3, <1>4, <1>5, <1>6, <1>7

\* What reconciliation does to the roster.
LEMMA ReconcileEffect ==
  ASSUME RosterAssumption, Shaped, NEW f \in Files, NEW startup, Reconcile(f, startup)
  PROVE  /\ MayReconcile(f)
         /\ DOMAIN roster' = DOMAIN roster \cup DOMAIN f
         /\ \A s \in DOMAIN roster' : roster'[s] = Reconciled(f, s, startup)
         /\ UNCHANGED threads
         /\ births' \in [Ids -> Nat] /\ \A s \in DOMAIN roster : births'[s] = births[s]
<1>1. births' = [s \in Ids |-> IF s \in DOMAIN f \ DOMAIN roster THEN births[s] + 1 ELSE births[s]]
  BY DEF Reconcile, Shaped
<1>2. births' \in [Ids -> Nat] BY <1>1 DEF Shaped
<1>3. \A s \in DOMAIN roster : births'[s] = births[s] BY <1>1 DEF Shaped
<1> QED BY <1>2, <1>3 DEF Reconcile
\* The kinds of steps.
LEMMA Steps ==
  ASSUME RosterNext
  PROVE  \/ UNCHANGED <<roster, threads, births>>
         \/ Evict
         \/ \E t \in threads : ThreadEnds(t) \/ HandleEvent(t)
         \/ \E s \in DOMAIN roster : Launch(s) \/ LaunchFails(s)
         \/ \E request \in DynamicRequests, key \in Keys \cup {NoKey} :
              StartDynamic(request, key) \/ ReplaceDynamic(request, key)
         \/ \E s \in DOMAIN roster : StopDynamic(s) \/ DisableService(s)
         \/ \E s \in DOMAIN roster : \E lease : RenewDynamic(s, lease) \/ LeaseElapses(s)
         \/ ExpireDue
         \/ \E f \in Files : ReloadSucceeds(f) \/ \E startup : Reconcile(f, startup)
<1>1. CASE LoopStep BY <1>1 DEF LoopStep, Wake, EvictDone, SchedulePass, PassEnds
<1>2. CASE DynamicStep BY <1>2 DEF DynamicStep
<1>3. CASE CommandStep BY <1>3 DEF CommandStep, Await
<1>4. CASE FileStep BY <1>4 DEF FileStep, LoadFails
<1>5. CASE \E s \in DOMAIN roster : Launch(s) \/ LaunchFails(s) BY <1>5
<1>6. CASE \E t \in threads : ThreadEnds(t) \/ HandleEvent(t) BY <1>6
<1>7. CASE ExpireDue BY <1>7
<1> QED BY <1>1, <1>2, <1>3, <1>4, <1>5, <1>6, <1>7 DEF RosterNext

\* Every step keeps the roster in shape.
LEMMA RosterTyped ==
  ASSUME RosterAssumption, Shaped, RosterNext
  PROVE  DOMAIN roster' \subseteq Ids /\ \A s \in DOMAIN roster' : roster'[s] \in Entry
<1> DEFINE Typed == DOMAIN roster' \subseteq Ids /\ \A s \in DOMAIN roster' : roster'[s] \in Entry
<1>1. CASE UNCHANGED <<roster, threads, births>> BY <1>1 DEF Shaped
<1>2. CASE Evict BY <1>2, EvictEffect DEF Shaped
<1>3. ASSUME NEW t \in threads, ThreadEnds(t) PROVE Typed BY <1>3 DEF ThreadEnds, Shaped
<1>4. ASSUME NEW t \in threads, HandleEvent(t) PROVE Typed
  <2>1. CASE t.service \in DOMAIN roster /\ Concerns(roster[t.service], t)
    BY <1>4, <2>1, EventEffect, ShapedAlone DEF Ran
  <2>2. CASE ~(t.service \in DOMAIN roster /\ Concerns(roster[t.service], t))
    BY <1>4, <2>2, EventEffect DEF Shaped
  <2> QED BY <2>1, <2>2
<1>5. ASSUME NEW s \in DOMAIN roster, Launch(s) \/ LaunchFails(s) PROVE Typed
  <2> Ran(s) BY <1>5, LaunchEffect, LaunchFailsEffect
  <2> QED BY ShapedAlone DEF Ran
<1>6. ASSUME NEW request \in DynamicRequests, NEW key, StartDynamic(request, key) PROVE Typed
  BY <1>6, StartEffect DEF Shaped
<1>7. ASSUME NEW s, Governed(s) PROVE Typed BY <1>7, ShapedAlone DEF Governed
<1>8. CASE ExpireDue BY <1>8, ExpireEffect DEF Shaped
<1>9. ASSUME NEW f \in Files, ReloadSucceeds(f) PROVE Typed BY <1>9, ReloadEffect DEF Shaped
<1>10. ASSUME NEW f \in Files, NEW startup, Reconcile(f, startup) PROVE Typed
  <2>1. /\ DOMAIN roster' = DOMAIN roster \cup DOMAIN f
        /\ \A s \in DOMAIN roster' : roster'[s] = Reconciled(f, s, startup)
    BY <1>10, ReconcileEffect
  <2>2. DOMAIN f \subseteq Ids /\ DOMAIN roster \subseteq Ids BY FileOf DEF Shaped
  <2>3. ASSUME NEW s \in DOMAIN roster' PROVE roster'[s] \in Entry
    <3>1. s \in DOMAIN roster \cup DOMAIN f BY <2>1
    <3>2. s \notin DOMAIN f => roster[s] \in Entry BY <3>1 DEF Shaped
    <3>3. Reconciled(f, s, startup) \in Entry BY <3>1, <3>2, ReconciledOf
    <3> QED BY <2>1, <3>3
  <2> QED BY <2>1, <2>2, <2>3
<1> HIDE DEF Typed
<1>11. ASSUME NEW s \in DOMAIN roster, StopDynamic(s) \/ DisableService(s) PROVE Typed
  BY <1>11, <1>7, StopEffect, DisableEffect
<1>12. ASSUME NEW s \in DOMAIN roster, NEW lease, RenewDynamic(s, lease) \/ LeaseElapses(s)
       PROVE  Typed
  BY <1>12, <1>7, LeaseEffect
<1>13. ASSUME NEW request \in DynamicRequests, NEW key, ReplaceDynamic(request, key) PROVE Typed
  BY <1>13, <1>7, ReplaceEffect
<1>14. Typed
  BY <1>1, <1>2, <1>3, <1>4, <1>5, <1>6, <1>8, <1>9, <1>10, <1>11, <1>12, <1>13, Steps DEF Typed
<1> QED BY <1>14 DEF Typed
\* Every step keeps the runs and their readers in shape.
LEMMA ThreadsTyped ==
  ASSUME RosterAssumption, Shaped, RosterNext
  PROVE  threads' \subseteq Thread /\ births' \in [Ids -> Nat]
<1> DEFINE Typed == threads' \subseteq Thread /\ births' \in [Ids -> Nat]
<1> SUFFICES Typed OBVIOUS
<1>1. CASE UNCHANGED <<threads, births>> BY <1>1 DEF Shaped
<1>2. ASSUME NEW t \in threads, ThreadEnds(t) PROVE Typed
  <2>1. t \in Thread BY DEF Shaped
  <2>2. [t EXCEPT !.ended = TRUE] \in Thread BY <2>1 DEF Thread
  <2> QED BY <1>2, <2>2 DEF ThreadEnds, Shaped
<1>3. ASSUME NEW t \in threads, HandleEvent(t) PROVE Typed BY <1>3 DEF HandleEvent, Shaped
<1>4. ASSUME NEW s \in DOMAIN roster, Launch(s) PROVE Typed
  <2>1. roster[s].run + 1 \in Runs /\ births[s] \in Nat /\ s \in Ids
    BY DEF Shaped, Entry, Runs
  <2>2. [kind : {"process", "reader"}, service : {s}, run : {roster[s].run + 1},
         ended : {FALSE}, birth : {births[s]}] \subseteq Thread
    BY <2>1 DEF Thread
  <2> QED BY <1>4, <2>2 DEF Launch, Shaped
<1>5. ASSUME NEW s \in DOMAIN roster, LaunchFails(s) PROVE Typed
  BY <1>5 DEF LaunchFails, Shaped
<1>6. ASSUME NEW request \in DynamicRequests, NEW key, StartDynamic(request, key) PROVE Typed
  BY <1>6, StartEffect DEF Shaped
<1>7. ASSUME NEW f \in Files, NEW startup, Reconcile(f, startup) PROVE Typed
  BY <1>7, ReconcileEffect DEF Shaped
<1> HIDE DEF Typed
<1>8. CASE Evict BY <1>1, <1>8 DEF Evict
<1>9. ASSUME NEW s \in DOMAIN roster, StopDynamic(s) \/ DisableService(s) PROVE Typed
  BY <1>1, <1>9 DEF StopDynamic, DisableService
<1>10. ASSUME NEW s \in DOMAIN roster, NEW lease, RenewDynamic(s, lease) \/ LeaseElapses(s)
       PROVE  Typed
  BY <1>1, <1>10 DEF RenewDynamic, LeaseElapses
<1>11. ASSUME NEW request \in DynamicRequests, NEW key, ReplaceDynamic(request, key) PROVE Typed
  BY <1>1, <1>11 DEF ReplaceDynamic
<1>12. CASE ExpireDue BY <1>1, <1>12 DEF ExpireDue
<1>13. ASSUME NEW f \in Files, ReloadSucceeds(f) PROVE Typed BY <1>1, <1>13 DEF ReloadSucceeds
<1> QED
  BY <1>1, <1>2, <1>3, <1>4, <1>5, <1>6, <1>7, <1>8, <1>9, <1>10, <1>11, <1>12, <1>13, Steps

\* A step that waits for the file begins to with what it checked, or goes on.
LEMMA ControlStep ==
  ASSUME Shaped, TargetsLive, RosterNext
  PROVE  /\ stage' \in {"select", "await", "evict", "evictQuiet", "schedule", "launch"}
         /\ pending' \in Pending
         /\ TargetsLive'
<1> DEFINE Controlled ==
      /\ stage' \in {"select", "await", "evict", "evictQuiet", "schedule", "launch"}
      /\ pending' \in Pending
      /\ TargetsLive'
<1> SUFFICES Controlled OBVIOUS
<1>1. NoCommand \in Pending BY DEF NoCommand, Pending
<1>2. ASSUME Scheduling \/ Quiet PROVE Controlled
  BY <1>1, <1>2 DEF Scheduling, Quiet, TargetsLive
<1>3. ASSUME UNCHANGED <<stage, pending>>, DOMAIN roster \subseteq DOMAIN roster',
             \A s \in DOMAIN roster : IsLive(roster[s]) => IsLive(roster'[s])
      PROVE  Controlled
  BY <1>3 DEF TargetsLive, Shaped
<1>4. ASSUME UNCHANGED pending, stage' \in {"select", "schedule", "launch"} PROVE Controlled
  BY <1>4 DEF TargetsLive, Shaped
<1>5. ASSUME UNCHANGED <<stage, pending>>, stage # "await" PROVE Controlled
  BY <1>5 DEF TargetsLive, Shaped
<1> HIDE DEF Controlled
<1>6. CASE Wake BY <1>2, <1>6 DEF Wake
<1>7. CASE Evict BY <1>5, <1>7 DEF Evict
<1>8. CASE EvictDone BY <1>4, <1>8 DEF EvictDone
<1>9. CASE SchedulePass
  <2>1. CASE stage' = "launch" /\ UNCHANGED pending BY <1>4, <2>1
  <2>2. CASE stage' = "await" /\ pending' = [kind |-> "auto", targets |-> {}]
    BY <2>2 DEF Controlled, TargetsLive, Pending
  <2> QED BY <1>9, <2>1, <2>2 DEF SchedulePass
<1>10. CASE PassEnds BY <1>4, <1>10 DEF PassEnds
<1>11. ASSUME NEW t \in threads, ThreadEnds(t) \/ HandleEvent(t) PROVE Controlled
  <2>1. CASE ThreadEnds(t) BY <1>3, <2>1 DEF ThreadEnds
  <2>2. CASE HandleEvent(t)
    <3>1. CASE stage = "await"
      <4>1. UNCHANGED <<stage, pending>> BY <2>2, <3>1 DEF HandleEvent
      <4>2. /\ DOMAIN roster \subseteq DOMAIN roster'
            /\ \A s \in DOMAIN roster : IsLive(roster[s]) => IsLive(roster'[s])
        <5>1. CASE t.service \in DOMAIN roster /\ Concerns(roster[t.service], t)
          BY <2>2, <5>1, EventEffect DEF Ran, Alone, SamePolicy, IsLive
        <5>2. CASE ~(t.service \in DOMAIN roster /\ Concerns(roster[t.service], t))
          BY <2>2, <5>2, EventEffect
        <5> QED BY <5>1, <5>2
      <4> QED BY <1>3, <4>1, <4>2
    <3>2. CASE stage # "await" BY <1>2, <2>2, <3>2 DEF HandleEvent
    <3> QED BY <3>1, <3>2
  <2> QED BY <1>11, <2>1, <2>2
<1>12. ASSUME NEW s \in DOMAIN roster, Launch(s) \/ LaunchFails(s) PROVE Controlled
  BY <1>5, <1>12 DEF Launch, LaunchFails
<1>13. ASSUME NEW request \in DynamicRequests, NEW key,
              StartDynamic(request, key) \/ ReplaceDynamic(request, key)
       PROVE  Controlled
  BY <1>2, <1>13 DEF StartDynamic, ReplaceDynamic
<1>14. ASSUME NEW s \in DOMAIN roster,
              StopDynamic(s) \/ DisableService(s) \/ \E lease \in Leases : RenewDynamic(s, lease)
       PROVE  Controlled
  BY <1>2, <1>14 DEF StopDynamic, DisableService, RenewDynamic
<1>15. ASSUME NEW s \in DOMAIN roster, LeaseElapses(s) PROVE Controlled
  <2>1. Governed(s) /\ SamePolicy(roster[s], roster'[s]) BY <1>15, LeaseEffect
  <2>2. /\ DOMAIN roster \subseteq DOMAIN roster'
        /\ \A t \in DOMAIN roster : IsLive(roster[t]) => IsLive(roster'[t])
    BY <2>1 DEF Governed, Alone, SamePolicy, IsLive
  <2> QED BY <1>3, <1>15, <2>2 DEF LeaseElapses
<1>16. CASE ExpireDue BY <1>2, <1>16 DEF ExpireDue
<1>17. ASSUME NEW s \in DOMAIN roster, NEW kind \in {"restart", "enable"},
              Await([kind |-> kind, targets |-> {s}])
       PROVE  Controlled
  <2>1. [kind |-> kind, targets |-> {s}] \in Pending BY DEF Pending, Shaped
  <2> QED BY <1>17, <2>1 DEF Await, Controlled, TargetsLive
<1>18. ASSUME NEW kind \in {"restart_all", "reconcile"}, Await([kind |-> kind, targets |-> {}])
       PROVE  Controlled
  <2>1. [kind |-> kind, targets |-> {}] \in Pending BY DEF Pending
  <2> QED BY <1>18, <2>1 DEF Await, Controlled, TargetsLive
<1>19. ASSUME (stage' = "launch" /\ pending' = NoCommand) \/ Scheduling PROVE Controlled
  BY <1>1, <1>2, <1>19 DEF Controlled, TargetsLive
<1>20. ASSUME NEW f \in Files, ReloadSucceeds(f) \/ \E startup : Reconcile(f, startup)
       PROVE  Controlled
  BY <1>19, <1>20 DEF ReloadSucceeds, Reconcile
<1>21. CASE LoadFails BY <1>19, <1>21 DEF LoadFails
<1> QED
  BY <1>6, <1>7, <1>8, <1>9, <1>10, <1>11, <1>12, <1>13, <1>14, <1>15, <1>16, <1>17, <1>18,
     <1>20, <1>21
  DEF RosterNext, LoopStep, DynamicStep, CommandStep, FileStep
-----------------------------------------------------------------------------
(* Retired services stay down.                                              *)

\* The entries may go, be retired as they should, or keep their policy.
NoneRevived ==
  /\ DOMAIN roster' \subseteq DOMAIN roster
  /\ \A s \in DOMAIN roster' :
       /\ roster'[s].deps = roster[s].deps
       /\ IsLive(roster'[s]) => IsLive(roster[s])
       /\ roster'[s].retired = "removed" => roster[s].retired = "removed"
       /\ ~IsLive(roster'[s]) => roster'[s].wanted = "disabled"

\* A retired entry stays down while nothing revives it.
LEMMA DownKept == ASSUME RetiredStaysDown, NoneRevived PROVE RetiredStaysDown'
  BY DEF NoneRevived, RetiredStaysDown, Retired

\* A change of one entry revives nothing if it does not revive that one.
LEMMA DownAlone ==
  ASSUME RetiredStaysDown, NEW s \in DOMAIN roster, Alone(s),
         roster'[s].deps = roster[s].deps,
         \/ (roster'[s].retired = "stopped" /\ roster'[s].wanted = "disabled")
         \/ (roster'[s].retired = roster[s].retired
               /\ (roster'[s].wanted = roster[s].wanted \/ roster'[s].wanted = "disabled"))
  PROVE  RetiredStaysDown'
<1> NoneRevived BY DEF NoneRevived, Alone, RetiredStaysDown, Retired, IsLive
<1> QED BY DownKept

\* A service that is created or replaced has live dependencies.
LEMMA DownValid ==
  ASSUME RetiredStaysDown, NEW s, NEW deps, ValidCandidate(s, deps),
         DOMAIN roster' = DOMAIN roster \cup {s},
         \A t \in DOMAIN roster \ {s} : roster'[t] = roster[t],
         roster'[s].deps = deps, roster'[s].retired = "no"
  PROVE  RetiredStaysDown'
  BY DEF ValidCandidate, RetiredStaysDown, Retired, IsLive

\* A reload revives nothing.
LEMMA DownReload ==
  ASSUME RosterAssumption, Shaped, TargetsLive, RetiredStaysDown, NEW f \in Files, ReloadSucceeds(f)
  PROVE  RetiredStaysDown'
<1>1. DOMAIN f = LiveConfigured /\ DOMAIN roster' = DOMAIN roster /\ stage = "await" BY ReloadEffect
<1>2. \A s \in DOMAIN roster :
        /\ roster'[s].retired = roster[s].retired
        /\ roster'[s].deps = IF s \in DOMAIN f THEN f[s] ELSE roster[s].deps
        /\ s \notin Targets => roster'[s].wanted = roster[s].wanted
  BY ReloadEffect
<1>3. \A s \in Targets : s \in DOMAIN roster /\ IsLive(roster[s])
  BY <1>1 DEF Targets, TargetsLive
<1>4. \A s \in Retired : roster'[s].wanted = "disabled"
  BY <1>2, <1>3 DEF RetiredStaysDown, Retired
<1>5. ASSUME NEW s \in DOMAIN roster, IsLive(roster[s]), NEW d \in roster'[s].deps,
             d \in DOMAIN roster
      PROVE  roster'[d].retired # "removed"
  <2>1. CASE s \in DOMAIN f
    <3>1. d \in LiveConfigured BY <1>1, <1>2, <1>5, <2>1, FileOf
    <3> QED BY <1>2, <3>1 DEF LiveConfigured, IsLive
  <2>2. CASE s \notin DOMAIN f BY <1>2, <1>5, <2>2 DEF RetiredStaysDown
  <2> QED BY <2>1, <2>2
<1> QED BY <1>1, <1>2, <1>4, <1>5 DEF RetiredStaysDown, Retired, IsLive

\* Reconciliation revives nothing.
LEMMA DownReconcile ==
  ASSUME RosterAssumption, Shaped, RetiredStaysDown, NEW f \in Files, NEW startup,
         Reconcile(f, startup)
  PROVE  RetiredStaysDown'
<1>1. /\ MayReconcile(f)
      /\ DOMAIN roster' = DOMAIN roster \cup DOMAIN f
      /\ \A s \in DOMAIN roster' : roster'[s] = Reconciled(f, s, startup)
  BY ReconcileEffect
<1>2. \A s \in DOMAIN f : s \in DOMAIN roster' /\ roster'[s].retired = "no" /\ roster'[s].deps = f[s]
  BY <1>1, ReconciledOf
<1>3. \A s \in RemovedBy(f) :
        /\ s \in DOMAIN roster /\ s \notin DOMAIN f
        /\ roster'[s].wanted = "disabled" /\ roster'[s].deps = roster[s].deps
  BY <1>1, ReconciledOf DEF RemovedBy, LiveConfigured
<1>4. \A s \in DOMAIN roster \ (DOMAIN f \cup RemovedBy(f)) : roster'[s] = roster[s]
  BY <1>1, ReconciledOf
<1>5. \A s \in RemovedBy(f) : ~IsLive(roster'[s])
  <2> SUFFICES ASSUME NEW s \in RemovedBy(f) PROVE ~IsLive(roster'[s])
    OBVIOUS
  <2>1. roster'[s] = Retire(roster[s], "removed") BY <1>1, <1>3 DEF Reconciled
  <2>2. roster[s] \in Entry BY <1>3 DEF Shaped
  <2> QED BY <2>1, <2>2, Retiring DEF IsLive
<1>6. ASSUME NEW s \in DOMAIN roster', ~IsLive(roster'[s]) PROVE roster'[s].wanted = "disabled"
  <2>1. s \notin DOMAIN f BY <1>2, <1>6 DEF IsLive
  <2>2. CASE s \in RemovedBy(f) BY <1>3, <2>2
  <2>3. CASE s \notin RemovedBy(f)
    BY <1>1, <1>4, <1>6, <2>1, <2>3 DEF RetiredStaysDown, Retired
  <2> QED BY <2>2, <2>3
<1>7. ASSUME NEW s \in DOMAIN roster', IsLive(roster'[s]), NEW d \in roster'[s].deps,
             d \in DOMAIN roster'
      PROVE  roster'[d].retired # "removed"
  <2>1. CASE s \in DOMAIN f
    <3>1. d \in DOMAIN f BY <1>2, <1>7, <2>1, FileOf
    <3> QED BY <1>2, <3>1
  <2>2. CASE s \notin DOMAIN f
    <3>1. s \in DOMAIN roster /\ s \notin RemovedBy(f) BY <1>1, <1>5, <1>7, <2>2
    <3>2. roster'[s] = roster[s] BY <1>4, <2>2, <3>1
    <3>3. s \in LiveDynamic
      <4>1. roster[s] \in Entry BY <3>1 DEF Shaped
      <4>2. roster[s].origin \in {"configured", "dynamic"} BY <4>1 DEF Entry
      <4> QED BY <1>7, <2>2, <3>1, <3>2, <4>2 DEF RemovedBy, LiveConfigured, LiveDynamic
    <3>4. d \notin RemovedBy(f) BY <1>1, <1>7, <3>2, <3>3 DEF MayReconcile
    <3>5. CASE d \in DOMAIN f BY <1>2, <3>5
    <3>6. CASE d \notin DOMAIN f
      BY <1>1, <1>4, <1>7, <3>1, <3>2, <3>4, <3>6 DEF RetiredStaysDown
    <3> QED BY <3>5, <3>6
  <2> QED BY <2>1, <2>2
<1> QED BY <1>6, <1>7 DEF RetiredStaysDown, Retired

\* No step does.
LEMMA DownStep ==
  ASSUME RosterAssumption, Shaped, TargetsLive, RetiredStaysDown, RosterNext PROVE RetiredStaysDown'
<1>1. CASE UNCHANGED <<roster, threads, births>> BY <1>1 DEF RetiredStaysDown, Retired
<1>2. CASE Evict
  <2> NoneRevived BY <1>2, EvictEffect DEF NoneRevived, RetiredStaysDown, Retired
  <2> QED BY DownKept
<1>3. ASSUME NEW s, Ran(s) PROVE RetiredStaysDown'
  BY <1>3, DownAlone DEF Ran, SamePolicy
<1>4. ASSUME NEW t \in threads, ThreadEnds(t) \/ HandleEvent(t) PROVE RetiredStaysDown'
  <2>1. CASE UNCHANGED roster BY <2>1 DEF RetiredStaysDown, Retired
  <2>2. CASE Ran(t.service) BY <1>3, <2>2
  <2> QED BY <1>4, <2>1, <2>2, EventEffect DEF ThreadEnds
<1>5. ASSUME NEW s \in DOMAIN roster, Launch(s) \/ LaunchFails(s) PROVE RetiredStaysDown'
  BY <1>3, <1>5, LaunchEffect, LaunchFailsEffect
<1>6. ASSUME NEW request \in DynamicRequests, NEW key, StartDynamic(request, key) PROVE RetiredStaysDown'
  BY <1>6, StartEffect, DownValid
<1>7. ASSUME NEW request \in DynamicRequests, NEW key, ReplaceDynamic(request, key) PROVE RetiredStaysDown'
  <2>1. /\ Governed(request.service) /\ ValidCandidate(request.service, request.deps)
        /\ roster'[request.service].deps = request.deps /\ roster'[request.service].retired = "no"
    BY <1>7, ReplaceEffect
  <2>2. /\ DOMAIN roster' = DOMAIN roster \cup {request.service}
        /\ \A t \in DOMAIN roster \ {request.service} : roster'[t] = roster[t]
    BY <2>1 DEF Governed, Alone
  <2> QED BY <2>1, <2>2, DownValid
<1>8. ASSUME NEW s \in DOMAIN roster, StopDynamic(s) PROVE RetiredStaysDown'
  BY <1>8, StopEffect, DownAlone DEF Governed
<1>9. ASSUME NEW s \in DOMAIN roster, DisableService(s) PROVE RetiredStaysDown'
  BY <1>9, DisableEffect, DownAlone DEF Governed
<1>10. ASSUME NEW s \in DOMAIN roster, NEW lease, RenewDynamic(s, lease) \/ LeaseElapses(s)
       PROVE  RetiredStaysDown'
  BY <1>10, LeaseEffect, DownAlone DEF Governed, SamePolicy
<1>11. CASE ExpireDue
  <2> NoneRevived BY <1>11, ExpireEffect DEF NoneRevived, RetiredStaysDown, Retired, IsLive
  <2> QED BY DownKept
<1>12. ASSUME NEW f \in Files, ReloadSucceeds(f) PROVE RetiredStaysDown' BY <1>12, DownReload
<1>13. ASSUME NEW f \in Files, NEW startup, Reconcile(f, startup) PROVE RetiredStaysDown'
  BY <1>13, DownReconcile
<1> QED
  BY <1>1, <1>2, <1>4, <1>5, <1>6, <1>7, <1>8, <1>9, <1>10, <1>11, <1>12, <1>13, Steps
-----------------------------------------------------------------------------
(* The reports of runs find their entry.                                    *)

\* A reader that must report is the running service's, or is parked.
ReadersHeld ==
  \A t \in threads : t.kind = "reader" =>
    LET e == roster[t.service]
    IN  t.run \in e.parked \/ (e.running /\ e.held /\ t.run = e.run)

\* Run ids are not used again while the entry is in the roster,
RunsPassed == \A s \in DOMAIN roster : \A r \in roster[s].parked : r <= roster[s].run

\* so a report is identified by its kind, its service and its run.
OnceEach ==
  \A t, u \in threads :
    (t.kind = u.kind /\ t.service = u.service /\ t.run = u.run) => t = u

Reporting == ReportsFindTheirEntry /\ ReadersHeld /\ RunsPassed /\ OnceEach

\* What an entry must say of a thread.
Knows(e, t) ==
  \/ (e.running /\ t.run = e.run /\ (t.kind = "reader" => e.held))
  \/ (t.kind = "reader" /\ t.run \in e.parked)

\* What there is to show of the reports on their way.
LEMMA ReportingOf ==
  ASSUME threads \subseteq Thread
  PROVE  Reporting <=>
           /\ \A t \in threads :
                /\ t.service \in DOMAIN roster /\ t.birth = births[t.service]
                /\ Knows(roster[t.service], t)
           /\ RunsPassed /\ OnceEach
<1> \A t \in threads : t.kind \in {"process", "reader"} BY DEF Thread
<1> QED BY DEF Reporting, ReportsFindTheirEntry, ReadersHeld, Knows, Concerns

\* A step that is not about runs.
LEMMA ReportingKept ==
  ASSUME Shaped, Reporting, UNCHANGED threads,
         \A s \in DOMAIN roster :
           s \in DOMAIN roster' /\ SameRun(roster[s], roster'[s]) /\ births'[s] = births[s],
         \A s \in DOMAIN roster' \ DOMAIN roster : roster'[s].parked = {}
  PROVE  Reporting'
<1>1. threads \subseteq Thread /\ threads' \subseteq Thread BY DEF Shaped
<1>2. RunsPassed' BY DEF Reporting, RunsPassed, SameRun
<1>3. OnceEach' BY DEF Reporting, OnceEach
<1>4. ASSUME NEW t \in threads
      PROVE  /\ t.service \in DOMAIN roster' /\ t.birth = births'[t.service]
             /\ Knows(roster'[t.service], t)
  BY <1>1, ReportingOf DEF Knows, SameRun
<1>5. Reporting' <=>
        /\ \A t \in threads' :
             /\ t.service \in DOMAIN roster' /\ t.birth = births'[t.service]
             /\ Knows(roster'[t.service], t)
        /\ RunsPassed' /\ OnceEach'
  BY <1>1 DEF Reporting, ReportsFindTheirEntry, ReadersHeld, Knows, Concerns, Thread
<1> QED BY <1>2, <1>3, <1>4, <1>5

\* An eviction takes no entry that a report is still to find.
LEMMA ReportingEvict == ASSUME Shaped, Reporting, Evict PROVE Reporting'
<1>1. PICK s \in Evictable :
        /\ s \in DOMAIN roster /\ DOMAIN roster' = DOMAIN roster \ {s}
        /\ \A t \in DOMAIN roster' : roster'[t] = roster[t]
        /\ UNCHANGED <<threads, births>>
  BY EvictEffect
<1>2. ~roster[s].running /\ roster[s].parked = {} BY DEF Evictable
<1>3. \A t \in threads : t.service # s
  BY <1>2, ReportingOf DEF Shaped, Knows
<1>4. ReportsFindTheirEntry' /\ ReadersHeld'
  BY <1>1, <1>3 DEF Reporting, ReportsFindTheirEntry, ReadersHeld
<1>5. RunsPassed' /\ OnceEach' BY <1>1 DEF Reporting, RunsPassed, OnceEach
<1> QED BY <1>4, <1>5 DEF Reporting

\* A thread that ends has its report still to make.
LEMMA ReportingEnds ==
  ASSUME Shaped, Reporting, NEW u \in threads, ThreadEnds(u) PROVE Reporting'
<1> DEFINE v == [u EXCEPT !.ended = TRUE]
<1>1. threads' = (threads \ {u}) \cup {v} /\ UNCHANGED <<roster, births>> BY DEF ThreadEnds
<1>2. u \in Thread BY DEF Shaped
<1>3. v.kind = u.kind /\ v.service = u.service /\ v.run = u.run /\ v.birth = u.birth
  BY <1>2 DEF Thread
<1> HIDE DEF v
<1>4. ReportsFindTheirEntry' /\ ReadersHeld'
  BY <1>1, <1>3 DEF Reporting, ReportsFindTheirEntry, ReadersHeld, Concerns
<1>5. RunsPassed' BY <1>1 DEF Reporting, RunsPassed
<1>6. OnceEach' BY <1>1, <1>3 DEF Reporting, OnceEach
<1> QED BY <1>4, <1>5, <1>6 DEF Reporting

\* A run reports each thing once.
LEMMA OnePerKind ==
  ASSUME NEW s, NEW r, NEW b,
         NEW t \in [kind : {"process", "reader"}, service : {s}, run : {r}, ended : {FALSE},
                   birth : {b}],
         NEW u \in [kind : {"process", "reader"}, service : {s}, run : {r}, ended : {FALSE},
                   birth : {b}],
         t.kind = u.kind
  PROVE  t = u
<1>1. t.service = u.service /\ t.run = u.run /\ t.ended = u.ended /\ t.birth = u.birth
  OBVIOUS
<1>2. /\ t = [kind |-> t.kind, service |-> t.service, run |-> t.run, ended |-> t.ended,
              birth |-> t.birth]
      /\ u = [kind |-> u.kind, service |-> u.service, run |-> u.run, ended |-> u.ended,
              birth |-> u.birth]
  OBVIOUS
<1> QED BY <1>1, <1>2

\* A launch finds no report of the run it begins.
LEMMA ReportingLaunch ==
  ASSUME Shaped, Reporting, NEW s \in DOMAIN roster, Launch(s) PROVE Reporting'
<1> DEFINE new == [kind : {"process", "reader"}, service : {s}, run : {roster[s].run + 1},
                   ended : {FALSE}, birth : {births[s]}]
<1>1. /\ Ran(s) /\ ~roster[s].running /\ roster'[s] = Begin(roster[s])
      /\ threads' = threads \cup new
  BY LaunchEffect
<1>2. roster[s] \in Entry BY DEF Shaped
<1>3. /\ roster'[s].running /\ roster'[s].held
      /\ roster'[s].run = roster[s].run + 1 /\ roster'[s].parked = roster[s].parked
      /\ roster[s].run \in Nat /\ roster[s].parked \subseteq Nat
  BY <1>1, <1>2, Beginning DEF Entry, Runs
<1>4. \A t \in new : /\ t.kind \in {"process", "reader"} /\ t.service = s
                     /\ t.run = roster[s].run + 1 /\ ~t.ended /\ t.birth = births[s]
  OBVIOUS
<1>5. \A t \in threads : t.kind \in {"process", "reader"} /\ t.run \in Nat
  BY DEF Shaped, Thread, Runs
<1>6. \A t \in threads : t.service = s =>
        t.kind = "reader" /\ t.run \in roster[s].parked /\ t.run <= roster[s].run
  BY <1>1, <1>5 DEF Reporting, ReportsFindTheirEntry, ReadersHeld, Concerns, RunsPassed
<1>7. \A t, u \in new : t.kind = u.kind => t = u
  <2> SUFFICES ASSUME NEW t \in new, NEW u \in new, t.kind = u.kind PROVE t = u OBVIOUS
  <2> DEFINE r == roster[s].run + 1
             b == births[s]
  <2>1. /\ t \in [kind : {"process", "reader"}, service : {s}, run : {r}, ended : {FALSE}, birth : {b}]
        /\ u \in [kind : {"process", "reader"}, service : {s}, run : {r}, ended : {FALSE}, birth : {b}]
    OBVIOUS
  <2> HIDE DEF new, r, b
  <2> QED BY <2>1, OnePerKind, Zenon
<1> HIDE DEF new
<1>8. DOMAIN roster' = DOMAIN roster /\ \A t \in DOMAIN roster \ {s} : roster'[t] = roster[t]
  BY <1>1 DEF Ran, Alone
<1>9. births' = births BY <1>1 DEF Ran
<1>10. ReportsFindTheirEntry'
  <2> SUFFICES ASSUME NEW t \in threads'
               PROVE  /\ t.service \in DOMAIN roster' /\ t.birth = births'[t.service]
                      /\ Concerns(roster'[t.service], t)
    BY DEF ReportsFindTheirEntry
  <2>1. CASE t \in new BY <1>3, <1>4, <1>8, <1>9, <2>1 DEF Concerns
  <2>2. CASE t \in threads /\ t.service = s
    BY <1>3, <1>6, <1>8, <1>9, <2>2 DEF Concerns, Reporting, ReportsFindTheirEntry
  <2>3. CASE t \in threads /\ t.service # s
    BY <1>8, <1>9, <2>3 DEF Reporting, ReportsFindTheirEntry
  <2> QED BY <1>1, <2>1, <2>2, <2>3
<1>11. ReadersHeld'
  <2> SUFFICES ASSUME NEW t \in threads', t.kind = "reader"
               PROVE  \/ t.run \in roster'[t.service].parked
                      \/ (roster'[t.service].running /\ roster'[t.service].held
                            /\ t.run = roster'[t.service].run)
    BY DEF ReadersHeld
  <2>1. CASE t \in new BY <1>3, <1>4, <2>1
  <2>2. CASE t \in threads /\ t.service = s BY <1>3, <1>6, <2>2
  <2>3. CASE t \in threads /\ t.service # s
    BY <1>8, <2>3 DEF Reporting, ReportsFindTheirEntry, ReadersHeld
  <2> QED BY <1>1, <2>1, <2>2, <2>3
<1>12. RunsPassed' BY <1>3, <1>8 DEF Reporting, RunsPassed
<1>13. OnceEach'
  <2>1. \A t \in new, u \in threads : t.service = u.service => t.run # u.run
    BY <1>3, <1>4, <1>5, <1>6
  <2> QED BY <1>1, <1>7, <2>1 DEF Reporting, OnceEach
<1> QED BY <1>10, <1>11, <1>12, <1>13 DEF Reporting
\* Nor does a launch that fails.
LEMMA ReportingLaunchFails ==
  ASSUME Shaped, Reporting, NEW s \in DOMAIN roster, LaunchFails(s) PROVE Reporting'
<1>1. /\ Ran(s) /\ UNCHANGED threads
      /\ ~roster[s].running /\ ~roster'[s].running
      /\ roster'[s].run = roster[s].run + 1
      /\ roster'[s].held = roster[s].held /\ roster'[s].parked = roster[s].parked
  BY LaunchFailsEffect
<1>2. DOMAIN roster' = DOMAIN roster /\ \A t \in DOMAIN roster \ {s} : roster'[t] = roster[t]
  BY <1>1 DEF Ran, Alone
<1>3. births' = births BY <1>1 DEF Ran
<1>4. ReportsFindTheirEntry' /\ ReadersHeld'
  BY <1>1, <1>2, <1>3 DEF Reporting, ReportsFindTheirEntry, ReadersHeld, Concerns
<1>5. roster[s].run \in Nat /\ roster[s].parked \subseteq Nat BY DEF Shaped, Entry, Runs
<1>6. RunsPassed' BY <1>1, <1>2, <1>5 DEF Reporting, RunsPassed
<1>7. OnceEach' BY <1>1 DEF Reporting, OnceEach
<1> QED BY <1>4, <1>6, <1>7 DEF Reporting

\* The end of one thread; another of the same entry is still known to it.
LEMMA StillKnown ==
  ASSUME NEW e \in Entry, NEW t \in Thread, NEW u \in Thread,
         Knows(e, t), Knows(e, u), ~(u.kind = t.kind /\ u.run = t.run)
  PROVE  Knows(Finished(e, t), u)
<1>1. t.kind \in {"process", "reader"} /\ u.kind \in {"process", "reader"} BY DEF Thread
<1>2. Finished(e, t).run = e.run BY Finishing
<1>3. CASE t.kind = "process"
  <2>1. Finished(e, t).parked = IF e.held THEN e.parked \cup {t.run} ELSE e.parked
    BY <1>3, Finishing
  <2>2. e.running /\ t.run = e.run BY <1>3 DEF Knows
  <2>3. u.kind = "reader" BY <1>1, <1>3, <2>2 DEF Knows
  <2> QED BY <2>1, <2>2, <2>3 DEF Knows
<1>4. CASE t.kind = "reader"
  <2>1. /\ Finished(e, t).running = e.running
        /\ Finished(e, t).held = (e.held /\ ~(e.running /\ t.run = e.run))
        /\ Finished(e, t).parked = e.parked \ {t.run}
    BY <1>4, Finishing
  <2>2. CASE u.kind = "process" BY <1>2, <2>1, <2>2 DEF Knows
  <2>3. CASE u.kind = "reader"
    <3>1. u.run # t.run BY <1>4, <2>3
    <3>2. CASE u.run \in e.parked BY <2>1, <2>3, <3>1, <3>2 DEF Knows
    <3>3. CASE e.running /\ u.run = e.run /\ e.held BY <1>2, <2>1, <3>1, <3>3 DEF Knows
    <3> QED BY <2>3, <3>2, <3>3 DEF Knows
  <2> QED BY <1>1, <2>2, <2>3
<1> QED BY <1>1, <1>3, <1>4

\* A report that is handled leaves the others.
LEMMA ReportingEvent ==
  ASSUME Shaped, Reporting, NEW t \in threads, HandleEvent(t) PROVE Reporting'
<1> DEFINE s == t.service
<1>1. s \in DOMAIN roster /\ Concerns(roster[s], t)
  BY DEF Reporting, ReportsFindTheirEntry
<1>2. /\ threads' = threads \ {t} /\ UNCHANGED births
      /\ Ran(s) /\ roster'[s] = Finished(roster[s], t)
  BY <1>1, EventEffect
<1>3. roster[s] \in Entry /\ t \in Thread /\ threads \subseteq Thread BY <1>1 DEF Shaped
<1>4. DOMAIN roster' = DOMAIN roster /\ \A u \in DOMAIN roster \ {s} : roster'[u] = roster[u]
  BY <1>2 DEF Ran, Alone
<1>5. \A u \in threads : Knows(roster[u.service], u) BY <1>3, ReportingOf
<1>6. \A u \in threads' : u.service = s => ~(u.kind = t.kind /\ u.run = t.run)
  BY <1>2 DEF Reporting, OnceEach
<1>7. ASSUME NEW u \in threads'
      PROVE  /\ u.service \in DOMAIN roster' /\ u.birth = births'[u.service]
             /\ Knows(roster'[u.service], u)
  <2>1. u \in threads /\ u \in Thread BY <1>2, <1>3
  <2>2. u.service \in DOMAIN roster' /\ u.birth = births'[u.service]
    BY <1>2, <1>4, <2>1 DEF Reporting, ReportsFindTheirEntry
  <2>3. CASE u.service = s
    <3>1. Knows(roster[s], t) /\ Knows(roster[s], u) BY <1>5, <2>1, <2>3
    <3>2. Knows(Finished(roster[s], t), u) BY <1>3, <1>6, <2>1, <2>3, <3>1, StillKnown
    <3> QED BY <1>2, <2>2, <2>3, <3>2
  <2>4. CASE u.service # s BY <1>4, <1>5, <2>1, <2>2, <2>4
  <2> QED BY <2>3, <2>4
<1>8. RunsPassed'
  <2> SUFFICES ASSUME NEW p \in DOMAIN roster', NEW r \in roster'[p].parked
               PROVE  r <= roster'[p].run
    BY DEF RunsPassed
  <2>1. CASE p = s
    <3>0. Finished(roster[s], t).run = roster[s].run BY <1>3, Finishing
    <3>1. roster'[s].run = roster[s].run BY <1>2, <3>0
    <3>2. r \in roster[s].parked \/ (r = t.run /\ t.kind = "process")
      <4>1. t.kind \in {"process", "reader"} BY <1>3 DEF Thread
      <4>2. r \in Finished(roster[s], t).parked BY <1>2, <2>1
      <4>3. CASE t.kind = "process"
        <5>1. Finished(roster[s], t).parked
                = IF roster[s].held THEN roster[s].parked \cup {t.run} ELSE roster[s].parked
          BY <1>3, <4>3, Finishing
        <5> QED BY <4>2, <4>3, <5>1
      <4>4. CASE t.kind = "reader"
        <5>1. Finished(roster[s], t).parked = roster[s].parked \ {t.run}
          BY <1>3, <4>4, Finishing
        <5> QED BY <4>2, <5>1
      <4> QED BY <4>1, <4>3, <4>4
    <3>3. t.kind = "process" => t.run = roster[s].run BY <1>1 DEF Concerns
    <3>4. roster[s].run \in Nat BY <1>3 DEF Entry
    <3> QED BY <1>1, <2>1, <3>1, <3>2, <3>3, <3>4 DEF Reporting, RunsPassed
  <2>2. CASE p # s BY <1>4, <2>2 DEF Reporting, RunsPassed
  <2> QED BY <2>1, <2>2
<1>9. OnceEach' BY <1>2 DEF Reporting, OnceEach
<1>10. threads' \subseteq Thread BY <1>2, <1>3
<1>11. ReportsFindTheirEntry' /\ ReadersHeld'
  BY <1>7, <1>10 DEF ReportsFindTheirEntry, ReadersHeld, Knows, Concerns, Thread
<1> QED BY <1>8, <1>9, <1>11 DEF Reporting

\* Every step keeps the reports' entries.
LEMMA ReportingStep ==
  ASSUME RosterAssumption, Shaped, Reporting, RosterNext PROVE Reporting'
<1>1. CASE UNCHANGED <<roster, threads, births>>
  BY <1>1, ReportingKept DEF SameRun
<1>2. CASE Evict BY <1>2, ReportingEvict
<1>3. ASSUME NEW t \in threads, ThreadEnds(t) \/ HandleEvent(t) PROVE Reporting'
  BY <1>3, ReportingEnds, ReportingEvent
<1>4. ASSUME NEW s \in DOMAIN roster, Launch(s) \/ LaunchFails(s) PROVE Reporting'
  BY <1>4, ReportingLaunch, ReportingLaunchFails
<1>5. ASSUME NEW request \in DynamicRequests, NEW key, StartDynamic(request, key) PROVE Reporting'
  <2>1. /\ request.service \notin DOMAIN roster
        /\ DOMAIN roster' = DOMAIN roster \cup {request.service}
        /\ \A t \in DOMAIN roster : roster'[t] = roster[t]
        /\ roster'[request.service].parked = {} /\ UNCHANGED threads
        /\ \A t \in Ids \ {request.service} : births'[t] = births[t]
    BY <1>5, StartEffect
  <2>2. \A s \in DOMAIN roster : births'[s] = births[s] BY <2>1 DEF Shaped
  <2> QED BY <2>1, <2>2, ReportingKept DEF SameRun
<1>6. ASSUME NEW s, Governed(s) PROVE Reporting'
  BY <1>6, ReportingKept DEF Governed, Alone, SameRun
<1>7. ASSUME NEW request \in DynamicRequests, NEW key, ReplaceDynamic(request, key) PROVE Reporting'
  BY <1>6, <1>7, ReplaceEffect
<1>8. ASSUME NEW s \in DOMAIN roster, StopDynamic(s) \/ DisableService(s) PROVE Reporting'
  BY <1>6, <1>8, StopEffect, DisableEffect
<1>9. ASSUME NEW s \in DOMAIN roster, NEW lease, RenewDynamic(s, lease) \/ LeaseElapses(s)
      PROVE  Reporting'
  BY <1>6, <1>9, LeaseEffect
<1>10. CASE ExpireDue BY <1>10, ExpireEffect, ReportingKept
<1>11. ASSUME NEW f \in Files, ReloadSucceeds(f) PROVE Reporting'
  BY <1>11, ReloadEffect, ReportingKept
<1>12. ASSUME NEW f \in Files, NEW startup, Reconcile(f, startup) PROVE Reporting'
  <2>1. /\ DOMAIN roster' = DOMAIN roster \cup DOMAIN f
        /\ \A s \in DOMAIN roster' : roster'[s] = Reconciled(f, s, startup)
        /\ UNCHANGED threads /\ \A s \in DOMAIN roster : births'[s] = births[s]
    BY <1>12, ReconcileEffect
  <2>2. ASSUME NEW s \in DOMAIN roster PROVE SameRun(roster[s], roster'[s])
    <3>1. CASE s \in RemovedBy(f) BY <2>1, <3>1, ReconciledOf
    <3>2. CASE s \in DOMAIN f BY <2>1, <3>2, ReconciledOf
    <3>3. CASE s \notin RemovedBy(f) /\ s \notin DOMAIN f
      BY <2>1, <3>3, ReconciledOf DEF SameRun
    <3> QED BY <3>1, <3>2, <3>3
  <2>3. \A s \in DOMAIN roster' \ DOMAIN roster : roster'[s].parked = {}
    BY <2>1, ReconciledOf
  <2> QED BY <2>1, <2>2, <2>3, ReportingKept
<1> QED
  BY <1>1, <1>2, <1>3, <1>4, <1>5, <1>7, <1>8, <1>9, <1>10, <1>11, <1>12, Steps
-----------------------------------------------------------------------------
(* The graph stays sound.                                                   *)

\* A rank of a sound graph without one node is packed into one rank less: a
\* node's new rank is how many of the old ranks are no higher than its own.
LEMMA SoundWithout ==
  ASSUME NEW g, IsFiniteSet(DOMAIN g), Sound(g), NEW s \in DOMAIN g,
         \A t \in DOMAIN g : s \notin g[t]
  PROVE  Sound([t \in DOMAIN g \ {s} |-> g[t]])
<1> DEFINE D == DOMAIN g \ {s}
           h == [t \in D |-> g[t]]
<1>1. PICK rank \in [DOMAIN g -> 1 .. Cardinality(DOMAIN g)] :
        \A t \in DOMAIN g : \A d \in g[t] : rank[d] < rank[t]
  BY DEF Sound
<1>2. \A t \in D : g[t] \subseteq D BY DEF Sound
<1>3. IsFiniteSet(D) /\ Cardinality(DOMAIN g) \in Nat BY FS_RemoveElement, FS_CardinalityType
<1>4. \A t \in D : rank[t] \in Nat BY <1>1, <1>3
<1> DEFINE R == {rank[t] : t \in D}
           Low(t) == {r \in R : r <= rank[t]}
           packed == [t \in D |-> Cardinality(Low(t))]
<1>5. IsFiniteSet(R) /\ Cardinality(R) <= Cardinality(D)
  <2> DEFINE f == [t \in D |-> rank[t]]
  <2>1. f \in Surjection(D, R) BY DEF Surjection
  <2> HIDE DEF f, R, D
  <2> QED BY <1>3, <2>1, FS_Surjection
<1>6. Cardinality(D) \in Nat /\ Cardinality(R) \in Nat BY <1>3, <1>5, FS_CardinalityType
<1>7. ASSUME NEW t \in D
      PROVE  /\ IsFiniteSet(Low(t)) /\ Cardinality(Low(t)) \in Nat
             /\ 1 <= Cardinality(Low(t)) /\ Cardinality(Low(t)) <= Cardinality(D)
  <2>1. Low(t) \subseteq R /\ rank[t] \in Low(t) BY <1>4
  <2>2. IsFiniteSet(Low(t)) /\ Cardinality(Low(t)) <= Cardinality(R)
    BY <1>5, <2>1, FS_Subset
  <2>3. Cardinality(Low(t)) \in Nat /\ Cardinality(Low(t)) # 0
    BY <2>1, <2>2, FS_CardinalityType, FS_EmptySet
  <2> QED BY <1>5, <1>6, <2>2, <2>3
<1>8. ASSUME NEW t \in D, NEW d \in D, rank[d] < rank[t]
      PROVE  Cardinality(Low(d)) < Cardinality(Low(t))
  <2>1. Low(d) \subseteq Low(t) /\ rank[t] \in Low(t) /\ rank[t] \notin Low(d)
    BY <1>4, <1>8
  <2>2. IsFiniteSet(Low(t)) /\ Cardinality(Low(t)) \in Nat BY <1>7
  <2>3. Low(d) # Low(t) BY <2>1
  <2>4. Cardinality(Low(d)) <= Cardinality(Low(t))
        /\ (Cardinality(Low(d)) = Cardinality(Low(t)) => Low(d) = Low(t))
    BY <2>1, <2>2, FS_Subset
  <2>5. Cardinality(Low(d)) \in Nat BY <1>7
  <2> QED BY <2>2, <2>3, <2>4, <2>5
<1>9. packed \in [D -> 1 .. Cardinality(D)]
  <2> HIDE DEF Low, D
  <2>1. \A t \in D : Cardinality(Low(t)) \in 1 .. Cardinality(D) BY <1>6, <1>7
  <2> QED BY <2>1
<1>10. \A t \in D : \A d \in g[t] : packed[d] < packed[t]
  <2> SUFFICES ASSUME NEW t \in D, NEW d \in g[t] PROVE packed[d] < packed[t]
    OBVIOUS
  <2>1. d \in D /\ rank[d] < rank[t] BY <1>1, <1>2
  <2>2. packed[d] = Cardinality(Low(d)) /\ packed[t] = Cardinality(Low(t)) BY <2>1
  <2> HIDE DEF packed, Low
  <2> QED BY <1>8, <2>1, <2>2
<1>11. DOMAIN h = D /\ \A t \in D : h[t] = g[t] OBVIOUS
<1> HIDE DEF h, packed, D
<1>12. Sound(h) BY <1>2, <1>9, <1>10, <1>11 DEF Sound
<1> QED BY <1>12 DEF h, D
\* A step that leaves the services and their dependencies as they are.
LEMMA SoundKept ==
  ASSUME GraphSound, DOMAIN roster' = DOMAIN roster,
         \A s \in DOMAIN roster : roster'[s].deps = roster[s].deps
  PROVE  GraphSound'
<1> DepsOf(roster') = DepsOf(roster) BY DEF DepsOf
<1> QED BY DEF GraphSound

\* A roster whose one entry is defined anew has the graph of the candidate.
LEMMA SoundWith ==
  ASSUME NEW s, NEW deps, Sound(With(DepsOf(roster), s, deps)),
         DOMAIN roster' = DOMAIN roster \cup {s}, roster'[s].deps = deps,
         \A t \in DOMAIN roster \ {s} : roster'[t] = roster[t]
  PROVE  GraphSound'
<1> DepsOf(roster') = With(DepsOf(roster), s, deps) BY DEF DepsOf, With, Over
<1> QED BY DEF GraphSound

\* A roster that a file is laid over has the graph of the candidate.
LEMMA SoundOver ==
  ASSUME NEW f, Sound(Over(f, DepsOf(roster))),
         DOMAIN roster' = DOMAIN roster \cup DOMAIN f,
         \A s \in DOMAIN f : roster'[s].deps = f[s],
         \A s \in DOMAIN roster \ DOMAIN f : roster'[s].deps = roster[s].deps
  PROVE  GraphSound'
<1> DepsOf(roster') = Over(f, DepsOf(roster)) BY DEF DepsOf, Over
<1> QED BY DEF GraphSound

\* An eviction leaves the graph sound.
LEMMA SoundEvict == ASSUME RosterAssumption, Shaped, GraphSound, Evict PROVE GraphSound'
<1>1. PICK s \in Evictable :
        /\ s \in DOMAIN roster /\ DOMAIN roster' = DOMAIN roster \ {s}
        /\ \A t \in DOMAIN roster' : roster'[t] = roster[t]
  BY EvictEffect
<1> DEFINE g == DepsOf(roster)
<1>2. DOMAIN g = DOMAIN roster /\ \A t \in DOMAIN g : g[t] = roster[t].deps BY DEF DepsOf
<1>3. IsFiniteSet(DOMAIN g) BY <1>2, FS_Subset DEF RosterAssumption, Shaped
<1>4. \A t \in DOMAIN g : s \notin g[t] BY <1>2 DEF Evictable
<1>5. DepsOf(roster') = [t \in DOMAIN g \ {s} |-> g[t]] BY <1>1, <1>2 DEF DepsOf
<1>6. Sound(g) BY DEF GraphSound
<1> HIDE DEF g
<1>7. Sound([t \in DOMAIN g \ {s} |-> g[t]]) BY <1>1, <1>2, <1>3, <1>4, <1>6, SoundWithout
<1> QED BY <1>5, <1>7 DEF GraphSound

\* Every step does.
LEMMA SoundStep ==
  ASSUME RosterAssumption, Shaped, GraphSound, RosterNext PROVE GraphSound'
<1>1. CASE UNCHANGED roster BY <1>1, SoundKept
<1>2. CASE Evict BY <1>2, SoundEvict
<1>3. ASSUME NEW s, Ran(s) PROVE GraphSound' BY <1>3, SoundKept DEF Ran, Alone, SamePolicy
<1>4. ASSUME NEW t \in threads, ThreadEnds(t) \/ HandleEvent(t) PROVE GraphSound'
  BY <1>1, <1>3, <1>4, EventEffect DEF ThreadEnds
<1>5. ASSUME NEW s \in DOMAIN roster, Launch(s) \/ LaunchFails(s) PROVE GraphSound'
  BY <1>3, <1>5, LaunchEffect, LaunchFailsEffect
<1>6. ASSUME NEW request \in DynamicRequests, NEW key, StartDynamic(request, key) PROVE GraphSound'
  <2> DEFINE s == request.service
  <2>1. /\ s \notin DOMAIN roster /\ ValidCandidate(s, request.deps)
        /\ DOMAIN roster' = DOMAIN roster \cup {s}
        /\ \A t \in DOMAIN roster : roster'[t] = roster[t]
        /\ roster'[s].deps = request.deps
    BY <1>6, StartEffect
  <2> HIDE DEF s
  <2>2. Sound(With(DepsOf(roster), s, request.deps)) BY <2>1 DEF ValidCandidate
  <2> QED BY <2>1, <2>2, SoundWith
<1>7. ASSUME NEW request \in DynamicRequests, NEW key, ReplaceDynamic(request, key) PROVE GraphSound'
  <2>1. /\ Governed(request.service) /\ ValidCandidate(request.service, request.deps)
        /\ roster'[request.service].deps = request.deps
    BY <1>7, ReplaceEffect
  <2>2. /\ DOMAIN roster' = DOMAIN roster \cup {request.service}
        /\ \A t \in DOMAIN roster \ {request.service} : roster'[t] = roster[t]
    BY <2>1 DEF Governed, Alone
  <2> QED BY <2>1, <2>2, SoundWith DEF ValidCandidate
<1>8. ASSUME NEW s \in DOMAIN roster, Governed(s), roster'[s].deps = roster[s].deps
      PROVE  GraphSound'
  BY <1>8, SoundKept DEF Governed, Alone
<1>9. ASSUME NEW s \in DOMAIN roster, StopDynamic(s) \/ DisableService(s) PROVE GraphSound'
  BY <1>8, <1>9, StopEffect, DisableEffect
<1>10. ASSUME NEW s \in DOMAIN roster, NEW lease, RenewDynamic(s, lease) \/ LeaseElapses(s)
       PROVE  GraphSound'
  BY <1>8, <1>10, LeaseEffect DEF SamePolicy
<1>11. CASE ExpireDue BY <1>11, ExpireEffect, SoundKept
<1>12. ASSUME NEW f \in Files, ReloadSucceeds(f) PROVE GraphSound'
  <2>1. DOMAIN f \subseteq DOMAIN roster BY <1>12, ReloadEffect DEF LiveConfigured
  <2>2. DOMAIN roster' = DOMAIN roster \cup DOMAIN f BY <1>12, <2>1, ReloadEffect
  <2>3. \A s \in DOMAIN f : roster'[s].deps = f[s] BY <1>12, <2>1, ReloadEffect
  <2>4. \A s \in DOMAIN roster \ DOMAIN f : roster'[s].deps = roster[s].deps
    BY <1>12, ReloadEffect
  <2>5. Sound(Over(f, DepsOf(roster))) BY <1>12, ReloadEffect
  <2> QED BY <2>2, <2>3, <2>4, <2>5, SoundOver
<1>13. ASSUME NEW f \in Files, NEW startup, Reconcile(f, startup) PROVE GraphSound'
  <2>1. /\ MayReconcile(f) /\ DOMAIN roster' = DOMAIN roster \cup DOMAIN f
        /\ \A s \in DOMAIN roster' : roster'[s] = Reconciled(f, s, startup)
    BY <1>13, ReconcileEffect
  <2>2. \A s \in DOMAIN f : roster'[s].deps = f[s] BY <2>1, ReconciledOf
  <2>3. \A s \in DOMAIN roster \ DOMAIN f : roster'[s].deps = roster[s].deps
    BY <2>1, ReconciledOf
  <2>4. Sound(Over(f, DepsOf(roster))) BY <2>1 DEF MayReconcile
  <2> QED BY <2>1, <2>2, <2>3, <2>4, SoundOver
<1> QED
  BY <1>1, <1>2, <1>4, <1>5, <1>6, <1>7, <1>9, <1>10, <1>11, <1>12, <1>13, Steps

-----------------------------------------------------------------------------

IInv == Shaped /\ TargetsLive /\ RetiredStaysDown /\ Reporting /\ GraphSound

\* The invariant holds at the start.
LEMMA InitInv == ASSUME RosterAssumption, RosterInit PROVE IInv
<1>1. PICK f \in Files :
        /\ roster = [s \in DOMAIN f |-> NewEntry("configured", 0, f[s], "none")]
        /\ births = [s \in Ids |-> IF s \in DOMAIN f THEN 1 ELSE 0]
  BY DEF RosterInit
<1>2. Sound(f) /\ DOMAIN f \subseteq Ids /\ \A s \in DOMAIN f : f[s] \in SUBSET Ids BY FileOf
<1>3. /\ DOMAIN roster = DOMAIN f
      /\ \A s \in DOMAIN f : roster[s] = NewEntry("configured", 0, f[s], "none")
  BY <1>1
<1>4. \A s \in DOMAIN f : /\ roster[s] \in Entry /\ roster[s].deps = f[s]
                          /\ roster[s].retired = "no" /\ roster[s].parked = {}
  BY <1>2, <1>3, Entering
<1>5. Shaped
  <2>1. births \in [Ids -> Nat] BY <1>1
  <2>2. pending \in Pending /\ threads = {} /\ stage = "schedule" BY DEF RosterInit, NoCommand, Pending
  <2> QED BY <1>2, <1>3, <1>4, <2>1, <2>2 DEF Shaped
<1>6. TargetsLive BY DEF RosterInit, TargetsLive
<1>7. RetiredStaysDown BY <1>3, <1>4 DEF RetiredStaysDown, Retired, IsLive
<1>8. Reporting
  BY <1>3, <1>4 DEF RosterInit, Reporting, ReportsFindTheirEntry, ReadersHeld, RunsPassed, OnceEach
<1>9. GraphSound
  <2>1. DepsOf(roster) = [s \in DOMAIN f |-> f[s]] BY <1>3, <1>4 DEF DepsOf
  <2>2. DepsOf(roster) = f BY <2>1, FileOf
  <2> QED BY <1>2, <2>2 DEF GraphSound
<1> QED BY <1>5, <1>6, <1>7, <1>8, <1>9 DEF IInv

\* It is about nothing but the variables.
LEMMA Stuttering == ASSUME IInv, UNCHANGED rosterVars PROVE IInv'
  BY DEF IInv, rosterVars, Shaped, TargetsLive, RetiredStaysDown, Retired, Reporting,
    ReportsFindTheirEntry, ReadersHeld, RunsPassed, OnceEach, GraphSound

\* The strengthened invariant holds of every roster.
THEOREM Invariance == ASSUME RosterAssumption PROVE RosterSpec => []IInv
<1>1. RosterInit => IInv BY InitInv
<1>2. IInv /\ [RosterNext]_rosterVars => IInv'
  <2> SUFFICES ASSUME IInv, [RosterNext]_rosterVars PROVE IInv'
    OBVIOUS
  <2>1. CASE RosterNext
    <3>1. Shaped' /\ TargetsLive'
      BY <2>1, RosterTyped, ThreadsTyped, ControlStep DEF IInv, Shaped
    <3> QED BY <2>1, <3>1, DownStep, ReportingStep, SoundStep DEF IInv
  <2>2. CASE UNCHANGED rosterVars BY <2>2, Stuttering
  <2> QED BY <2>1, <2>2
<1> QED BY <1>1, <1>2, PTL DEF RosterSpec

\* A retired service is not wanted, whatever commands were on their way, and
\* no live service depends on one that was removed from the configuration.
THEOREM RetiredStaysDownHolds == ASSUME RosterAssumption PROVE RosterSpec => []RetiredStaysDown
<1> IInv => RetiredStaysDown BY DEF IInv
<1> QED BY Invariance, PTL

\* A process or a reader that still has to report belongs to the entry that
\* has its id, however often the id was evicted and used anew.
THEOREM ReportsFindTheirEntryHolds ==
  ASSUME RosterAssumption PROVE RosterSpec => []ReportsFindTheirEntry
<1> IInv => ReportsFindTheirEntry BY DEF IInv, Reporting
<1> QED BY Invariance, PTL

\* Dependencies are entries and there is no cycle, through creation,
\* replacement, reload, reconciliation, retirement and eviction.
THEOREM GraphSoundHolds == ASSUME RosterAssumption PROVE RosterSpec => []GraphSound
<1> IInv => GraphSound BY DEF IInv
<1> QED BY Invariance, PTL

-----------------------------------------------------------------------------
(***************************************************************************)
(* The reports of one run.                                                 *)
(***************************************************************************)

\* Who may still send, by the place of the termination task.
Senders ==
  /\ waiter # "done" => ~Sent("exited")
  /\ waiter \in {"report", "done"} => HealthOver
  /\ waiter = "done" => ~killedPending

\* How far the announcement of the kill has come.
KillProgress ==
  /\ (~Started \/ waiter = "notify" \/ killedPending) => ~Sent("killed")
  /\ (~Started \/ waiter = "notify") => ~killedPending
  /\ waiter = "notify" => Started
  /\ (Started /\ waiter # "notify" /\ ~killedPending /\ open) => Sent("killed")

\* While the loop has not given its verdict the count is below the limit.
ProbeSense ==
  /\ ~unhealthy => attempt < Retries
  /\ health \in {"report", "commit"} => verdict \in Verdicts

Reports == Senders /\ KillProgress /\ ExitIsLast /\ KilledAnnounced

RunIInv == TypeOK /\ ProbeSense /\ Reports

Events == Verdicts \cup {"killed", "exited"}

\* What Append does to the history that the invariants quantify over.
LEMMA PushEffect ==
  ASSUME NEW s \in Seq(Events), NEW e \in Events, NEW t, t = Append(s, e)
  PROVE  /\ t \in Seq(Events)
         /\ Len(t) = Len(s) + 1
         /\ DOMAIN t = 1 .. Len(s) + 1
         /\ DOMAIN s = 1 .. Len(s)
         /\ \A i \in DOMAIN s : t[i] = s[i]
         /\ t[Len(s) + 1] = e
  OBVIOUS

-----------------------------------------------------------------------------

USE RunTaskAssumption DEF RunTaskAssumption

\* The part of TypeOK that is about the tasks, and the part about the channel.
TaskType ==
  /\ child \in {"running", "reaped"}
  /\ endsOn \in {"term", "kill", "hangup"}
  /\ terminate \in BOOLEAN
  /\ waiter \in {"select", "notify", "stopHealth", "report", "done"}
  /\ signal \in {"none", "term", "kill"}
  /\ escalated \in BOOLEAN
  /\ hangupArmed \in BOOLEAN
  /\ ptyOpen \in BOOLEAN
  /\ killedPending \in BOOLEAN

ProbeType ==
  /\ health \in {"off", "delay", "probe", "wrapUp", "report", "commit", "idle", "done"}
  /\ outcome \in {"none", "success", "failure", "cancelled"}
  /\ verdict \in Verdicts \cup {"none"}
  /\ attempt \in 0 .. Retries
  /\ unhealthy \in BOOLEAN
  /\ failures \in 0 .. Retries

ChannelType ==
  /\ sent \in Seq(Events)
  /\ received \in 0 .. Len(sent)
  /\ open \in BOOLEAN

\* The type invariant in the parts that the steps disturb.
LEMMA TypeParts == TypeOK <=> TaskType /\ ProbeType /\ ChannelType
  BY DEF TypeOK, TaskType, ProbeType, ChannelType, Events

\* Every step keeps the type of the task.
LEMMA TaskStep ==
  ASSUME TaskType, Next PROVE TaskType'
<1>1. CASE ChildExits BY <1>1 DEF ChildExits, TaskType, stopVars
<1>2. CASE RequestStop BY <1>2 DEF RequestStop, TaskType, stopVars
<1>3. CASE Receive BY <1>3 DEF Receive, TaskType, stopVars
<1>4. CASE CloseChannel BY <1>4 DEF CloseChannel, TaskType, stopVars
<1>5. CASE Request BY <1>5 DEF Request, TaskType, stopVars
<1>6. CASE SendKilled BY <1>6 DEF SendKilled, TaskType, stopVars
<1>7. CASE DetachKilled BY <1>7 DEF DetachKilled, TaskType, stopVars
<1>8. CASE ForceKill BY <1>8 DEF ForceKill, TaskType, stopVars
<1>9. CASE HangUp BY <1>9 DEF HangUp, TaskType, stopVars
<1>10. CASE WaitDone BY <1>10 DEF WaitDone, TaskType, stopVars
<1>11. CASE HealthStopped BY <1>11 DEF HealthStopped, TaskType, stopVars
<1>12. CASE StopHealthTimesOut BY <1>12 DEF StopHealthTimesOut, TaskType, stopVars
<1>13. CASE SendExited BY <1>13 DEF SendExited, TaskType, stopVars
<1>14. CASE SendKilledDetached BY <1>14 DEF SendKilledDetached, TaskType, stopVars
<1>15. CASE NextProbe BY <1>15 DEF NextProbe, TaskType, stopVars
<1>16. CASE SleepCancelled BY <1>16 DEF SleepCancelled, TaskType, stopVars
<1>17. CASE ProbePassed BY <1>17 DEF ProbePassed, TaskType, stopVars
<1>18. CASE ProbeFailed BY <1>18 DEF ProbeFailed, TaskType, stopVars
<1>19. CASE ProbeCancelled BY <1>19 DEF ProbeCancelled, TaskType, stopVars
<1>20. CASE CheckTokens BY <1>20 DEF CheckTokens, TaskType, stopVars
<1>21. CASE ReportCancelled BY <1>21 DEF ReportCancelled, TaskType, stopVars
<1>22. CASE SendVerdict BY <1>22 DEF SendVerdict, TaskType, stopVars
<1>23. CASE SendWaits BY <1>23 DEF SendWaits, TaskType, stopVars
<1>24. CASE SendFails BY <1>24 DEF SendFails, TaskType, stopVars
<1>25. ASSUME NEW o \in {"success", "failure", "cancelled"}, ProbeEnds(o) PROVE TaskType'
  BY <1>25 DEF ProbeEnds, TaskType, stopVars
<1> QED
  BY <1>1, <1>2, <1>3, <1>4, <1>5, <1>6, <1>7, <1>8, <1>9, <1>10, <1>11, <1>12, <1>13, <1>14, <1>15, <1>16, <1>17, <1>18, <1>19, <1>20, <1>21, <1>22, <1>23, <1>24, <1>25 DEF Next, WaiterStep, ProbeStep, CommitStep

\* Every step keeps the type of the probe loop, and the sense of where it is.
LEMMA ProbeLoopStep ==
  ASSUME ProbeType, ProbeSense, Next PROVE ProbeType' /\ ProbeSense'
<1>1. CASE ChildExits BY <1>1 DEF ChildExits, ProbeType, ProbeSense, probeVars, Verdicts
<1>2. CASE RequestStop BY <1>2 DEF RequestStop, ProbeType, ProbeSense, probeVars, Verdicts
<1>3. CASE Receive BY <1>3 DEF Receive, ProbeType, ProbeSense, probeVars, Verdicts
<1>4. CASE CloseChannel BY <1>4 DEF CloseChannel, ProbeType, ProbeSense, probeVars, Verdicts
<1>5. CASE Request BY <1>5 DEF Request, ProbeType, ProbeSense, probeVars, Verdicts
<1>6. CASE SendKilled BY <1>6 DEF SendKilled, ProbeType, ProbeSense, probeVars, Verdicts
<1>7. CASE DetachKilled BY <1>7 DEF DetachKilled, ProbeType, ProbeSense, probeVars, Verdicts
<1>8. CASE ForceKill BY <1>8 DEF ForceKill, ProbeType, ProbeSense, probeVars, Verdicts
<1>9. CASE HangUp BY <1>9 DEF HangUp, ProbeType, ProbeSense, probeVars, Verdicts
<1>10. CASE WaitDone BY <1>10 DEF WaitDone, ProbeType, ProbeSense, probeVars, Verdicts
<1>11. CASE HealthStopped BY <1>11 DEF HealthStopped, ProbeType, ProbeSense, probeVars, Verdicts
<1>12. CASE StopHealthTimesOut BY <1>12 DEF StopHealthTimesOut, ProbeType, ProbeSense, probeVars, Verdicts
<1>13. CASE SendExited BY <1>13 DEF SendExited, ProbeType, ProbeSense, probeVars, Verdicts
<1>14. CASE SendKilledDetached BY <1>14 DEF SendKilledDetached, ProbeType, ProbeSense, probeVars, Verdicts
<1>15. CASE NextProbe BY <1>15 DEF NextProbe, ProbeType, ProbeSense, probeVars, Verdicts
<1>16. CASE SleepCancelled BY <1>16 DEF SleepCancelled, ProbeType, ProbeSense, probeVars, Verdicts
<1>17. CASE ProbePassed BY <1>17 DEF ProbePassed, ProbeType, ProbeSense, probeVars, Verdicts
<1>18. CASE ProbeFailed
  <2>1. CASE unhealthy BY <1>18, <2>1 DEF ProbeFailed, ProbeType, ProbeSense, Verdicts
  <2>2. CASE ~unhealthy /\ attempt + 1 >= Retries
    <3>1. attempt + 1 \in 0 .. Retries BY <2>2 DEF ProbeType, ProbeSense
    <3>2. attempt' = attempt + 1 /\ unhealthy' /\ unhealthy' \in BOOLEAN
          /\ health' = "report" /\ verdict' = "unhealthy"
      BY <1>18, <2>2 DEF ProbeFailed
    <3>3. outcome' = "none" /\ failures' = failures BY <1>18 DEF ProbeFailed
    <3> QED BY <3>1, <3>2, <3>3 DEF ProbeType, ProbeSense, Verdicts
  <2>3. CASE ~unhealthy /\ ~(attempt + 1 >= Retries)
    BY <1>18, <2>3 DEF ProbeFailed, ProbeType, ProbeSense, Verdicts
  <2> QED BY <2>1, <2>2, <2>3 DEF ProbeType
<1>19. CASE ProbeCancelled BY <1>19 DEF ProbeCancelled, ProbeType, ProbeSense, probeVars, Verdicts
<1>20. CASE CheckTokens BY <1>20 DEF CheckTokens, ProbeType, ProbeSense, probeVars, Verdicts
<1>21. CASE ReportCancelled BY <1>21 DEF ReportCancelled, ProbeType, ProbeSense, probeVars, Verdicts
<1>22. CASE SendVerdict BY <1>22 DEF SendVerdict, ProbeType, ProbeSense, probeVars, Verdicts
<1>23. CASE SendWaits BY <1>23 DEF SendWaits, ProbeType, ProbeSense, probeVars, Verdicts
<1>24. CASE SendFails BY <1>24 DEF SendFails, ProbeType, ProbeSense, probeVars, Verdicts
<1>25. ASSUME NEW o \in {"success", "failure", "cancelled"}, ProbeEnds(o) PROVE ProbeType' /\ ProbeSense'
  BY <1>25 DEF ProbeEnds, ProbeType, ProbeSense, probeVars, Verdicts
<1> QED
  BY <1>1, <1>2, <1>3, <1>4, <1>5, <1>6, <1>7, <1>8, <1>9, <1>10, <1>11, <1>12, <1>13, <1>14, <1>15, <1>16, <1>17, <1>18, <1>19, <1>20, <1>21, <1>22, <1>23, <1>24, <1>25 DEF Next, WaiterStep, ProbeStep, CommitStep

\* The types hold at the start.
LEMMA InitType == Init => TypeOK
<1> SUFFICES ASSUME Init PROVE TaskType /\ ProbeType /\ ChannelType
  BY TypeParts
<1>1. TaskType BY DEF Init, TaskType
<1>2. ProbeType
  <2>1. attempt = 0 /\ failures = 0 BY DEF Init
  <2>2. attempt \in 0 .. Retries /\ failures \in 0 .. Retries BY <2>1
  <2>3. health \in {"off", "delay", "probe"} /\ outcome = "none" /\ verdict = "none"
        /\ unhealthy \in BOOLEAN
    BY DEF Init
  <2> QED BY <2>2, <2>3 DEF ProbeType
<1>3. ChannelType
  <2> sent = <<>> /\ received = 0 /\ open BY DEF Init
  <2> QED BY DEF ChannelType
<1> QED BY <1>1, <1>2, <1>3

\* A send puts at most one event into the channel, and only while it is open.
LEMMA PushType ==
  ASSUME ChannelType, NEW e \in Events, Push(e), UNCHANGED <<received, open>>
  PROVE  ChannelType'
<1>1. CASE open
  <2> sent' = Append(sent, e) BY <1>1 DEF Push
  <2> Len(sent') = Len(sent) + 1 /\ sent' \in Seq(Events) BY PushEffect DEF ChannelType
  <2> QED BY DEF ChannelType
<1>2. CASE ~open BY <1>2 DEF Push, ChannelType
<1> QED BY <1>1, <1>2 DEF ChannelType

\* Every step keeps the type of the channel.
LEMMA ChannelStep ==
  ASSUME TypeOK, ProbeSense, Next PROVE ChannelType'
<1> USE TypeParts
<1>1. CASE SendKilled BY <1>1, PushType DEF SendKilled, Events
<1>2. CASE SendKilledDetached BY <1>2, PushType DEF SendKilledDetached, Events
<1>3. CASE SendExited BY <1>3, PushType DEF SendExited, Events
<1>4. CASE SendVerdict
  <2>1. verdict \in Verdicts BY <1>4 DEF SendVerdict, ProbeSense
  <2> QED BY <1>4, <2>1, PushType DEF SendVerdict, Events
<1>5. CASE Receive
  <2> Len(sent) \in Nat BY DEF ChannelType
  <2> QED BY <1>5 DEF Receive, ChannelType
<1>6. CASE CloseChannel BY <1>6 DEF CloseChannel, ChannelType
<1>7. CASE UNCHANGED channelVars BY <1>7 DEF channelVars, ChannelType
<1> QED
  BY <1>1, <1>2, <1>3, <1>4, <1>5, <1>6, <1>7
  DEF Next, WaiterStep, ProbeStep, CommitStep, ChildExits, RequestStop, Request, DetachKilled,
    ForceKill, HangUp, WaitDone, HealthStopped, StopHealthTimesOut, NextProbe, SleepCancelled,
    ProbeEnds, ProbePassed, ProbeFailed, ProbeCancelled, CheckTokens, ReportCancelled,
    SendWaits, SendFails

-----------------------------------------------------------------------------

\* A step that sends nothing and moves no sender forward.
LEMMA NothingSent ==
  ASSUME Reports, UNCHANGED <<waiter, signal, killedPending, sent>>,
         open' => open, HealthOver => HealthOver'
  PROVE  Reports'
  BY Zenon DEF Reports, Senders, KillProgress, ExitIsLast, KilledAnnounced, Sent, Started

\* What a send adds to the kinds of events sent.
LEMMA PushSent ==
  ASSUME ChannelType, NEW e \in Events, Push(e), open
  PROVE  /\ Len(sent') = Len(sent) + 1
         /\ DOMAIN sent' = 1 .. Len(sent) + 1
         /\ DOMAIN sent = 1 .. Len(sent)
         /\ \A i \in DOMAIN sent : sent'[i] = sent[i]
         /\ sent'[Len(sent) + 1] = e
         /\ \A f : Sent(f)' <=> Sent(f) \/ f = e
<1>1. sent' = Append(sent, e) BY DEF Push
<1>2. /\ Len(sent') = Len(sent) + 1
      /\ DOMAIN sent' = 1 .. Len(sent) + 1
      /\ DOMAIN sent = 1 .. Len(sent)
      /\ \A i \in DOMAIN sent : sent'[i] = sent[i]
      /\ sent'[Len(sent) + 1] = e
  BY <1>1, PushEffect DEF ChannelType
<1>3. \A f : Sent(f)' <=> Sent(f) \/ f = e
  BY <1>2 DEF Sent, ChannelType
<1> QED BY <1>2, <1>3

\* Killed goes out once, before the exit.
LEMMA KilledSent ==
  ASSUME ChannelType, Reports, Push("killed"), Started, UNCHANGED <<signal, health, open>>,
         \/ (waiter = "notify" /\ waiter' = "select" /\ UNCHANGED killedPending)
         \/ (killedPending /\ ~killedPending' /\ UNCHANGED waiter)
  PROVE  Reports'
<1>1. ~Sent("killed") /\ ~Sent("exited") /\ waiter # "done"
  BY DEF Reports, Senders, KillProgress
<1>2. CASE ~open
  BY <1>1, <1>2 DEF Push, Reports, Senders, KillProgress, ExitIsLast, KilledAnnounced, Sent,
    Started, HealthOver
<1>3. CASE open
  <2>1. /\ Sent("killed")' /\ ~Sent("exited")'
        /\ \A i \in DOMAIN sent' : sent'[i] = "killed" => i = Len(sent) + 1
    BY <1>1, <1>3, PushSent DEF Events, Sent
  <2>2. ExitIsLast' /\ KilledAnnounced'
    BY <2>1 DEF ExitIsLast, KilledAnnounced, Sent
  <2>3. Senders' BY <1>1, <2>1 DEF Reports, Senders, KillProgress, HealthOver
  <2>4. KillProgress' BY <1>1, <2>1 DEF Reports, Senders, KillProgress, Started
  <2> QED BY <2>2, <2>3, <2>4 DEF Reports
<1> QED BY <1>2, <1>3

\* Exited goes out when every other sender is through.
LEMMA ExitedSent == ASSUME ChannelType, Reports, SendExited PROVE Reports'
<1> USE DEF SendExited, stopVars
<1>1. /\ ~Sent("exited") /\ ~killedPending /\ HealthOver
      /\ Started /\ open => Sent("killed")
  BY DEF Reports, Senders, KillProgress
<1>2. CASE ~open
  <2> sent' = sent BY <1>2 DEF Push
  <2> QED
    BY <1>1, <1>2 DEF Reports, Senders, KillProgress, ExitIsLast, KilledAnnounced, Sent,
      Started, HealthOver
<1>3. CASE open
  <2>1. /\ Sent("killed")' <=> Sent("killed")
        /\ Sent("exited")'
        /\ \A i \in DOMAIN sent' : sent'[i] = "exited" => i = Len(sent')
        /\ \A i \in DOMAIN sent' : sent'[i] = "killed" => i \in DOMAIN sent /\ sent[i] = "killed"
    BY <1>1, <1>3, PushSent DEF Events, Sent
  <2>2. ExitIsLast' BY <2>1 DEF ExitIsLast
  <2>3. KilledAnnounced' BY <1>1, <1>3, <2>1 DEF Reports, KilledAnnounced, Started
  <2>4. Senders' BY <1>1, <2>1 DEF Reports, Senders, HealthOver
  <2>5. KillProgress' BY <1>1, <2>1 DEF Reports, KillProgress, Started
  <2> QED BY <2>2, <2>3, <2>4, <2>5 DEF Reports
<1> QED BY <1>2, <1>3

\* A verdict goes out only while the termination task has not reported.
LEMMA VerdictSent ==
  ASSUME ChannelType, ProbeSense, Reports, SendVerdict PROVE Reports'
<1> USE DEF SendVerdict, stopVars
<1>1. /\ ~Sent("exited") /\ waiter \notin {"report", "done"}
      /\ verdict \in Events /\ verdict \notin {"killed", "exited"}
  BY DEF Reports, Senders, HealthOver, ProbeSense, Verdicts, Events
<1>2. /\ Sent("killed")' <=> Sent("killed")
      /\ ~Sent("exited")'
      /\ \A i \in DOMAIN sent' : sent'[i] = "killed" => i \in DOMAIN sent /\ sent[i] = "killed"
  BY <1>1, PushSent DEF Sent
<1>3. ExitIsLast' BY <1>2 DEF ExitIsLast, Sent
<1>4. KilledAnnounced' BY <1>2 DEF Reports, KilledAnnounced
<1>5. Senders' BY <1>1, <1>2 DEF Reports, Senders
<1>6. KillProgress' BY <1>2 DEF Reports, KillProgress, Started
<1> QED BY <1>3, <1>4, <1>5, <1>6 DEF Reports

\* The termination task's own moves.
LEMMA WaiterMoves ==
  ASSUME Reports, UNCHANGED <<channelVars>>,
         \/ Request \/ DetachKilled \/ ForceKill \/ WaitDone
         \/ HealthStopped \/ StopHealthTimesOut
  PROVE  Reports'
<1>1. UNCHANGED <<sent, open>> BY DEF channelVars
<1>2. ExitIsLast' BY <1>1 DEF Reports, ExitIsLast
<1>3. \A f : Sent(f)' <=> Sent(f) BY <1>1 DEF Sent
<1>4. KilledAnnounced' /\ Senders' /\ KillProgress'
  <2> USE <1>1, <1>3 DEF Reports, KilledAnnounced, Senders, KillProgress, Started, HealthOver
  <2>1. CASE Request BY <2>1 DEF Request
  <2>2. CASE DetachKilled BY <2>2 DEF DetachKilled, stopVars
  <2>3. CASE ForceKill BY <2>3 DEF ForceKill
  <2>4. CASE WaitDone BY <2>4 DEF WaitDone, stopVars
  <2>5. CASE HealthStopped BY <2>5 DEF HealthStopped, stopVars
  <2>6. CASE StopHealthTimesOut BY <2>6 DEF StopHealthTimesOut, stopVars
  <2> QED BY <2>1, <2>2, <2>3, <2>4, <2>5, <2>6
<1> QED BY <1>2, <1>4 DEF Reports

\* The steps that report nothing leave the reports as they are.
LEMMA QuietStep ==
  ASSUME Reports,
         \/ ChildExits \/ RequestStop \/ Receive \/ CloseChannel \/ HangUp
         \/ NextProbe \/ SleepCancelled \/ ProbePassed \/ ProbeFailed \/ ProbeCancelled
         \/ CheckTokens \/ ReportCancelled \/ SendWaits \/ SendFails
         \/ \E o \in {"success", "failure", "cancelled"} : ProbeEnds(o)
         \/ UNCHANGED vars
  PROVE  Reports'
<1>1. UNCHANGED <<waiter, signal, killedPending, sent>>
  BY DEF ChildExits, RequestStop, Receive, CloseChannel, HangUp, NextProbe, SleepCancelled,
    ProbePassed, ProbeFailed, ProbeCancelled, CheckTokens, ReportCancelled, SendWaits, SendFails,
    ProbeEnds, vars, stopVars, channelVars
<1>2. open' => open
  BY DEF ChildExits, RequestStop, Receive, CloseChannel, HangUp, NextProbe, SleepCancelled,
    ProbePassed, ProbeFailed, ProbeCancelled, CheckTokens, ReportCancelled, SendWaits, SendFails,
    ProbeEnds, vars, channelVars
<1>3. HealthOver => HealthOver'
  BY DEF HealthOver, ChildExits, RequestStop, Receive, CloseChannel, HangUp, NextProbe,
    SleepCancelled, ProbePassed, ProbeFailed, ProbeCancelled, CheckTokens, ReportCancelled,
    SendWaits, SendFails, ProbeEnds, vars
<1> QED BY <1>1, <1>2, <1>3, NothingSent

\* Every step keeps what the reports are to say in agreement with the senders.
LEMMA ReportsStep == ASSUME RunIInv, Next PROVE Reports'
<1> USE TypeParts DEF RunIInv
<1>1. CASE SendKilled
  <2>1. /\ waiter = "notify" /\ waiter' = "select" /\ Push("killed")
        /\ UNCHANGED killedPending /\ UNCHANGED <<signal, health, open>>
    BY <1>1 DEF SendKilled, stopVars
  <2>2. Started BY <2>1 DEF Reports, KillProgress
  <2>3. ChannelType /\ Reports OBVIOUS
  <2> HIDE TypeParts DEF RunIInv
  <2> QED BY <2>1, <2>2, <2>3, KilledSent
<1>2. CASE SendKilledDetached
  <2>1. /\ killedPending /\ ~killedPending' /\ Push("killed")
        /\ UNCHANGED <<waiter, signal, health, open>>
    BY <1>2 DEF SendKilledDetached, stopVars
  <2>2. Started BY <2>1 DEF Reports, KillProgress
  <2> QED BY <2>1, <2>2, KilledSent
<1>3. CASE SendExited BY <1>3, ExitedSent
<1>4. CASE SendVerdict BY <1>4, VerdictSent
<1>5. CASE Request \/ DetachKilled \/ ForceKill \/ WaitDone
             \/ HealthStopped \/ StopHealthTimesOut
  <2> UNCHANGED channelVars
    BY <1>5 DEF Request, DetachKilled, ForceKill, WaitDone, HealthStopped, StopHealthTimesOut
  <2> QED BY <1>5, WaiterMoves
<1>6. CASE \/ ChildExits \/ RequestStop \/ Receive \/ CloseChannel \/ HangUp
           \/ NextProbe \/ SleepCancelled \/ ProbePassed \/ ProbeFailed \/ ProbeCancelled
           \/ CheckTokens \/ ReportCancelled \/ SendWaits \/ SendFails
           \/ \E o \in {"success", "failure", "cancelled"} : ProbeEnds(o)
  BY <1>6, QuietStep
<1> QED
  BY <1>1, <1>2, <1>3, <1>4, <1>5, <1>6 DEF Next, WaiterStep, ProbeStep, CommitStep

\* The invariant holds at the start.
LEMMA RunInitInv == Init => RunIInv
<1> SUFFICES ASSUME Init PROVE RunIInv
  OBVIOUS
<1>1. TypeOK BY InitType
<1>2. ProbeSense BY DEF Init, ProbeSense
<1>3. ~Sent("exited") /\ ~Sent("killed") /\ sent = <<>> BY DEF Init, Sent
<1>4. Reports
  BY <1>3 DEF Init, Reports, Senders, KillProgress, ExitIsLast, KilledAnnounced, Started
<1> QED BY <1>1, <1>2, <1>4 DEF RunIInv

\* The strengthened invariant holds of every run.
THEOREM RunInvariance == Spec => []RunIInv
<1>1. Init => RunIInv BY RunInitInv
<1>2. RunIInv /\ [Next]_vars => RunIInv'
  <2> SUFFICES ASSUME RunIInv, [Next]_vars PROVE RunIInv'
    OBVIOUS
  <2>1. CASE Next
    <3>1. TaskType' /\ ProbeType' /\ ProbeSense' /\ ChannelType'
      BY <2>1, TypeParts, TaskStep, ProbeLoopStep, ChannelStep DEF RunIInv
    <3>2. TypeOK'
      BY <3>1 DEF TypeOK, TaskType, ProbeType, ChannelType, Events, Verdicts
    <3> QED BY <2>1, <3>1, <3>2, ReportsStep DEF RunIInv
  <2>2. CASE UNCHANGED vars
    <3>1. TypeOK' /\ ProbeSense'
      <4>1. TypeOK' BY <2>2 DEF RunIInv, TypeOK, vars, stopVars, probeVars, channelVars
      <4>2. ProbeSense' BY <2>2 DEF RunIInv, ProbeSense, vars, probeVars
      <4> QED BY <4>1, <4>2
    <3> QED BY <2>2, <3>1, QuietStep DEF RunIInv
  <2> QED BY <2>1, <2>2
<1> QED BY <1>1, <1>2, PTL DEF Spec

\* Type correctness; that the count of failures stays below the limit of
\* retries needs that a verdict is outstanding when it is reached.
THEOREM RunTypeCorrect == Spec => []TypeOK
<1> RunIInv => TypeOK BY DEF RunIInv
<1> QED BY RunInvariance, PTL

\* The exit of a run is the last of its reports: the scheduler may forget it.
THEOREM ExitIsLastHolds == Spec => []ExitIsLast
<1> RunIInv => ExitIsLast BY DEF RunIInv, Reports
<1> QED BY RunInvariance, PTL

\* A signalled run is announced as killed, once, before its exit, however
\* full the channel is.
THEOREM KilledAnnouncedHolds == Spec => []KilledAnnounced
<1> RunIInv => KilledAnnounced BY DEF RunIInv, Reports
<1> QED BY RunInvariance, PTL

\* No probe outlives the run that it probes.
THEOREM ProbeOverAtExitHolds == Spec => []ProbeOverAtExit
<1> RunIInv => ProbeOverAtExit BY DEF RunIInv, Reports, Senders, ProbeOverAtExit
<1> QED BY RunInvariance, PTL
-----------------------------------------------------------------------------
(***************************************************************************)
(* Verdicts.  The loop counts in `attempt`, which it resets when a Healthy *)
(* is sent and not when a probe passes; the history counts in `failures`.  *)
(* Between the two moments the counts may differ, so the bound is stated   *)
(* for the places where no success is on its way.                          *)
(***************************************************************************)

\* No success is waiting to be looked at or reported.
Undecided ==
  /\ ~(health = "wrapUp" /\ outcome = "success")
  /\ ~(health \in {"report", "commit"} /\ verdict = "healthy")

\* Failures that have happened and are not yet counted.
Uncounted == IF health = "wrapUp" /\ outcome = "failure" THEN 1 ELSE 0

FailuresCounted ==
  /\ (health \notin {"off", "done"} /\ Undecided) =>
       (failures = Retries \/ attempt + Uncounted <= failures)
  /\ (health = "wrapUp" /\ outcome = "success") => failures = 0
  /\ health \in {"report", "commit"} =>
       failures = IF verdict = "unhealthy" THEN Retries ELSE 0

\* The last verdict among the events s is Unhealthy.
UnhealthyLast(s) ==
  \E i \in DOMAIN s :
    s[i] = "unhealthy" /\ \A k \in DOMAIN s : k > i => s[k] # "healthy"

HealthyBetween(s) ==
  \A i, j \in DOMAIN s :
    (i < j /\ s[i] = "unhealthy" /\ s[j] = "unhealthy")
      => \E k \in i .. j : s[k] = "healthy"

\* Then the loop knows, and is not about to say so again.
Alternates ==
  UnhealthyLast(sent) =>
    unhealthy /\ ~(health \in {"report", "commit"} /\ verdict = "unhealthy")

Verdicting == FailuresCounted /\ Alternates /\ HealthyBetween(sent)

\* What one more event does to the order of the verdicts.
LEMMA AppendOrder ==
  ASSUME NEW s \in Seq(Events), NEW e \in Events, NEW t, t = Append(s, e), HealthyBetween(s)
  PROVE  /\ e = "healthy" => (~UnhealthyLast(t) /\ HealthyBetween(t))
         /\ (e = "unhealthy" /\ ~UnhealthyLast(s)) => HealthyBetween(t)
         /\ e \notin Verdicts => (HealthyBetween(t) /\ (UnhealthyLast(t) => UnhealthyLast(s)))
<1>1. /\ Len(s) \in Nat
      /\ DOMAIN t = 1 .. Len(s) + 1
      /\ DOMAIN s = 1 .. Len(s)
      /\ \A i \in 1 .. Len(s) : t[i] = s[i]
      /\ t[Len(s) + 1] = e
  BY PushEffect
<1>2. ASSUME e # "unhealthy" PROVE HealthyBetween(t)
  <2> SUFFICES ASSUME NEW i \in DOMAIN t, NEW j \in DOMAIN t, i < j,
                      t[i] = "unhealthy", t[j] = "unhealthy"
               PROVE  \E k \in i .. j : t[k] = "healthy"
    BY DEF HealthyBetween
  <2>1. i \in DOMAIN s /\ j \in DOMAIN s /\ s[i] = "unhealthy" /\ s[j] = "unhealthy"
    BY <1>1, <1>2
  <2>2. PICK k \in i .. j : s[k] = "healthy" BY <2>1 DEF HealthyBetween
  <2>3. k \in 1 .. Len(s) BY <1>1, <2>1
  <2> QED BY <1>1, <2>2, <2>3
<1>3. ASSUME e = "healthy" PROVE ~UnhealthyLast(t)
  <2> SUFFICES ASSUME NEW i \in DOMAIN t, t[i] = "unhealthy"
               PROVE  \E k \in DOMAIN t : k > i /\ t[k] = "healthy"
    BY DEF UnhealthyLast
  <2>1. i \in 1 .. Len(s) BY <1>1, <1>3
  <2> WITNESS Len(s) + 1 \in DOMAIN t
  <2> QED BY <1>1, <1>3, <2>1
<1>4. ASSUME e = "unhealthy", ~UnhealthyLast(s) PROVE HealthyBetween(t)
  <2> SUFFICES ASSUME NEW i \in DOMAIN t, NEW j \in DOMAIN t, i < j,
                      t[i] = "unhealthy", t[j] = "unhealthy"
               PROVE  \E k \in i .. j : t[k] = "healthy"
    BY DEF HealthyBetween
  <2>1. i \in DOMAIN s /\ s[i] = "unhealthy" BY <1>1
  <2>2. CASE j \in DOMAIN s
    <3>1. s[j] = "unhealthy" BY <1>1, <2>2
    <3>2. PICK k \in i .. j : s[k] = "healthy" BY <2>1, <2>2, <3>1 DEF HealthyBetween
    <3>3. k \in 1 .. Len(s) BY <1>1, <2>1, <2>2
    <3> QED BY <1>1, <3>2, <3>3
  <2>3. CASE j \notin DOMAIN s
    <3>1. j = Len(s) + 1 BY <1>1, <2>3
    <3>2. PICK k \in DOMAIN s : k > i /\ s[k] = "healthy"
      BY <1>4, <2>1 DEF UnhealthyLast
    <3>3. k \in i .. j /\ t[k] = "healthy" BY <1>1, <2>1, <3>1, <3>2
    <3> QED BY <3>3
  <2> QED BY <2>2, <2>3
<1>5. ASSUME e \notin Verdicts, UnhealthyLast(t) PROVE UnhealthyLast(s)
  <2>1. PICK i \in DOMAIN t : t[i] = "unhealthy" /\ \A k \in DOMAIN t : k > i => t[k] # "healthy"
    BY <1>5 DEF UnhealthyLast
  <2>2. i \in DOMAIN s BY <1>1, <1>5, <2>1 DEF Verdicts
  <2>3. s[i] = "unhealthy" /\ \A k \in DOMAIN s : k > i => s[k] # "healthy"
    BY <1>1, <2>1, <2>2
  <2> QED BY <2>2, <2>3 DEF UnhealthyLast
<1> QED BY <1>2, <1>3, <1>4, <1>5 DEF Verdicts
\* A step of the other tasks leaves the loop alone, or aborts it.
LEMMA LoopUntouched ==
  ASSUME Next,
         ~(ProbePassed \/ ProbeFailed \/ ProbeCancelled \/ NextProbe \/ SleepCancelled
           \/ CheckTokens \/ ReportCancelled \/ SendVerdict \/ SendWaits \/ SendFails
           \/ \E o \in {"success", "failure", "cancelled"} : ProbeEnds(o))
  PROVE  UNCHANGED probeVars /\ (health' = health \/ health' = "done")
  BY DEF Next, WaiterStep, ProbeStep, CommitStep, ChildExits, RequestStop, Receive, CloseChannel,
    Request, SendKilled, DetachKilled, ForceKill, HangUp, WaitDone, HealthStopped,
    StopHealthTimesOut, SendExited, SendKilledDetached

\* Every step keeps the failures counted.
LEMMA CountStep == ASSUME ProbeType, ProbeSense, FailuresCounted, Next PROVE FailuresCounted'
<1> USE DEF FailuresCounted, Undecided, Uncounted, ProbeType, Verdicts
<1>1. CASE NextProbe BY <1>1 DEF NextProbe, probeVars
<1>2. CASE SleepCancelled BY <1>2 DEF SleepCancelled, probeVars
<1>3. ASSUME NEW o \in {"success", "failure", "cancelled"}, ProbeEnds(o) PROVE FailuresCounted'
  <2>1. health = "probe" /\ health' = "wrapUp" /\ outcome' = o /\ UNCHANGED <<verdict, attempt>>
    BY <1>3 DEF ProbeEnds
  <2>2. failures = Retries \/ attempt <= failures BY <2>1
  <2>3. CASE o = "success" BY <1>3, <2>1, <2>3 DEF ProbeEnds
  <2>4. CASE o = "failure"
    <3>1. failures' = IF failures < Retries THEN failures + 1 ELSE failures
      BY <1>3, <2>4 DEF ProbeEnds
    <3> QED BY <2>1, <2>2, <2>4, <3>1
  <2>5. CASE o = "cancelled" BY <1>3, <2>1, <2>2, <2>5 DEF ProbeEnds
  <2> QED BY <2>3, <2>4, <2>5
<1>4. CASE ProbePassed BY <1>4 DEF ProbePassed
<1>5. CASE ProbeFailed
  <2>1. failures = Retries \/ attempt + 1 <= failures BY <1>5 DEF ProbeFailed
  <2>2. outcome' = "none" /\ failures' = failures BY <1>5 DEF ProbeFailed
  <2>3. CASE unhealthy BY <1>5, <2>1, <2>2, <2>3 DEF ProbeFailed
  <2>4. CASE ~unhealthy /\ attempt + 1 >= Retries
    <3>1. failures = Retries BY <2>1, <2>4
    <3>2. health' = "report" /\ verdict' = "unhealthy" BY <1>5, <2>4 DEF ProbeFailed
    <3> QED BY <2>2, <3>1, <3>2
  <2>5. CASE ~unhealthy /\ ~(attempt + 1 >= Retries)
    <3>1. attempt' = attempt + 1 /\ health' = "idle" BY <1>5, <2>5 DEF ProbeFailed
    <3> QED BY <2>1, <2>2, <3>1
  <2> QED BY <2>3, <2>4, <2>5
<1>6. CASE ProbeCancelled BY <1>6 DEF ProbeCancelled
<1>7. CASE CheckTokens BY <1>7 DEF CheckTokens, probeVars
<1>8. CASE ReportCancelled BY <1>8 DEF ReportCancelled
<1>9. CASE SendVerdict
  <2>1. verdict \in Verdicts BY <1>9 DEF SendVerdict, ProbeSense
  <2>2. /\ health = "commit" /\ health' = "idle" /\ verdict' = "none" /\ failures' = failures
        /\ attempt' = IF verdict = "healthy" THEN 0 ELSE attempt
    BY <1>9 DEF SendVerdict
  <2> QED BY <2>1, <2>2
<1>10. CASE SendWaits BY <1>10 DEF SendWaits, probeVars
<1>11. CASE SendFails BY <1>11 DEF SendFails
<1>12. CASE UNCHANGED probeVars /\ (health' = health \/ health' = "done")
  BY <1>12 DEF probeVars
<1> QED
  BY <1>1, <1>2, <1>3, <1>4, <1>5, <1>6, <1>7, <1>8, <1>9, <1>10, <1>11, <1>12, LoopUntouched

\* The order of the verdicts, over a step.
OrderKept == Alternates /\ HealthyBetween(sent)

\* A report that is not a verdict.
LEMMA OtherSent ==
  ASSUME ChannelType, OrderKept, Push("killed") \/ Push("exited"),
         UNCHANGED <<unhealthy, verdict>>, health' = health
  PROVE  OrderKept'
<1>1. PICK e \in {"killed", "exited"} : Push(e) OBVIOUS
<1>2. CASE ~open
  <2> sent' = sent BY <1>1, <1>2 DEF Push
  <2> QED BY DEF OrderKept, Alternates
<1>3. CASE open
  <2>1. sent' = Append(sent, e) BY <1>1, <1>3 DEF Push
  <2>2. HealthyBetween(sent') /\ (UnhealthyLast(sent') => UnhealthyLast(sent))
    BY <2>1, AppendOrder DEF Events, Verdicts, ChannelType, OrderKept
  <2> QED BY <2>2 DEF OrderKept, Alternates
<1> QED BY <1>2, <1>3

\* Every step keeps the verdicts in order.
LEMMA OrderStep == ASSUME ChannelType, ProbeSense, OrderKept, Next PROVE OrderKept'
<1>1. CASE SendKilled BY <1>1, OtherSent DEF SendKilled, probeVars
<1>2. CASE SendKilledDetached BY <1>2, OtherSent DEF SendKilledDetached, probeVars
<1>3. CASE SendExited BY <1>3, OtherSent DEF SendExited, probeVars
<1>4. CASE SendVerdict
  <2>1. /\ sent' = Append(sent, verdict) /\ verdict \in Verdicts
        /\ health = "commit" /\ health' = "idle"
        /\ unhealthy' = (verdict = "unhealthy")
    BY <1>4 DEF SendVerdict, Push, ProbeSense
  <2>2. verdict = "unhealthy" => ~UnhealthyLast(sent) BY <2>1 DEF OrderKept, Alternates
  <2>3. HealthyBetween(sent') /\ (verdict = "healthy" => ~UnhealthyLast(sent'))
    BY <2>1, <2>2, AppendOrder DEF Events, Verdicts, ChannelType, OrderKept
  <2>4. Alternates' BY <2>1, <2>3 DEF Alternates, Verdicts
  <2> QED BY <2>3, <2>4 DEF OrderKept
<1>5. CASE UNCHANGED sent
  <2> SUFFICES Alternates' BY <1>5 DEF OrderKept
  <2> USE <1>5 DEF OrderKept, Alternates
  <2>1. CASE ProbePassed BY <2>1 DEF ProbePassed
  <2>2. CASE ProbeFailed BY <2>2 DEF ProbeFailed
  <2>3. CASE NextProbe \/ SleepCancelled \/ CheckTokens \/ SendWaits
    BY <2>3 DEF NextProbe, SleepCancelled, CheckTokens, SendWaits, probeVars
  <2>4. CASE ProbeCancelled \/ ReportCancelled \/ SendFails
    BY <2>4 DEF ProbeCancelled, ReportCancelled, SendFails
  <2>5. ASSUME NEW o \in {"success", "failure", "cancelled"}, ProbeEnds(o) PROVE Alternates'
    BY <2>5 DEF ProbeEnds
  <2>6. CASE SendVerdict BY <2>6, <1>4
  <2>7. CASE UNCHANGED probeVars /\ (health' = health \/ health' = "done")
    BY <2>7 DEF probeVars
  <2> QED BY <2>1, <2>2, <2>3, <2>4, <2>5, <2>6, <2>7, LoopUntouched
<1>6. \/ SendKilled \/ SendKilledDetached \/ SendExited \/ SendVerdict \/ UNCHANGED sent
  BY DEF Next, WaiterStep, ProbeStep, CommitStep, ChildExits, RequestStop, Receive, CloseChannel,
    Request, DetachKilled, ForceKill, HangUp, WaitDone, HealthStopped, StopHealthTimesOut,
    NextProbe, SleepCancelled, ProbeEnds, ProbePassed, ProbeFailed, ProbeCancelled, CheckTokens,
    ReportCancelled, SendWaits, SendFails, channelVars
<1> QED BY <1>1, <1>2, <1>3, <1>4, <1>5, <1>6

\* Every step keeps each verdict earned.
LEMMA VerdictingStep == ASSUME RunIInv, Verdicting, [Next]_vars PROVE Verdicting'
<1>1. ChannelType /\ ProbeType /\ ProbeSense BY TypeParts DEF RunIInv
<1>2. CASE Next BY <1>1, <1>2, CountStep, OrderStep DEF Verdicting, OrderKept
<1>3. CASE UNCHANGED vars
  BY <1>3 DEF vars, probeVars, channelVars, Verdicting, FailuresCounted, Undecided, Uncounted,
    Alternates
<1> QED BY <1>2, <1>3

\* Unhealthy is earned by as many failures in a row as the configuration
\* says, is not repeated before a Healthy, and a Healthy is sent only after a
\* probe that passed with none since that failed.
THEOREM VerdictEarnedHolds == Spec => []VerdictEarned
<1>1. Init => Verdicting
  BY DEF Init, Verdicting, FailuresCounted, Undecided, Uncounted, Alternates, UnhealthyLast,
    HealthyBetween
<1>2. RunIInv /\ Verdicting /\ [Next]_vars => Verdicting' BY VerdictingStep
<1>3. RunIInv /\ Verdicting => VerdictEarned
  <2> SUFFICES ASSUME RunIInv, Verdicting PROVE VerdictEarned OBVIOUS
  <2>1. verdict \in Verdicts \/ health # "commit" BY DEF RunIInv, ProbeSense
  <2> QED BY <2>1 DEF Verdicting, FailuresCounted, HealthyBetween, VerdictEarned, Verdicts
<1> QED BY <1>1, <1>2, <1>3, RunInvariance, PTL DEF Spec
=============================================================================
