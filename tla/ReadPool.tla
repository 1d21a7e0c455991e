------------------------------- MODULE ReadPool -------------------------------
(***************************************************************************)
(* The pool of blocking disk log reads (server/unix/log_reads.rs): callers *)
(* queue reads for a few worker threads and may leave, by their deadline,  *)
(* the client's or the session's end, while a read that cannot be          *)
(* cancelled is queued or running.  Each atomic access is a step.          *)
(***************************************************************************)
EXTENDS Naturals, Sequences, FiniteSets

CONSTANTS
  Requests,  \* reads asked for
  Workers,   \* WORKER_COUNT threads
  Capacity,  \* QUEUE_CAPACITY
  Word       \* the counters are usize: modulo this

\* Assumed by the modules that instantiate this one.
ReadPoolAssumption ==
  /\ IsFiniteSet(Requests) /\ IsFiniteSet(Workers) /\ Workers # {}
  /\ Capacity \in Nat /\ Word \in Nat
  /\ Word > Capacity + Cardinality(Workers) + Cardinality(Requests)

VARIABLES
  pool,       \* PoolRegistryState: none, started
  channel,    \* the jobs sent to the workers
  queued, active, abandoned,   \* PoolHealth
  caller,     \* where each call of run is
  job,        \* JobState of each request
  sent,       \* requests whose response was sent
  worker      \* [pc, job, was: the state that the worker's swap returned]

countVars == <<queued, active, abandoned>>
poolVars == <<pool, channel, countVars, caller, job, sent, worker>>

Idle == [pc |-> "idle"]
Up(n) == (n + 1) % Word
Down(n) == (n + Word - 1) % Word

-----------------------------------------------------------------------------
(* BlockingLogReadPool::run. *)

Moves(r, pc) == caller' = [caller EXCEPT ![r] = pc]

\* PoolRegistry::get_or_start: a start that failed is tried again by the next
\* read, and fails the one that tried.
GetOrStart(r) ==
  /\ caller[r] = "idle" /\ pool = "none"
  /\ \/ pool' = "started" /\ UNCHANGED caller
     \/ Moves(r, "done") /\ UNCHANGED pool
  /\ UNCHANGED <<channel, countVars, job, sent, worker>>

AllWorkersAbandoned == abandoned >= Cardinality(Workers)

Call(r) ==
  /\ caller[r] = "idle" /\ pool = "started"
  /\ Moves(r, IF AllWorkersAbandoned THEN "done" ELSE "admitted")
  /\ UNCHANGED <<pool, channel, countVars, job, sent, worker>>

ReserveQueueSlot(r) ==
  /\ caller[r] = "admitted"
  /\ IF queued < Capacity THEN Moves(r, "reserved") /\ queued' = Up(queued)
                           ELSE Moves(r, "done") /\ UNCHANGED queued
  /\ UNCHANGED <<pool, channel, active, abandoned, job, sent, worker>>

\* A job that the channel does not take is dropped with its permit.
TrySend(r) ==
  /\ caller[r] = "reserved"
  /\ IF Len(channel) < Capacity
       THEN /\ channel' = Append(channel, r) /\ Moves(r, "waiting")
            /\ UNCHANGED <<queued, job>>
       ELSE /\ queued' = Down(queued) /\ job' = [job EXCEPT ![r] = "canceled"]
            /\ Moves(r, "done") /\ UNCHANGED channel
  /\ UNCHANGED <<pool, active, abandoned, sent, worker>>

Answered(r) ==
  /\ caller[r] = "waiting" /\ r \in sent
  /\ Moves(r, "done")
  /\ UNCHANGED <<pool, channel, countVars, job, sent, worker>>

\* Mutant: a read that is still queued is abandoned as well.
LeftBehindAlways(state) == IF state = "complete" THEN state ELSE "abandoned"

\* JobState::caller_left: the compare_exchange.
LeftBehind(state) ==
  CASE state = "queued" -> "canceled"
    [] state = "active" -> "abandoned"
    [] OTHER -> state

\* RequestGuard::drop, when the wait ends without an answer.
Leave(r) ==
  /\ caller[r] = "waiting"
  /\ LET left == LeftBehind(job[r])
     IN  /\ job' = [job EXCEPT ![r] = left]
         /\ Moves(r, IF left = "abandoned" THEN "leaving" ELSE "done")
  /\ UNCHANGED <<pool, channel, countVars, sent, worker>>

\* The counter follows the state.
CountAbandoned(r) ==
  /\ caller[r] = "leaving"
  /\ abandoned' = Up(abandoned)
  /\ Moves(r, "done")
  /\ UNCHANGED <<pool, channel, queued, active, job, sent, worker>>

-----------------------------------------------------------------------------
(* worker. *)

Doing(w, pc) == worker[w].pc = pc
To(w, pc) == worker' = [worker EXCEPT ![w].pc = pc]

Receive(w) ==
  /\ pool = "started" /\ Doing(w, "idle") /\ channel # <<>>
  /\ channel' = Tail(channel)
  /\ worker' = [worker EXCEPT ![w] = [pc |-> "received", job |-> Head(channel), was |-> "queued"]]
  /\ UNCHANGED <<pool, countVars, caller, job, sent>>

DropPermit(w) ==
  /\ Doing(w, "received")
  /\ queued' = Down(queued)
  /\ To(w, "claiming")
  /\ UNCHANGED <<pool, channel, active, abandoned, caller, job, sent>>

\* A read whose caller has left is not begun.
Claim(w) ==
  /\ Doing(w, "claiming")
  /\ IF job[worker[w].job] = "queued"
       THEN job' = [job EXCEPT ![worker[w].job] = "active"] /\ To(w, "claimed")
       ELSE worker' = [worker EXCEPT ![w] = Idle] /\ UNCHANGED job
  /\ UNCHANGED <<pool, channel, countVars, caller, sent>>

CountActive(w) ==
  /\ Doing(w, "claimed")
  /\ active' = Up(active)
  /\ To(w, "reading")
  /\ UNCHANGED <<pool, channel, queued, abandoned, caller, job, sent>>

\* The read returns or panics.
FinishRead(w) ==
  /\ Doing(w, "reading")
  /\ worker' = [worker EXCEPT ![w].pc = "finished", ![w].was = job[worker[w].job]]
  /\ job' = [job EXCEPT ![worker[w].job] = "complete"]
  /\ UNCHANGED <<pool, channel, countVars, caller, sent>>

UncountActive(w) ==
  /\ Doing(w, "finished")
  /\ active' = Down(active)
  /\ To(w, IF worker[w].was = "abandoned" THEN "released" ELSE "answering")
  /\ UNCHANGED <<pool, channel, queued, abandoned, caller, job, sent>>

UncountAbandoned(w) ==
  /\ Doing(w, "released")
  /\ abandoned' = Down(abandoned)
  /\ To(w, "answering")
  /\ UNCHANGED <<pool, channel, queued, active, caller, job, sent>>

SendResponse(w) ==
  /\ Doing(w, "answering")
  /\ sent' = sent \cup {worker[w].job}
  /\ worker' = [worker EXCEPT ![w] = Idle]
  /\ UNCHANGED <<pool, channel, countVars, caller, job>>

-----------------------------------------------------------------------------
PoolInit ==
  /\ pool = "none" /\ channel = <<>>
  /\ queued = 0 /\ active = 0 /\ abandoned = 0
  /\ caller = [r \in Requests |-> "idle"]
  /\ job = [r \in Requests |-> "queued"]
  /\ sent = {}
  /\ worker = [w \in Workers |-> Idle]

Run(r) ==
  \/ GetOrStart(r) \/ Call(r) \/ ReserveQueueSlot(r) \/ TrySend(r)
  \/ Answered(r) \/ Leave(r) \/ CountAbandoned(r)
Work(w) ==
  \/ Receive(w) \/ DropPermit(w) \/ Claim(w) \/ CountActive(w) \/ FinishRead(w)
  \/ UncountActive(w) \/ UncountAbandoned(w) \/ SendResponse(w)

PoolNext == (\E r \in Requests : Run(r)) \/ (\E w \in Workers : Work(w))

PoolSpec == PoolInit /\ [][PoolNext]_poolVars

-----------------------------------------------------------------------------
\* The worker runs, or finishes, a read that its caller has left.
Abandoned(w) ==
  \/ worker[w].pc \in {"claimed", "reading"} /\ job[worker[w].job] = "abandoned"
  \/ worker[w].pc \in {"finished", "released"} /\ worker[w].was = "abandoned"

(* Every slot is given back once, whenever its caller leaves: a queue slot is  *)
(* held by a call that is about to send, a queued job or a worker that has     *)
(* just taken one; the channel never refuses a job that has a slot; active     *)
(* counts the reads and abandoned, up to the callers that are still to count,  *)
(* those that were left.  So a pool that takes itself for lost to stalled      *)
(* reads is, except while such a caller makes the counter wrap below zero      *)
(* (log_reads.rs:135).                                                         *)
SlotsAccounted ==
  LET leaving == {r \in Requests : caller[r] = "leaving"}
      lost == {w \in Workers : Abandoned(w)}
  IN  /\ queued = Cardinality({r \in Requests : caller[r] = "reserved"})
                    + Len(channel) + Cardinality({w \in Workers : Doing(w, "received")})
      /\ queued <= Capacity
      /\ \A r \in Requests : caller[r] = "reserved" => Len(channel) < Capacity
      /\ active = Cardinality({w \in Workers : worker[w].pc \in {"reading", "finished"}})
      /\ (abandoned + Cardinality(leaving)) % Word = Cardinality(lost)
      /\ AllWorkersAbandoned => (lost = Workers \/ leaving # {})
=============================================================================
