-------------------------------- MODULE Mirror --------------------------------
(***************************************************************************)
(* An attached client's mirror of one service of a session (micromux-tui   *)
(* remote.rs), kept over the control socket (micromux-control client.rs,   *)
(* server/unix.rs): requests and answers on one connection, a stream of    *)
(* changes on another.  The session writes its model and publishes the     *)
(* change afterwards; each subscriber has a bounded broadcast queue that   *)
(* may lag; either connection may break, and the session may be another    *)
(* one when the client is back.                                            *)
(*                                                                         *)
(* Changes that are on their way are a set: one that is there twice would  *)
(* only make the client read the same again.  "roster" stands for the      *)
(* kinds Status, Roster and Unknown, which are handled alike.  A line's    *)
(* text is the session it is from and how often it was replaced.           *)
(***************************************************************************)
EXTENDS Naturals, Sequences, FiniteSets, SequencesExt

CONSTANTS
  LogMax,      \* lines of the visible log that the session retains
  PageMax,     \* MAX_LOG_TAIL: lines of one answer
  MirrorTail,  \* REMOTE_LOG_TAIL
  MaxWrites,   \* bound: writes to the session's model
  MaxBreaks    \* bound: connections lost

\* Assumed by the modules that instantiate this one.
MirrorAssumption ==
  /\ {LogMax, PageMax, MirrorTail, MaxWrites} \subseteq Nat \ {0}
  /\ MirrorTail <= PageMax
  /\ MaxBreaks \in Nat

VARIABLES
  srv,       \* the session: [instance, alive, status, gen, health, log, next,
             \*  clear: clear_logs_on_start, starting: cleared, not yet shown]
  due,       \* changes written while there was no subscription to publish
             \*  them to, and not yet published
  sub,       \* the subscription at the server: none, sent, open
  wire,      \* changes in its queue or sent to the client
  mirror,    \* MirrorStore: [instance, known, status, gen, health, log, next,
             \*  clearAfter: clear_logs_after_generation, 0: none]
  todo,      \* what the mirror's task is doing, the next step first
  connected, \* MirrorStore::connected
  answer,    \* the observed generation in a restart's acknowledgement
  writes,    \* bound
  breaks,    \* bound
  excused,   \* history: "gap", a change was published after the second sync
             \*  had begun and before the server took up the subscription;
             \*  "reuse", the id was inserted anew while the mirror knew the
             \*  old; "pages", the last line was replaced between two pages
  ownClear   \* history: [asked, acked, seq: the last line before the clear]

modelVars == <<srv, due>>
streamVars == <<sub, wire>>
taskVars == <<mirror, todo, connected, answer>>
mirrorVars == <<modelVars, streamVars, taskVars, writes, breaks, excused, ownClear>>

Kinds == {"roster", "logs", "health"}
Least(n, m) == IF n < m THEN n ELSE m
Newest(s, n) == SubSeq(s, (IF Len(s) > n THEN Len(s) - n ELSE 0) + 1, Len(s))
Oldest(s, n) == SubSeq(s, 1, Least(n, Len(s)))

-----------------------------------------------------------------------------
(* The session. *)

Line(n, instance) == [seq |-> n, text |-> <<instance, 0>>]

\* A service that has been running for a while.
RunningService(instance) ==
  [instance |-> instance, alive |-> TRUE, status |-> 0, gen |-> 1, health |-> 0,
   log |-> [n \in 1..LogMax |-> Line(n, instance)], next |-> LogMax + 1,
   clear |-> FALSE, starting |-> FALSE]

NewService == [RunningService(srv.instance) EXCEPT !.log = <<>>, !.next = 1]

Performing(op) == todo # <<>> /\ Head(todo) = op

\* A write, and its publication if there is a subscription: that it comes
\* later makes no difference then.
Changes(kinds) ==
  /\ writes < MaxWrites /\ writes' = writes + 1
  /\ IF sub = "open" THEN wire' = wire \cup kinds /\ UNCHANGED due
                      ELSE due' = due \cup kinds /\ UNCHANGED wire

WriteModel(service, kinds) ==
  /\ Changes(kinds) /\ srv' = service
  /\ UNCHANGED <<sub, taskVars, breaks>>

AppendLine ==
  /\ srv.alive
  /\ WriteModel([srv EXCEPT !.log = Newest(Append(@, Line(srv.next, srv.instance)), LogMax),
                       !.next = @ + 1], {"logs"})
  /\ UNCHANGED <<excused, ownClear>>

\* The next frame of a live screen keeps its number.
ReplaceLine ==
  /\ srv.alive /\ srv.log # <<>>
  /\ LET frame == Last(srv.log).text
         next == [seq |-> Last(srv.log).seq, text |-> <<frame[1], frame[2] + 1>>]
     IN  WriteModel([srv EXCEPT !.log = [srv.log EXCEPT ![Len(srv.log)] = next]], {"logs"})
  /\ excused' = excused \cup
       (IF Performing("more") /\ mirror.next = srv.next - 1 THEN {"pages"} ELSE {})
  /\ UNCHANGED ownClear

ChangeStatus ==
  /\ srv.alive /\ srv.status = 0
  /\ WriteModel([srv EXCEPT !.status = 1], {"roster"})
  /\ UNCHANGED <<excused, ownClear>>

ChangeHealth ==
  /\ srv.alive /\ srv.health = 0
  /\ WriteModel([srv EXCEPT !.health = 1], {"health"})
  /\ UNCHANGED <<excused, ownClear>>

\* Another client restarts the service.
RestartByOther ==
  /\ srv.alive /\ ~srv.clear
  /\ WriteModel([srv EXCEPT !.clear = TRUE], {"roster"})
  /\ UNCHANGED <<excused, ownClear>>

\* start_service: the log is cleared first; the snapshot with the new
\* generation is written when the process is there.
StartClears ==
  /\ srv.alive /\ srv.clear /\ ~srv.starting
  /\ WriteModel([srv EXCEPT !.log = <<>>, !.clear = FALSE, !.starting = TRUE], {"logs"})
  /\ ownClear' = [ownClear EXCEPT !.seq = IF ownClear.asked THEN srv.next - 1 ELSE @,
                                  !.asked = FALSE]
  /\ UNCHANGED excused

StartShows ==
  /\ srv.alive /\ srv.starting
  /\ WriteModel([srv EXCEPT !.gen = @ + 1, !.starting = FALSE], {"roster"})
  /\ UNCHANGED <<excused, ownClear>>

RemoveService ==
  /\ srv.alive /\ ~srv.clear /\ ~srv.starting
  /\ WriteModel([srv EXCEPT !.alive = FALSE], {"roster"})
  /\ UNCHANGED <<excused, ownClear>>

InsertService ==
  /\ ~srv.alive
  /\ WriteModel(NewService, {"roster"})
  /\ excused' = excused \cup (IF mirror.known THEN {"reuse"} ELSE {})
  /\ ownClear' = [asked |-> FALSE, acked |-> FALSE, seq |-> 0]

-----------------------------------------------------------------------------
(* The stream of changes. *)

\* Inner::publish: to the subscribers that there are.
Publish(kind) ==
  /\ kind \in due
  /\ due' = due \ {kind}
  /\ wire' = IF sub = "open" THEN wire \cup {kind} ELSE wire
  /\ excused' = excused \cup
       (IF sub = "sent" /\ (todo = <<>> \/ Head(todo) # "listAll") THEN {"gap"} ELSE {})
  /\ UNCHANGED <<srv, sub, taskVars, writes, breaks, ownClear>>

\* stream_changes subscribes to the model when its connection's task has read
\* the request.
TakeUp ==
  /\ sub = "sent"
  /\ sub' = "open"
  /\ UNCHANGED <<modelVars, wire, taskVars, writes, breaks, excused, ownClear>>

\* lag_replay_changes: everything that may have changed.
LagReplayChanges == {"roster"} \cup (IF srv.alive THEN {"logs", "health"} ELSE {})

\* The queue has overflowed: whatever is left of it, something was lost
\* (RecvError::Lagged).
Lagged(left) ==
  /\ sub = "open" /\ wire # {} /\ left \subseteq wire
  /\ wire' = left \cup LagReplayChanges
  /\ UNCHANGED <<modelVars, sub, taskVars, writes, breaks, excused, ownClear>>

-----------------------------------------------------------------------------
(* The mirror's task: establish, then run_connected.  A request and its      *)
(* answer are one step; the task is between two steps when it awaits.        *)

Unknown(m) ==
  [m EXCEPT !.known = FALSE, !.status = 0, !.gen = 0, !.health = 0, !.log = <<>>,
            !.next = 0, !.clearAfter = 0]

\* append_log_page: its loop takes one line after the other.
AppendLogLine(m, line) ==
  IF m.log # <<>> /\ Last(m.log).seq = line.seq
    THEN [m EXCEPT !.log = [m.log EXCEPT ![Len(m.log)] = line]]
  ELSE IF line.seq > m.next
    THEN [m EXCEPT !.log = Append(m.log, line), !.next = line.seq]
  ELSE m

Appended(m, lines) ==
  LET after[n \in 0..Len(lines)] ==
        IF n = 0 THEN m ELSE AppendLogLine(after[n - 1], lines[n])
  IN  after[Len(lines)]

AppendLogPage(m, lines) ==
  [Appended(m, lines) EXCEPT !.log = Newest(@, MirrorTail)]

ReplaceLogTail(m, lines) == AppendLogPage([m EXCEPT !.log = <<>>, !.next = 0], lines)

TaskStep(m, rest) ==
  /\ mirror' = m /\ todo' = rest
  /\ UNCHANGED <<modelVars, streamVars, connected, answer, writes, breaks, excused, ownClear>>

\* establish, with subscribe_without_sync_gap.
Handoff == <<"describe", "listAll", "subscribe", "listAll">>

Establish ==
  /\ ~connected /\ todo = <<>>
  /\ TaskStep(mirror, Handoff)

\* update_session: another instance, another mirror.
Describe ==
  /\ Performing("describe")
  /\ TaskStep([(IF mirror.instance = srv.instance THEN mirror ELSE Unknown(mirror))
             EXCEPT !.instance = srv.instance], Tail(todo))

\* Client::subscribe_for_version: the request is written; nothing answers it.
Subscribe ==
  /\ Performing("subscribe")
  /\ sub' = "sent" /\ todo' = Tail(todo)
  /\ UNCHANGED <<modelVars, wire, mirror, connected, answer, writes,
                 breaks, excused, ownClear>>

Established ==
  /\ ~connected /\ sub # "none" /\ todo = <<>>
  /\ connected' = TRUE
  /\ UNCHANGED <<modelVars, streamVars, mirror, todo, answer, writes, breaks, excused, ownClear>>

Clears(m) == m.known /\ m.clearAfter # 0 /\ srv.gen > m.clearAfter

\* reconcile_services.
ReconciledServices(m) ==
  IF ~srv.alive THEN Unknown(m)
  ELSE [(IF Clears(m) THEN [ReplaceLogTail(m, <<>>) EXCEPT !.clearAfter = 0] ELSE m)
          EXCEPT !.known = TRUE, !.status = srv.status, !.gen = srv.gen]

\* full_sync reads the logs and health of every service, refresh_roster of
\* those that are new or were cleared.
ListServices(op) ==
  /\ Performing(op)
  /\ LET hydrates == srv.alive /\ (op = "listAll" \/ ~mirror.known \/ Clears(mirror))
     IN  TaskStep(ReconciledServices(mirror),
              (IF hydrates THEN <<"logs", "health">> ELSE <<>>) \o Tail(todo))

\* follow_logs: forward from a cursor, or the end (0: no cursor).
PartitionPoint(n) ==
  CHOOSE k \in 0..Len(srv.log) : \A i \in DOMAIN srv.log : i <= k <=> srv.log[i].seq <= n
LinesSince(n) == SubSeq(srv.log, PartitionPoint(n) + 1, Len(srv.log))
FollowLogs(after) == Oldest(LinesSince(after), PageMax)
Truncated(after) == Len(LinesSince(after)) > PageMax
VisibleTail == Newest(srv.log, PageMax)
FirstRetained == IF srv.log = <<>> THEN 0 ELSE srv.log[1].seq

MustRetail(m, lines) ==
  /\ m.next > 0
  /\ FirstRetained > m.next + 1 \/ (lines = <<>> /\ FirstRetained > m.next)

\* Mutant: the last line is not read again.
RefetchFromNext(m) == m.next

\* refresh_logs asks for the line before its cursor again: it may have been
\* replaced.
RefetchFrom(m) == IF m.next = 0 THEN 0 ELSE m.next - 1

\* The first request of refresh_logs; "tail" and "more" are its later ones.
RefreshLogs ==
  /\ Performing("logs")
  /\ IF ~mirror.known THEN TaskStep(mirror, Tail(todo))
     ELSE IF ~srv.alive THEN TaskStep(Unknown(mirror), Tail(todo))
     ELSE LET after == RefetchFrom(mirror)
              whole == mirror.next = 0
              lines == IF whole THEN VisibleTail ELSE FollowLogs(after)
              more == IF whole THEN Len(srv.log) > PageMax ELSE Truncated(after)
          IN  IF MustRetail(mirror, lines)
                THEN TaskStep(mirror, <<"tail">> \o Tail(todo))
                ELSE TaskStep(AppendLogPage(mirror, lines),
                          (IF more THEN <<"more">> ELSE <<>>) \o Tail(todo))

Retail ==
  /\ Performing("tail")
  /\ TaskStep(IF srv.alive THEN ReplaceLogTail(mirror, VisibleTail) ELSE Unknown(mirror),
          Tail(todo))

NextPage ==
  /\ Performing("more")
  /\ IF srv.alive
       THEN LET after == mirror.next
            IN  TaskStep(AppendLogPage(mirror, FollowLogs(after)),
                     (IF Truncated(after) THEN <<"more">> ELSE <<>>) \o Tail(todo))
       ELSE TaskStep(Unknown(mirror), Tail(todo))

RefreshHealth ==
  /\ Performing("health")
  /\ TaskStep(IF ~mirror.known THEN mirror
          ELSE IF srv.alive THEN [mirror EXCEPT !.health = srv.health]
          ELSE Unknown(mirror), Tail(todo))

\* One batch: what is ready is taken together and each kind refreshed once.
ReceiveBatch(batch) ==
  /\ connected /\ todo = <<>> /\ batch # {} /\ batch \subseteq wire
  /\ wire' = wire \ batch
  /\ todo' = (IF "roster" \in batch THEN <<"list">> ELSE <<>>)
               \o (IF "logs" \in batch THEN <<"logs">> ELSE <<>>)
               \o (IF "health" \in batch THEN <<"health">> ELSE <<>>)
  /\ UNCHANGED <<modelVars, sub, mirror, connected, answer, writes,
                 breaks, excused, ownClear>>

\* execute_command for a restart: the scheduler takes it up and answers with
\* the generation it saw; the answer is marked in the mirror when it is there.
RestartOwn ==
  /\ connected /\ todo = <<>> /\ srv.alive /\ mirror.known /\ ~srv.clear /\ ~srv.starting
  /\ Changes({"roster"}) /\ srv' = [srv EXCEPT !.clear = TRUE]
  /\ answer' = srv.gen /\ todo' = <<"ack">>
  /\ ownClear' = [ownClear EXCEPT !.asked = TRUE, !.acked = FALSE, !.seq = 0]
  /\ UNCHANGED <<sub, mirror, connected, breaks, excused>>

\* mark_pending_log_clears.
Marked(m, gen) ==
  IF m.known /\ m.clearAfter < gen THEN [m EXCEPT !.clearAfter = gen] ELSE m

RestartAcknowledged ==
  /\ Performing("ack")
  /\ mirror' = Marked(mirror, answer) /\ todo' = Tail(todo)
  /\ ownClear' = [ownClear EXCEPT !.acked = TRUE]
  /\ UNCHANGED <<modelVars, streamVars, connected, answer, writes, breaks, excused>>

\* A connection is lost; the session may be a new one by the time the client
\* is back (mark_disconnected).
Break(anew) ==
  /\ breaks < MaxBreaks /\ breaks' = breaks + 1
  /\ srv' = IF anew THEN RunningService(srv.instance + 1) ELSE srv
  /\ due' = IF anew THEN {} ELSE due
  /\ sub' = "none" /\ wire' = {}
  /\ todo' = <<>> /\ connected' = FALSE
  /\ ownClear' = IF anew THEN [asked |-> FALSE, acked |-> FALSE, seq |-> 0] ELSE ownClear
  /\ excused' = excused \ {"gap"}
  /\ UNCHANGED <<mirror, answer, writes>>

-----------------------------------------------------------------------------
\* A client that is attached (RemoteSource::connect establishes like a
\* reconnection does).
MirrorInit ==
  /\ srv = RunningService(1) /\ due = {}
  /\ sub = "open" /\ wire = {}
  /\ mirror = [instance |-> 1, known |-> TRUE, status |-> 0, gen |-> 1, health |-> 0,
               log |-> Newest(srv.log, MirrorTail), next |-> LogMax, clearAfter |-> 0]
  /\ todo = <<>> /\ connected = TRUE /\ answer = 0
  /\ writes = 0 /\ breaks = 0 /\ excused = {}
  /\ ownClear = [asked |-> FALSE, acked |-> FALSE, seq |-> 0]

Session ==
  \/ AppendLine \/ ReplaceLine \/ ChangeStatus \/ ChangeHealth
  \/ RestartByOther \/ StartClears \/ StartShows \/ RemoveService \/ InsertService
Stream ==
  \/ TakeUp \/ \E kind \in Kinds : Publish(kind)
  \/ \E left \in SUBSET Kinds : Lagged(left)
Client ==
  \/ (sub = "none" /\ Establish) \/ Established
  \/ Describe \/ Subscribe \/ ListServices("listAll") \/ ListServices("list")
  \/ RefreshLogs \/ Retail \/ NextPage \/ RefreshHealth
  \/ RestartOwn \/ RestartAcknowledged
  \/ \E batch \in SUBSET Kinds : ReceiveBatch(batch)

MirrorNext == Session \/ Stream \/ Client \/ \E anew \in BOOLEAN : Break(anew)

MirrorSpec == MirrorInit /\ [][MirrorNext]_mirrorVars

-----------------------------------------------------------------------------
InSync ==
  /\ connected /\ todo = <<>> /\ sub = "open"
  /\ due = {} /\ wire = {}

Agrees ==
  /\ mirror.known = srv.alive
  /\ srv.alive =>
       /\ mirror.status = srv.status /\ mirror.gen = srv.gen
       /\ mirror.health = srv.health
       /\ LET shared == Newest(srv.log, MirrorTail)
          IN  Newest(mirror.log, Len(shared)) = shared
       /\ (ownClear.acked /\ ownClear.seq # 0 /\ srv.gen > answer) =>
            \A l \in ToSet(mirror.log) : l.seq > ownClear.seq

(* When every change was published, sent and handled, the mirror is the   *)
(* session's state: the same roster, status, generation and health, the end of *)
(* the log up to the last frame of a live screen, and nothing from before a    *)
(* restart that was acknowledged to this client; whatever lagged, was batched, *)
(* broke or changed between two requests (unix.rs:418, remote.rs:421).         *)
(* Excepted are an id that was used again unseen, a frame replaced between the *)
(* pages of one read, and the gap of Handoff.                                  *)
MirrorFresh == (InSync /\ excused = {}) => Agrees

(* "changes during that sync stay queued for the connected loop, so the        *)
(* handoff cannot lose a transition" (remote.rs:427).                          *)
HandoffLossless == (InSync /\ excused \subseteq {"gap"}) => Agrees
=============================================================================
