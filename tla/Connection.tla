------------------------------ MODULE Connection ------------------------------
(***************************************************************************)
(* Requests of an agent's tools to a session: the connections and the      *)
(* framing buffers of client and server, the server's task per connection, *)
(* the command channel to the scheduler with a one-shot reply per command, *)
(* deadlines on both sides, retries and the end of the session.            *)
(***************************************************************************)
EXTENDS Naturals, Sequences, FiniteSets

CONSTANTS
  Callers,      \* tool calls, each made once
  ToolsOf,      \* for each, the tools it may be a call of
  Conns,        \* connections; one that both ends have left is used again
  Permits,      \* MAX_CONNECTIONS
  MailboxMax,   \* capacity of the command channel
  MaxRestarts   \* bound: restarts of the service

\* Assumed by the modules that instantiate this one.
ConnectionAssumption ==
  /\ IsFiniteSet(Callers) /\ "operator" \notin Callers /\ "none" \notin Callers
  /\ IsFiniteSet(Conns) /\ Conns \subseteq Nat \ {0}
  /\ ToolsOf \in [Callers -> SUBSET {"mutate", "dynamic", "diagnose", "shutdown"}]
  /\ Permits \in Nat \ {0} /\ MailboxMax \in Nat \ {0} /\ MaxRestarts \in Nat

VARIABLES
  call,        \* each tool call: where it is and how it ended
  conn,        \* each connection: both directions and the server's task
  mailbox,     \* commands on their way to the scheduler: [by, conn]
  listening,   \* the accept loop runs
  cancelled,   \* the session's shutdown token
  scheduler,   \* the scheduler takes commands
  restarting,  \* a restart was accepted that has not begun its run
  generation,  \* run_generation of the service
  applied      \* history: per call, the generations its commands met

serverVars == <<listening, cancelled, scheduler, restarting, generation, applied>>
connectionVars == <<call, conn, mailbox, serverVars>>

-----------------------------------------------------------------------------
(* Requests, responses and the tools.                                       *)

\* The response of the same kind as a request; the others are errors.
Kind(ask) ==
  CASE ask = "list" -> "services" [] ask = "health" -> "health"
    [] ask = "events" -> "events" [] ask = "logs" -> "logs"
    [] ask = "stop" -> "shutting_down" [] OTHER -> "accepted"
Mutations == {"restart", "start_dynamic"}
ErrorKinds == {"rejected", "scheduler_stopped", "timeout", "busy"}

\* Mutant: every request is repeated after the connection is lost.
RetrySafeAlways(ask) == TRUE

\* Request::is_retry_safe.
RetrySafe(ask) == ask \in {"list", "health", "events", "logs"}

\* The requests a tool makes in turn: best effort, or the tool fails with it;
\* on a connection of its own, or on the one before.
Step(ask, best, fresh) == [ask |-> ask, best |-> best, fresh |-> fresh]

\* capture_mutation_cursor reads on a disposable connection.
CaptureThenMutate ==
  <<Step("list", TRUE, TRUE), Step("restart", FALSE, TRUE)>>

Diagnosis ==
  <<Step("list", FALSE, TRUE), Step("health", TRUE, FALSE),
    Step("events", TRUE, FALSE), Step("logs", FALSE, FALSE)>>

Script(tool) ==
  CASE tool = "mutate" -> CaptureThenMutate
    [] tool = "diagnose" -> Diagnosis
    [] tool = "dynamic" -> <<Step("start_dynamic", FALSE, TRUE)>>
    [] tool = "shutdown" -> <<Step("stop", FALSE, TRUE)>>

Response(kind) == [kind |-> kind, generation |-> 0]
None == Response("none")

\* What convert makes of a response to a request.
Outcome(ask, response) ==
  IF response.kind = Kind(ask) THEN "ok"
  ELSE IF response.kind \in ErrorKinds THEN response.kind ELSE "mixed"

-----------------------------------------------------------------------------
(* The client: SessionConn and send_request.                                *)

NoCall == [tool |-> "none", step |-> 0, conn |-> 0, asked |-> FALSE,
         again |-> FALSE, outcome |-> "none", answer |-> None]
Running(c) == call[c].outcome = "running"
Now(c) == Script(call[c].tool)[call[c].step]

Unused == [client |-> FALSE, by |-> "none", up |-> <<>>, down |-> <<>>,
           task |-> "none", ask |-> "none", reply |-> None]

\* Both ends have left, and nothing waits for what it carried.
Free(k) ==
  /\ conn[k] = Unused
  /\ \A i \in DOMAIN mailbox : mailbox[i].conn # k

\* The client drops its end of connection k of cs.
Dropped(cs, k) ==
  IF k = 0 THEN cs
  ELSE [cs EXCEPT ![k] = IF @.task = "none" THEN Unused
                         ELSE [@ EXCEPT !.client = FALSE, !.down = <<>>]]

\* The call goes on after a request: to its next one, or to its end.  cs are
\* the connections as the request leaves them.
Proceed(c, outcome, answer, cs) ==
  LET this == call[c]
      last == this.step = Len(Script(this.tool))
      failed == outcome # "ok" /\ ~Now(c).best
      ends == last \/ failed
      closes == ends \/ Script(this.tool)[this.step + 1].fresh
  IN  /\ call' = [call EXCEPT ![c] =
            IF ends
              THEN [NoCall EXCEPT !.tool = this.tool, !.outcome = outcome, !.answer = answer]
              ELSE [this EXCEPT !.step = this.step + 1, !.asked = FALSE,
                                !.conn = IF closes THEN 0 ELSE this.conn,
                                !.again = ~closes /\ this.conn = 0]]
      /\ conn' = IF closes THEN Dropped(cs, this.conn) ELSE cs

BeginCall(c) ==
  /\ call[c] = NoCall
  /\ \E tool \in ToolsOf[c] :
       call' = [call EXCEPT ![c] = [NoCall EXCEPT !.tool = tool, !.step = 1,
                                               !.outcome = "running"]]
  /\ UNCHANGED <<conn, mailbox, serverVars>>

\* Client::connect.
Connect(c) ==
  /\ Running(c) /\ call[c].conn = 0 /\ listening
  /\ \E k \in Conns :
       /\ Free(k) /\ \A j \in Conns : Free(j) => k <= j
       /\ conn' = [conn EXCEPT ![k] = [Unused EXCEPT !.client = TRUE, !.by = c, !.task = "backlog"]]
       /\ call' = [call EXCEPT ![c].conn = k]
  /\ UNCHANGED <<mailbox, serverVars>>

ConnectFails(c) ==
  /\ Running(c) /\ call[c].conn = 0 /\ ~listening
  /\ Proceed(c, "lost", None, conn)
  /\ UNCHANGED <<mailbox, serverVars>>

Mine(c) == conn[call[c].conn]

\* Client::request, up to its write.
Ask(c) ==
  /\ Running(c) /\ call[c].conn # 0 /\ ~call[c].asked
  /\ conn' = IF Mine(c).task = "none" THEN conn
             ELSE [conn EXCEPT ![call[c].conn].up = Append(@, Now(c).ask)]
  /\ call' = [call EXCEPT ![c].asked = TRUE]
  /\ UNCHANGED <<mailbox, serverVars>>

\* The next frame is read as the answer, whatever it answers.
AnswerRead(c) ==
  /\ Running(c) /\ call[c].asked /\ Mine(c).down # <<>>
  /\ LET response == Head(Mine(c).down)
     IN  Proceed(c, Outcome(Now(c).ask, response), response,
                 [conn EXCEPT ![call[c].conn].down = Tail(@)])
  /\ UNCHANGED <<mailbox, serverVars>>

\* The deadline of a request, or of the whole capture of a cursor, passes: the
\* connection stays as it is.
TimesOut(c) ==
  /\ Running(c) /\ call[c].asked
  /\ Proceed(c, "timeout", None, conn)
  /\ UNCHANGED <<mailbox, serverVars>>

\* Io or Closed: the request is repeated once on a new connection if it is safe.
Lost(c) ==
  /\ Running(c) /\ call[c].asked
  /\ Mine(c).task = "none" /\ Mine(c).down = <<>>
  /\ IF RetrySafe(Now(c).ask) /\ ~call[c].again
       THEN /\ call' = [call EXCEPT ![c].conn = 0, ![c].asked = FALSE, ![c].again = TRUE]
            /\ conn' = Dropped(conn, call[c].conn)
       ELSE Proceed(c, "lost", None, conn)
  /\ UNCHANGED <<mailbox, serverVars>>

ClientStep(c) ==
  BeginCall(c) \/ Connect(c) \/ ConnectFails(c) \/ Ask(c) \/ AnswerRead(c) \/ TimesOut(c) \/ Lost(c)

-----------------------------------------------------------------------------
(* The server: serve and handle_connection.                                 *)

TaskIs(k, task) == conn[k].task = task
Left(k) ==
  IF conn[k].client
    THEN [conn[k] EXCEPT !.task = "none", !.up = <<>>, !.ask = "none", !.reply = None]
    ELSE Unused
Closed(k) == [conn EXCEPT ![k] = Left(k)]
Replying(k, response) ==
  [conn EXCEPT ![k] = [@ EXCEPT !.task = "replying", !.reply = response]]

\* Over the limit, the stream is dropped at once.
Accept(k) ==
  /\ listening /\ TaskIs(k, "backlog")
  /\ conn' = IF Cardinality({j \in Conns : conn[j].task \notin {"none", "backlog"}}) < Permits
               THEN [conn EXCEPT ![k].task = "reading"] ELSE Closed(k)
  /\ UNCHANGED <<call, mailbox, serverVars>>

ReadRequest(k) ==
  /\ TaskIs(k, "reading") /\ conn[k].up # <<>>
  /\ conn' = [conn EXCEPT ![k] = [@ EXCEPT !.up = Tail(conn[k].up), !.ask = Head(conn[k].up),
                                           !.task = "dispatching"]]
  /\ UNCHANGED <<call, mailbox, serverVars>>

\* The client has left, or nothing came for IDLE_TIMEOUT.
IdleOrGone(k) ==
  /\ TaskIs(k, "reading") /\ conn[k].up = <<>>
  /\ conn' = Closed(k)
  /\ UNCHANGED <<call, mailbox, serverVars>>

\* dispatch of a read; reads of logs may find the disk pool exhausted.
DispatchRead(k) ==
  /\ TaskIs(k, "dispatching") /\ conn[k].ask \notin Mutations \cup {"stop"}
  /\ \E kind \in {Kind(conn[k].ask)} \cup IF conn[k].ask = "logs" THEN {"busy"} ELSE {} :
       conn' = Replying(k, Response(kind))
  /\ UNCHANGED <<call, mailbox, serverVars>>

\* ServiceControl::dispatch: the send waits for room in the channel.
DispatchCommand(k) ==
  /\ TaskIs(k, "dispatching") /\ conn[k].ask \in Mutations
  /\ IF scheduler
       THEN /\ Len(mailbox) < MailboxMax
            /\ mailbox' = Append(mailbox, [by |-> conn[k].by, conn |-> k])
            /\ conn' = [conn EXCEPT ![k].task = "waiting"]
       ELSE conn' = Replying(k, Response("scheduler_stopped")) /\ UNCHANGED mailbox
  /\ UNCHANGED <<call, serverVars>>

\* The one-shot reply, or its sender, has gone.
Acknowledged(k) ==
  /\ TaskIs(k, "waiting") /\ conn[k].reply # None
  /\ conn' = Replying(k, conn[k].reply)
  /\ UNCHANGED <<call, mailbox, serverVars>>

\* REQUEST_TIMEOUT of the dispatch; the command stays in the channel.
DispatchTimesOut(k) ==
  /\ conn[k].task \in {"dispatching", "waiting"} /\ conn[k].ask # "stop"
  /\ conn' = Replying(k, Response("timeout"))
  /\ UNCHANGED <<call, mailbox, serverVars>>

\* write_response, which may fail or take too long.
WriteResponse(k) ==
  /\ TaskIs(k, "replying")
  /\ \/ /\ conn[k].client
        /\ conn' = [conn EXCEPT ![k] = [@ EXCEPT !.task = "reading", !.ask = "none",
                             !.reply = None, !.down = Append(conn[k].down, conn[k].reply)]]
     \/ conn' = Closed(k)
  /\ UNCHANGED <<call, mailbox, serverVars>>

\* A shutdown is acknowledged before the token is cancelled.
AcknowledgeShutdown(k) ==
  /\ TaskIs(k, "dispatching") /\ conn[k].ask = "stop"
  /\ conn' = [conn EXCEPT ![k] = [@ EXCEPT !.task = "cancelling",
                !.down = IF conn[k].client THEN Append(conn[k].down, Response("shutting_down"))
                         ELSE conn[k].down]]
  /\ UNCHANGED <<call, mailbox, serverVars>>

CancelSession(k) ==
  /\ TaskIs(k, "cancelling")
  /\ cancelled' = TRUE /\ conn' = Closed(k)
  /\ UNCHANGED <<call, mailbox, listening, scheduler, restarting, generation, applied>>

\* shutdown.cancelled() is seen wherever the task waits.
SeesShutdown(k) ==
  /\ cancelled /\ conn[k].task \notin {"none", "backlog"}
  /\ conn' = Closed(k)
  /\ UNCHANGED <<call, mailbox, serverVars>>

ConnectionStep(k) ==
  \/ Accept(k) \/ ReadRequest(k) \/ IdleOrGone(k) \/ DispatchRead(k) \/ DispatchCommand(k)
  \/ Acknowledged(k) \/ DispatchTimesOut(k) \/ WriteResponse(k)
  \/ AcknowledgeShutdown(k) \/ CancelSession(k) \/ SeesShutdown(k)

-----------------------------------------------------------------------------
(* The session around it.                                                   *)

\* serve ends: the listener goes, with what it has not accepted.
StopListening ==
  /\ cancelled /\ listening
  /\ listening' = FALSE
  /\ conn' = [k \in Conns |-> IF TaskIs(k, "backlog") THEN Left(k) ELSE conn[k]]
  /\ UNCHANGED <<call, mailbox, cancelled, scheduler, restarting, generation, applied>>

\* The operator restarts the service from the TUI, through the same channel.
OperatorRestarts ==
  /\ scheduler /\ Len(mailbox) < MailboxMax
  /\ mailbox' = Append(mailbox, [by |-> "operator", conn |-> 0])
  /\ UNCHANGED <<call, conn, serverVars>>

\* CommandAck::send: a reply nobody waits for is dropped.
Reply(k, response) ==
  conn' = IF k # 0 /\ TaskIs(k, "waiting") THEN [conn EXCEPT ![k].reply = response] ELSE conn

\* handle_command: applied and acknowledged with the generation it met, or
\* rejected.
HandleCommand ==
  /\ scheduler /\ mailbox # <<>>
  /\ mailbox' = Tail(mailbox)
  /\ LET k == Head(mailbox).conn
     IN  \/ /\ restarting' = TRUE
            /\ applied' = IF k = 0 THEN applied
                          ELSE [applied EXCEPT ![Head(mailbox).by] = Append(@, generation)]
            /\ Reply(k, [kind |-> "accepted", generation |-> generation])
         \/ /\ Reply(k, Response("rejected"))
            /\ UNCHANGED <<restarting, applied>>
  /\ UNCHANGED <<call, listening, cancelled, scheduler, generation>>

\* start_service_if_ready begins the run that a restart asked for.
StartRun ==
  /\ scheduler /\ restarting /\ generation < MaxRestarts
  /\ restarting' = FALSE /\ generation' = generation + 1
  /\ UNCHANGED <<call, conn, mailbox, listening, cancelled, scheduler, applied>>

\* The scheduler returns; the channel and the replies in it go with it.
SchedulerStops ==
  /\ cancelled /\ scheduler
  /\ scheduler' = FALSE /\ mailbox' = <<>>
  /\ conn' = [k \in Conns |->
       IF TaskIs(k, "waiting") /\ conn[k].reply = None
         THEN [conn[k] EXCEPT !.reply = Response("scheduler_stopped")] ELSE conn[k]]
  /\ UNCHANGED <<call, listening, cancelled, restarting, generation, applied>>

\* The process dies: everything on its side goes at once.
Dies ==
  /\ scheduler
  /\ listening' = FALSE /\ cancelled' = TRUE /\ scheduler' = FALSE /\ mailbox' = <<>>
  /\ conn' = [k \in Conns |-> Left(k)]
  /\ UNCHANGED <<call, restarting, generation, applied>>

-----------------------------------------------------------------------------
ConnectionInit ==
  /\ call = [c \in Callers |-> NoCall]
  /\ conn = [k \in Conns |-> Unused]
  /\ mailbox = <<>>
  /\ listening = TRUE /\ cancelled = FALSE /\ scheduler = TRUE
  /\ restarting = FALSE /\ generation = 1
  /\ applied = [c \in Callers |-> <<>>]

ConnectionNext ==
  \/ \E c \in Callers : ClientStep(c)
  \/ \E k \in Conns : ConnectionStep(k)
  \/ StopListening \/ OperatorRestarts \/ HandleCommand \/ StartRun
  \/ SchedulerStops \/ Dies

ConnectionSpec == ConnectionInit /\ [][ConnectionNext]_connectionVars

-----------------------------------------------------------------------------
(* Properties.                                                              *)

\* A mutation is applied once at most, whatever is lost, repeated or late.  If
\* the tool reports that it was accepted it was applied, to the generation
\* that the report names; rejected, or refused by a scheduler that has stopped,
\* it was not and will not be.  An answer is never that of another request.
MutationAccounted ==
  \A c \in Callers :
    call[c].tool \in {"mutate", "dynamic"} =>
      /\ Len(applied[c]) <= 1
      /\ call[c].outcome = "ok" => applied[c] = <<call[c].answer.generation>>
      /\ call[c].outcome \in {"rejected", "scheduler_stopped"} =>
           applied[c] = <<>> /\ \A i \in DOMAIN mailbox : mailbox[i].by # c
      /\ call[c].outcome # "mixed"
=============================================================================
