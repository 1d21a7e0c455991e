------------------------------- MODULE Selection -------------------------------
(***************************************************************************)
(* Choosing a session: a client that has no registry to ask reads the      *)
(* runtime directories one after another, probes the sockets it finds at   *)
(* the same time, and concludes from the answers which session a selector  *)
(* means, while sessions come, end and crash.                              *)
(***************************************************************************)
EXTENDS Naturals, Sequences, FiniteSets

CONSTANTS
  ProjectSessions, \* [pid, name, config, dir, under, foreign]; a pid is one session's
  DirList,         \* the usable runtime directories, in order of preference
  Selectors,       \* [kind, value]
  Above,           \* the directories from the working directory to the root: [home, configs]
  NoConfig

Dirs == {DirList[i] : i \in DOMAIN DirList}

\* Assumed by the modules that extend this one.
SelectionAssumption ==
  /\ IsFiniteSet(ProjectSessions)
  /\ \A s, t \in ProjectSessions : s.pid = t.pid => s = t
  /\ \A s \in ProjectSessions : s.config # NoConfig
  /\ \A s \in ProjectSessions : \E i \in DOMAIN DirList : DirList[i] = s.dir
  /\ DirList \in Seq(Dirs)
  /\ \A i \in DOMAIN Above : Above[i].home \in BOOLEAN

VARIABLES
  life,     \* each session: "new", "up", "gone"
  sockets,  \* the socket files, of live sessions or left behind
  through,  \* the sessions that have been up since the call began
  choice    \* [pc, selector, unread, targets, answers, found, outcome]

selectionVars == <<life, sockets, through, choice>>

-----------------------------------------------------------------------------
(* Sessions and their endpoints.                                            *)

\* endpoint_for: one socket for a config and a directory, the same for the
\* session that binds it and for every client.
EndpointFor(dir, config) == <<dir, config>>
SocketOf(s) == EndpointFor(s.dir, s.config)

UpAt(e) == {s \in ProjectSessions : life[s] = "up" /\ SocketOf(s) = e}

\* bind_project: one session for a config, in whichever directory; a socket
\* that was left behind is replaced.
BindSession(s) ==
  /\ life[s] = "new"
  /\ \A t \in ProjectSessions : life[t] = "up" => t.config # s.config
  /\ life' = [life EXCEPT ![s] = "up"]
  /\ sockets' = sockets \cup {SocketOf(s)}
  /\ UNCHANGED <<through, choice>>

\* An end takes the socket away, a crash leaves it.
EndSession(s, crash) ==
  /\ life[s] = "up"
  /\ life' = [life EXCEPT ![s] = "gone"]
  /\ sockets' = IF crash THEN sockets ELSE sockets \ {SocketOf(s)}
  /\ through' = through \ {s}
  /\ UNCHANGED choice

-----------------------------------------------------------------------------
(* Probes.                                                                  *)

NoSession == [is |-> "absent", who |-> {}]
Mismatch == [is |-> "mismatch", who |-> {}]
Unreachable == [is |-> "unreachable", who |-> {}]
AnswerOf(s) == [is |-> "session", who |-> {s}]
\* Mutant: a probe that timed out counts as one that found nobody.
UsableUnlessMismatch(answer) == answer.is # "mismatch"
Usable(answer) == answer.is \in {"session", "absent"}
NotUsable(answer) == ~ Usable(answer)

\* A live session answers, is too slow or closes the connection; one of
\* another protocol is known for that and nothing else.
Answers(e) ==
  IF UpAt(e) = {} THEN {NoSession}
  ELSE {Unreachable} \cup {IF s.foreign THEN Mismatch ELSE AnswerOf(s) : s \in UpAt(e)}

-----------------------------------------------------------------------------
(* What a selector means.                                                   *)

\* find_config_upward: the nearest directory with a configuration file, the
\* home directory being the last one looked at; the file names in their order.
ConfigFound ==
  LET last == {i \in DOMAIN Above : Above[i].home} \cup {Len(Above)}
      seen == {i \in DOMAIN Above :
                 Above[i].configs # <<>> /\ \A j \in last : i <= j}
  IN  IF seen = {} THEN NoConfig
      ELSE LET nearest == CHOOSE i \in seen : \A j \in seen : i <= j
           IN  Above[nearest].configs[1]

\* resolve_current: an explicit file, or the one found from the working directory.
Config(selector) == IF selector.kind = "project" THEN ConfigFound ELSE selector.value

Derives(selector) == selector.kind \in {"hash", "config", "project"}

Matches(selector, s) ==
  CASE selector.kind = "name" -> s.name = selector.value
    [] selector.kind = "pid" -> s.pid = selector.value
    [] selector.kind = "list" -> TRUE
    [] OTHER -> s.config = Config(selector)

-----------------------------------------------------------------------------
(* The call.                                                                *)

NoChoice == [pc |-> "idle", selector |-> [kind |-> "list", value |-> NoConfig],
         unread |-> <<>>, targets |-> {}, answers |-> <<>>, found |-> {}, outcome |-> "none"]

\* answers is a function on the targets that have been probed.
Heard == DOMAIN choice.answers
Found == UNION {choice.answers[e].who : e \in Heard}
Blocked == \E e \in Heard : NotUsable(choice.answers[e])

\* A project without a configuration file has no session to look for.
BeginChoice ==
  /\ choice.pc = "idle"
  /\ \E selector \in Selectors :
       LET derived == {EndpointFor(d, Config(selector)) : d \in Dirs}
           state == [NoChoice EXCEPT !.selector = selector]
       IN  choice' =
         IF ~ Derives(selector) THEN [state EXCEPT !.pc = "list", !.unread = DirList]
         ELSE IF Config(selector) = NoConfig THEN [state EXCEPT !.pc = "done"]
         ELSE [state EXCEPT !.pc = "derived", !.targets = derived]
  /\ through' = {s \in ProjectSessions : life[s] = "up"}
  /\ UNCHANGED <<life, sockets>>

\* runtime_dir_endpoints of one directory.
ListDir ==
  /\ choice.pc = "list" /\ choice.unread # <<>>
  /\ choice' = [choice EXCEPT
       !.unread = Tail(@), !.targets = @ \cup {e \in sockets : e[1] = Head(choice.unread)}]
  /\ UNCHANGED <<life, sockets, through>>

\* A probe of each target, in any order.
ProbeSocket ==
  /\ choice.pc \in {"derived", "list"} /\ choice.unread = <<>>
  /\ \E e \in choice.targets \ Heard : \E answer \in Answers(e) :
       choice' = [choice EXCEPT !.answers =
                  [x \in DOMAIN @ \cup {e} |-> IF x = e THEN answer ELSE @[x]]]
  /\ UNCHANGED <<life, sockets, through>>

AllProbed == choice.unread = <<>> /\ choice.targets = Heard

Conclude(outcome, found) ==
  choice' = [choice EXCEPT !.pc = "done", !.outcome = outcome, !.found = found]

\* classify_probe_matches.
Classified(matches) ==
  IF Cardinality(matches) > 1 THEN "ambiguous"
  ELSE IF matches # {} THEN "resolved"
  ELSE IF Blocked THEN "busy" ELSE "none"

\* verify_any: whoever answers at a derived endpoint is meant. A current
\* selection without an answer goes on to look through the directories.
Verify ==
  /\ choice.pc = "derived" /\ AllProbed
  /\ LET outcome == Classified(Found)
     IN  IF choice.selector.kind = "hash" \/ outcome \in {"resolved", "ambiguous"}
         THEN Conclude(outcome, Found)
         ELSE choice' = [choice EXCEPT !.pc = "list", !.unread = DirList, !.targets = {},
                                   !.answers = <<>>, !.outcome = outcome]
  /\ UNCHANGED <<life, sockets, through>>

\* resolve_scanned_selector.
MatchScanned ==
  /\ choice.pc = "list" /\ AllProbed /\ choice.selector.kind \in {"name", "pid"}
  /\ LET matches == {s \in Found : Matches(choice.selector, s)}
     IN  Conclude(Classified(matches), matches)
  /\ UNCHANGED <<life, sockets, through>>

\* resolve_current_config_by_scanning and ..project_by_scanning: the config's
\* own session first, then one below the working directory. A busy endpoint,
\* or an explicit file, leaves only the first; without either, what the
\* derived endpoints said stands.
MatchCurrent ==
  /\ choice.pc = "list" /\ AllProbed /\ choice.selector.kind \in {"config", "project"}
  /\ LET own == {s \in Found : Matches(choice.selector, s)}
         below == {s \in Found : s.under}
         matches == IF own = {} /\ choice.selector.kind = "project" /\ choice.outcome = "none"
                    THEN below ELSE own
     IN  Conclude(IF matches = {} THEN choice.outcome
                  ELSE IF Cardinality(matches) > 1 THEN "ambiguous" ELSE "resolved", matches)
  /\ UNCHANGED <<life, sockets, through>>

\* list_sessions and answering_sessions.
ListAll ==
  /\ choice.pc = "list" /\ AllProbed /\ choice.selector.kind = "list"
  /\ Conclude("listed", Found)
  /\ UNCHANGED <<life, sockets, through>>

SelectionInit ==
  /\ life = [s \in ProjectSessions |-> "new"]
  /\ sockets = {} /\ through = {} /\ choice = NoChoice

SelectionNext ==
  \/ \E s \in ProjectSessions : BindSession(s)
  \/ \E s \in ProjectSessions, crash \in BOOLEAN : EndSession(s, crash)
  \/ BeginChoice \/ ListDir \/ ProbeSocket \/ Verify \/ MatchScanned \/ MatchCurrent \/ ListAll

SelectionSpec == SelectionInit /\ [][SelectionNext]_selectionVars

-----------------------------------------------------------------------------
(* Properties.                                                              *)

\* A session that a selector means and that was up during the whole call is
\* not overlooked: it is among those found, or the call knows that its
\* endpoint gave no usable answer and does not say that there is none
\* (classify_probe_matches). Otherwise an agent starts a second session.
AbsenceIsReal ==
  choice.pc = "done" => \A s \in through : Matches(choice.selector, s) =>
    \/ s \in choice.found
    \/ /\ choice.outcome # "none"
       /\ SocketOf(s) \in Heard /\ NotUsable(choice.answers[SocketOf(s)])
=============================================================================
