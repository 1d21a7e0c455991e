------------------------------ MODULE MCTerminal ------------------------------
(***************************************************************************)
(* Models of a run's terminal and of its log for TLC, side by side: the    *)
(* input on its way in, the capture of its output, its size, the visible   *)
(* log with the TUI's copy of it, the file of the run, and an agent's      *)
(* tools that follow logs and events; and what the run is given from its   *)
(* configuration.  A behaviour is one of the part it starts with; nothing  *)
(* of the other parts moves.                                               *)
(***************************************************************************)
EXTENDS InputPath, TerminalSize, LogStore, RunFiles, TLC

CONSTANTS db, web

VARIABLES
  part,
  stream, input, ansi, line, cr, alt, dirty, rate, records, silent, open,
  roster, entries, oldest, after, follow, seen, turns,
  kind, stage, path, files, todo, env, out, defs

captureVars ==
  <<stream, input, ansi, line, cr, alt, dirty, rate, records, silent, open>>
followVars == <<roster, entries, oldest, after, follow, seen, turns>>
envVars == <<kind, stage, path, files, todo, env, out, defs>>
streamVars == <<inputVars, captureVars, sizeVars>>
vars == <<part, streamVars, logVars, fileVars, followVars, envVars>>

Parts == {"input", "capture", "size", "log", "file", "logs", "events", "env"}

Streams ==
  {[bytes |-> {"cr", "lf", "x", " "}, length |-> 6],
   [bytes |-> {"esc", "[", "]", "st", "c1", "bel", "m", "J", "x"}, length |-> 4],
   [bytes |-> {"esc", "[", "h", "l"}, length |-> 7],
   [bytes |-> {"esc", "P", "(", "x", "st", "c1"}, length |-> 6],
   [bytes |-> {"x", "lead", "cont"}, length |-> 8]}

SmallRetention == [lines |-> 2, bytes |-> 3, runs |-> 1]
SomeRetentions == {SmallRetention, [lines |-> 3, bytes |-> 4, runs |-> 2]}
LogUpdates ==
  {[live |-> 0, size |-> 2], [live |-> 1, size |-> 1],
   [live |-> 1, size |-> 2], [live |-> 2, size |-> 1]}

LogQueries ==
  {[tail |-> 3, after |-> 0, limit |-> 0], [tail |-> 0, after |-> 1, limit |-> 0],
   [tail |-> 0, after |-> 2, limit |-> 1]}

\* The default layout of the TUI, in small.
LayoutOfPanes == [initial |-> 4, minimum |-> 2, step |-> 2, reserve |-> 6]

\* The sizes of typed payloads.
TypedSizes == [input |-> {1}, paste |-> {2}]

C == INSTANCE Capture WITH LineMax <- 7, PayloadMax <- 2, UpdatesMax <- 1

\* Entries of nothing that matches, and of two matches that belong together.
LogEntries == {[marks |-> 0, at |-> 2], [marks |-> 2, at |-> 1]}
EventEntries == {[marks |-> 1, at |-> 2], [marks |-> 1, at |-> 1]}

G == INSTANCE LogFollow WITH
  Kind <- "logs", Services <- {db, web}, Records <- LogEntries, Retained <- 2,
  PageMax <- 2, Limit <- 1, MaxRecords <- 3, MaxChanges <- 1,
  records <- entries, first <- oldest, call <- follow, changes <- turns

V == INSTANCE LogFollow WITH
  Kind <- "events", Services <- {db, web}, Records <- EventEntries, Retained <- 2,
  PageMax <- 1, Limit <- 1, MaxRecords <- 3, MaxChanges <- 1,
  records <- entries, first <- oldest, call <- follow, changes <- turns

\* Each value alone: in single quotes, in double quotes, with comments, with
\* references; then several that refer to each other; then paths, and ports.
X == <<"x">>
Y == <<"y">>
RefX == <<"$", "x">>
RefY == <<"$", "{", "y", "}">>

Texts(symbols, n) == UNION {[1 .. k -> symbols] : k \in 0 .. n}
Entry(name, value) == [key |-> name, value |-> value]
Values(raws) ==
  [paths |-> {<<"/">>}, raws |-> raws, lines |-> 1,
   configs |-> {<<Entry(Y, RefX)>>}, ports |-> {<<"1">>}]

Configured ==
  [single     |-> Values(Texts({"sq", "$", "x", " ", "#"}, 5)),
   double     |-> Values(Texts({"dq", "bs", "$", "x"}, 5)),
   comments   |-> Values(Texts({"dq", "bs", " ", "#"}, 6)),
   references |-> Values(Texts({"$", "{", "}", "x", "1"}, 5)),
   order |->
   [paths |-> {<<"/">>}, raws |-> {RefX, RefY, <<"sq", "$", "x", "sq">>, <<"1">>}, lines |-> 3,
    configs |-> {<<>>, <<Entry(X, RefY)>>, <<Entry(Y, RefX), Entry(X, RefY)>>,
                 <<Entry(Y, <<"$", "$", "x">>)>>},
    ports |-> {RefX, <<"1", "/">>, <<"1">>}],
   paths |->
   [paths |-> Texts({"$", "{", "}", "x", "y", "/"}, 5), raws |-> {}, lines |-> 0,
    configs |-> {<<>>}, ports |-> {<<"1">>}]]

N == INSTANCE Environment WITH
  Base <- (X :> RefY) @@ (<<"x", "1">> :> <<"1">>), Keys <- {X, Y},
  Inputs <- Configured, input <- kind, current <- env

ASSUME InputPathAssumption /\ C!CaptureAssumption /\ SizeAssumption
ASSUME LogStoreAssumption /\ RunFilesAssumption
ASSUME G!LogFollowAssumption /\ V!LogFollowAssumption /\ N!EnvironmentAssumption

\* The part that a behaviour is about starts anywhere it may start; the others
\* rest where they are.
Init ==
  /\ part \in Parts
  /\ InputInit /\ C!Init /\ SizeInit /\ LogInit /\ FileInit /\ G!Init /\ N!Init
  /\ part # "capture" => stream = CHOOSE s \in Streams : TRUE
  /\ part # "size" => width = 5
  /\ part # "log" => entry.retention = SmallRetention
  /\ part # "env" => kind = "paths"

InputStep ==
  /\ part = "input" /\ InputNext
  /\ UNCHANGED <<part, captureVars, sizeVars, logVars, fileVars, followVars, envVars>>
CaptureStep ==
  /\ part = "capture" /\ C!Next
  /\ UNCHANGED <<part, inputVars, sizeVars, logVars, fileVars, followVars, envVars>>
SizeStep ==
  /\ part = "size" /\ SizeNext
  /\ UNCHANGED <<part, inputVars, captureVars, logVars, fileVars, followVars, envVars>>

LogStep ==
  /\ part = "log" /\ LogNext
  /\ UNCHANGED <<part, streamVars, fileVars, followVars, envVars>>

\* Bound: other runs take numbers behind the second line only.
GapsAtThree == nextSeq' > nextSeq + 1 => nextSeq = 3

FileStep ==
  /\ part = "file" /\ FileNext /\ GapsAtThree
  /\ UNCHANGED <<part, streamVars, logVars, followVars, envVars>>

FollowStep ==
  /\ \/ part = "logs" /\ G!Next
     \/ part = "events" /\ V!Next
  /\ UNCHANGED <<part, streamVars, logVars, fileVars, envVars>>

EnvStep ==
  /\ part = "env" /\ N!Next
  /\ UNCHANGED <<part, streamVars, logVars, fileVars, followVars>>

Next ==
  \/ InputStep \/ CaptureStep \/ SizeStep
  \/ LogStep \/ FileStep \/ FollowStep \/ EnvStep

Spec == Init /\ [][Next]_vars

-----------------------------------------------------------------------------
(* The properties are those of the parts, stated and explained there; the      *)
(* input's, the size's, the log's and the file's are in the modules extended.  *)

RecordsFaithful == part = "capture" => C!RecordsFaithful
FollowedOnce == part \in {"logs", "events"} => G!FollowedOnce
AsWritten == part = "env" => N!AsWritten
=============================================================================
