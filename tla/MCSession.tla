------------------------------- MODULE MCSession -------------------------------
(***************************************************************************)
(* Models of a session, its clients and what they share for TLC, side by   *)
(* side; a behaviour is one of the part it starts with, and nothing of the *)
(* other parts moves:                                                      *)
(*   file    a changing configuration file and one dynamic service,        *)
(*   replay  retries of the requests about one dynamic service,            *)
(*   mirror  an attached client's copy of the session,                     *)
(*   pool    the workers that read logs from disk,                         *)
(*   owner   the ownership of the control socket,                          *)
(*   wait    an agent's tools that wait for a service,                     *)
(*   calls   tools' requests and the connections that carry them,          *)
(*   starts, stops, both                                                   *)
(*           tools that start and stop a session,                          *)
(*   select  the choice of a session,                                      *)
(*   reply   what the server makes of an answer that is too long.          *)
(***************************************************************************)
EXTENDS Roster, Mirror, Endpoint, ReadPool, Connection, SessionStart, Selection,
        Waits, TLC

CONSTANTS
  s1, s2, s3, p1, p2, a, b, db, cron, key, none, here, inner, api

VARIABLES
  part,
  request, reply, onWire

replyVars == <<request, reply, onWire>>
sessionVars == <<rosterVars, mirrorVars, poolVars, endpointVars, waitVars>>
clientVars == <<connectionVars, sessionStartVars, selectionVars, replyVars>>
vars == <<part, sessionVars, clientVars>>

Parts ==
  {"file", "replay", "mirror", "pool", "owner", "wait",
   "calls", "starts", "stops", "both", "select", "reply"}

\* What two agents ask for at a time.
SomeTools == a :> {"mutate", "diagnose"} @@ b :> {"dynamic", "shutdown"}

NoFile == [s \in {} |-> {}]
Changing == {NoFile, db :> {}, (db :> {}) @@ (cron :> {db})}
Dependent == {{}, {db}, {cron}}

\* The configuration changes (these are the constants of Roster), or not but with
\* requests that are repeated.
Q == INSTANCE Roster WITH
  Ids <- {cron}, Files <- {NoFile}, Specs <- {{}}, Leases <- {"bounded"},
  Keys <- {key}, NoKey <- none, MaxServices <- 1, MaxRetired <- 0, Window <- 1,
  MaxRevision <- 2, MaxRuns <- 1, MaxBirths <- 2

\* What a service does at its end: nothing, or it starts again.
SomePolicies == [kind : {"never", "always"}, max : {NoLimit}]

\* A start and a stop at the same time use the endpoint of one directory (these
\* are the constants of SessionStart); each alone probes two directories.
D == INSTANCE SessionStart WITH RuntimeDirs <- {p1, p2}

\* Two sessions of one project, one of another below it, and one that speaks
\* another protocol; all but the last have the same name.
ProjectSession(pid, name, config, dir, foreign) ==
  [pid |-> pid, name |-> name, config |-> config, dir |-> dir, under |-> TRUE,
   foreign |-> foreign]
SelectorOf(kind, value) == [kind |-> kind, value |-> value]

SomeSessions ==
  {ProjectSession(1, api, here, p1, FALSE), ProjectSession(2, api, here, p2, FALSE),
   ProjectSession(3, api, inner, p2, FALSE), ProjectSession(4, db, inner, p1, TRUE)}
TwoDirs == <<p1, p2>>
Ancestors ==
  <<[home |-> FALSE, configs |-> <<>>], [home |-> TRUE, configs |-> <<here>>],
    [home |-> FALSE, configs |-> <<inner>>]>>
SomeSelectors ==
  {SelectorOf("hash", here), SelectorOf("hash", inner), SelectorOf("name", api),
   SelectorOf("pid", 2), SelectorOf("config", inner),
   SelectorOf("project", none), SelectorOf("list", none)}

\* Texts of short and long characters, in up to two items.
Texts(n) == UNION {[1 .. k -> {1, 5}] : k \in 0 .. n}
Item == [command : Texts(1), body : Texts(3)]
ShortItem == [command : {<<>>}, body : Texts(1)]
ItemOfLongCommand == [command : Texts(2), body : Texts(3)]

Y == INSTANCE Replies WITH
  Kinds <- {"logs", "run", "latest", "follow", "events", "events after", "health",
            "history", "description"},
  Sources <- UNION {[1 .. k -> Item] : k \in 0 .. 2} \cup [1 .. 1 -> ItemOfLongCommand]
               \cup [1 .. 3 -> ShortItem],
  Asked <- {1, 3}, TailMax <- 2,
  Fixed <- 1, Envelope <- 2, FrameMax <- 12, wire <- onWire

ASSUME RosterAssumption /\ Q!RosterAssumption
ASSUME MirrorAssumption /\ ReadPoolAssumption /\ EndpointAssumption
ASSUME WaitsAssumption
ASSUME ConnectionAssumption
ASSUME SessionStartAssumption /\ D!SessionStartAssumption
ASSUME SelectionAssumption /\ Y!RepliesAssumption

\* The part that a behaviour is about starts anywhere it may start; the others
\* rest where they are.
SomeRequest == [kind |-> "logs", source |-> <<>>, asked |-> 1]

Init ==
  /\ part \in Parts
  /\ MirrorInit /\ PoolInit /\ EndpointInit /\ WaitsInit /\ ConnectionInit /\ SelectionInit
  /\ IF part = "file" THEN RosterInit ELSE Q!RosterInit
  /\ part # "wait" => policy.kind = "never" /\ checked
  /\ IF part \in {"starts", "stops"} THEN D!SessionStartInit ELSE SessionStartInit
  /\ IF part = "reply" THEN Y!Init
     ELSE request = SomeRequest /\ reply = Y!Nothing /\ onWire = Y!Unsent

ChangeStep ==
  /\ part = "file" /\ RosterNext
  /\ UNCHANGED <<part, mirrorVars, poolVars, endpointVars, waitVars, clientVars>>
ReplayStep ==
  /\ part = "replay" /\ Q!RosterNext
  /\ UNCHANGED <<part, mirrorVars, poolVars, endpointVars, waitVars, clientVars>>
MirrorStep ==
  /\ part = "mirror" /\ MirrorNext
  /\ UNCHANGED <<part, rosterVars, poolVars, endpointVars, waitVars, clientVars>>
PoolStep ==
  /\ part = "pool" /\ PoolNext
  /\ UNCHANGED <<part, rosterVars, mirrorVars, endpointVars, waitVars, clientVars>>
OwnerStep ==
  /\ part = "owner" /\ EndpointNext
  /\ UNCHANGED <<part, rosterVars, mirrorVars, poolVars, waitVars, clientVars>>
WaitStep ==
  /\ part = "wait" /\ WaitsNext
  /\ UNCHANGED <<part, rosterVars, mirrorVars, poolVars, endpointVars, clientVars>>
CallStep ==
  /\ part = "calls" /\ ConnectionNext
  /\ UNCHANGED <<part, sessionVars, sessionStartVars, selectionVars, replyVars>>
StartOrStopStep ==
  /\ \/ part = "starts" /\ UNCHANGED stop /\ D!SessionStartNext
     \/ part = "stops" /\ UNCHANGED start /\ D!SessionStartNext
     \/ part = "both" /\ SessionStartNext
  /\ UNCHANGED <<part, sessionVars, connectionVars, selectionVars, replyVars>>
SelectStep ==
  /\ part = "select" /\ SelectionNext
  /\ UNCHANGED <<part, sessionVars, connectionVars, sessionStartVars, replyVars>>
ReplyStep ==
  /\ part = "reply" /\ Y!Next
  /\ UNCHANGED <<part, sessionVars, connectionVars, sessionStartVars, selectionVars>>

Next ==
  \/ ChangeStep \/ ReplayStep \/ MirrorStep \/ PoolStep \/ OwnerStep
  \/ WaitStep \/ CallStep \/ StartOrStopStep \/ SelectStep \/ ReplyStep

Spec == Init /\ [][Next]_vars

-----------------------------------------------------------------------------
(* The properties are those of the parts, stated and explained there; those  *)
(* of the modules that are extended are their own.                            *)

PagesFit == part = "reply" => Y!PagesFit

FollowReachesAll == part = "reply" => Y!FollowReachesAll
=============================================================================
