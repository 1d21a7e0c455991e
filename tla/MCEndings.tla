------------------------------ MODULE MCEndings -------------------------------
(***************************************************************************)
(* Models for TLC, side by side, of what comes to an end: two live dynamic *)
(* services with leases, that may depend on each other, and the endpoints  *)
(* of a run's terminal.  A behaviour is one of the part it starts with;    *)
(* nothing of the other part moves.  The properties of the services are    *)
(* Roster's own.                                                           *)
(***************************************************************************)
EXTENDS Roster, TLC

CONSTANTS db, job, none

VARIABLES
  part,
  slave, output, room, handles, closing, master, taken, queue,
  readerCancel, writerCancel, reader, writer, full, start, killed

endpointsVars ==
  <<slave, output, room, handles, closing, master, taken, queue,
    readerCancel, writerCancel, reader, writer, full, start, killed>>

OnlyNoFile == {[s \in {} |-> {}]}
BothWays == {{}, {db}, {job}}

E == INSTANCE PtyEndpoints WITH QueueCapacity <- 2

ASSUME RosterAssumption /\ E!EndpointsAssumption

\* The endpoints rest while the roster moves, and an empty roster that waits
\* for commands while they do: what is fair of one part never delays another.
EndingsInit ==
  /\ E!Init
  /\ \/ part = "lease" /\ RosterInit
     \/ /\ part = "endpoints"
        /\ stage = "select" /\ pending = NoCommand /\ roster = <<>>
        /\ births = <<>> /\ records = <<>> /\ threads = {}

LeasePart == part = "lease" /\ RosterNext /\ UNCHANGED <<part, endpointsVars>>
EndpointsPart == part = "endpoints" /\ E!Next /\ UNCHANGED <<part, rosterVars>>

EndingsNext == LeasePart \/ EndpointsPart

\* The fairness of the two parts that a liveness property is about.
EndingsSpec ==
  /\ EndingsInit /\ [][EndingsNext]_<<part, rosterVars, endpointsVars>>
  /\ RosterFairness /\ E!Fairness

-----------------------------------------------------------------------------
(* The property of the endpoints is stated and explained there.             *)

EndpointsReleased == part = "endpoints" => E!EndpointsReleased
=============================================================================
