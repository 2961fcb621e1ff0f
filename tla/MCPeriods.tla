------------------------------ MODULE MCPeriods ------------------------------
(***************************************************************************)
(* A small execution of Periods for TLC: two events of the project that is *)
(* there at the start.                                                     *)
(***************************************************************************)
EXTENDS MCServer, Periods

TwoEvents == r1 :> TrackCall(1, d1, <<Event(e1, "plain"), Event(e2, "plain")>>)
=============================================================================
