------------------------- MODULE MCHealthTestRunner -------------------------
(* A small instance of HealthTestRunner for TLC.                           *)
EXTENDS HealthTestRunner

CONSTANTS local, shared, c1, c2

MCKeys == {local, shared}
MCGlobals == {shared}
MCTimed == {local}
MCClients == {c1, c2}

=============================================================================
