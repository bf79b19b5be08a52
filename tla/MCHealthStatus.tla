--------------------------- MODULE MCHealthStatus ---------------------------
(* A small instance of HealthStatus for TLC.                               *)
EXTENDS HealthStatus

CONSTANTS web, mail, r1

MCNames == {web, mail}
MCReaders == {r1}

=============================================================================
