-------------------------- MODULE MCHealthTesters ---------------------------
(* A small instance of HealthTesters for TLC.                              *)
EXTENDS HealthTesters, TLC

CONSTANTS h1, h2

MCHosts == {h1, h2}
MCFileMaps == {h1 :> TRUE @@ h2 :> FALSE, h1 :> FALSE}
MCStrata == {0, 3, 4}

=============================================================================
