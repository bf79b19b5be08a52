------------------------------ MODULE MCDaemon ------------------------------
(* A small instance of Daemon for TLC.                                     *)
EXTENDS Daemon

CONSTANTS confA, confB, broken, r1

MCConfigs == {confA, confB, broken}
MCParsable == {confA, confB}
MCRequests == {r1}

=============================================================================
