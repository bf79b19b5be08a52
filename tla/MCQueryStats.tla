---------------------------- MODULE MCQueryStats ----------------------------
(* A small instance of QueryStats for TLC.                                 *)
EXTENDS QueryStats

CONSTANTS www, mail, k1, k2

MCLabels == {www, mail}
MCKeys == {k1, k2}

=============================================================================
