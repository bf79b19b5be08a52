--------------------------- MODULE MCZoneServing ----------------------------
(* Small instances of ZoneServing for TLC.                                 *)
EXTENDS ZoneServing, TLC

CONSTANTS example, a, b, bad, q1, q2

MCZones == {example, Pgeodns}
MCContents == {a, b, bad}
MCValid == {a, b}
MCQueries == {q1, q2}
QuerySymmetry == Permutations(MCQueries)

AllOps == AllEnvOps
WithRemoval == {"write", "remove"}

=============================================================================
