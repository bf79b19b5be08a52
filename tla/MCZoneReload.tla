---------------------------- MODULE MCZoneReload ----------------------------
(* Small instances of ZoneReload for TLC.                                  *)
EXTENDS ZoneReload

CONSTANTS example, a, b, bad

MCZones == {example, Pgeodns}
MCContents == {a, b, bad}
MCValid == {a, b}

RevertingUpdates == {"write", "revert"}

=============================================================================
