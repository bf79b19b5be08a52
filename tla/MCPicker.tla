------------------------------ MODULE MCPicker ------------------------------
(* Small instances of Picker for TLC.                                      *)
EXTENDS Picker

AllTypes == {"A", "CNAME", "TXT"}
AnyInteger == {-2, 0, 1, 2}
\* At the client, on both sides of the 5% threshold of 20, and unknown (22).
SomeDistances == {0, 20, 21, 22}
UpToTwo == -1 .. 2

=============================================================================
