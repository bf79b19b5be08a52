---------------------------- MODULE RecentLabels ----------------------------
(***************************************************************************)
(* What a zone's statistics promise: the labels of the last Size queries,  *)
(* oldest first.  LabelStats implements this with a ring.                  *)
(***************************************************************************)
EXTENDS Naturals, Sequences

CONSTANTS Labels, Size

VARIABLE recent

Init == recent = <<>>

Record(l) ==
    recent' = Append(IF Len(recent) < Size THEN recent ELSE Tail(recent), l)

Clear == recent' = <<>>

Next == Clear \/ \E l \in Labels : Record(l)

Spec == Init /\ [][Next]_recent

=============================================================================
