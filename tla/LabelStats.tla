----------------------------- MODULE LabelStats -----------------------------
(***************************************************************************)
(* The ring of recent labels kept for each zone (zones/zone_stats.go).     *)
(* add, Reset and Counts hold the mutex, so each is one step.  log has     *)
(* length len: Size at first, 0 once Close() has replaced the slice.       *)
(***************************************************************************)
EXTENDS Integers, Sequences, Sums

CONSTANTS Labels, Size, Empty

ASSUME StatsAssumption ==
    /\ Size \in Nat \ {0}
    /\ Empty \notin Labels      \* the zero value of a slot

VARIABLES pos, rotated, log, len

vars == <<pos, rotated, log, len>>

NewZoneLabelStats ==
    /\ pos = 0
    /\ rotated = FALSE
    /\ len = Size
    /\ log = [i \in 0 .. Size - 1 |-> Empty]

\* The first conjunct is the bounds check of log[pos]: failing it panics.
add(l) ==
    /\ pos < len
    /\ log' = [log EXCEPT ![pos] = l]
    /\ IF pos + 2 > len
       THEN pos' = 0 /\ rotated' = TRUE
       ELSE pos' = pos + 1 /\ UNCHANGED rotated
    /\ UNCHANGED len

ResetRotated ==
    /\ pos' = 0
    /\ log' = [i \in DOMAIN log |-> Empty]
    /\ UNCHANGED <<rotated, len>>

Reset ==
    /\ pos' = 0
    /\ rotated' = FALSE
    /\ log' = [i \in DOMAIN log |-> Empty]
    /\ UNCHANGED len

Close ==
    /\ len' = 0
    /\ log' = [i \in {} |-> Empty]
    /\ UNCHANGED <<pos, rotated>>

Next == Reset \/ Close \/ \E l \in Labels : add(l)

Spec == NewZoneLabelStats /\ [][Next]_vars

\* The slots Counts() visits before it breaks off.
Counted(i) == i \in DOMAIN log /\ (rotated \/ i < pos)

Counts == [l \in {log[i] : i \in {j \in DOMAIN log : Counted(j)}} |->
              Cardinality({i \in DOMAIN log : Counted(i) /\ log[i] = l})]

\* The orders in which sort.Sort may leave the counts: that of equal counts is
\* open (the map is iterated in no fixed order and the sort is not stable).
Sorted ==
    {o \in [1 .. Cardinality(DOMAIN Counts) -> DOMAIN Counts] :
        \A i, j \in DOMAIN o : i < j => o[i] # o[j] /\ Counts[o[i]] >= Counts[o[j]]}

Total(o, from) == SumOf([i \in DOMAIN o |-> Counts[o[i]]], {i \in DOMAIN o : i >= from})

TopOfWithout(o, n) ==
    [i \in 1 .. IF Len(o) > n THEN n + 1 ELSE Len(o) |->
        IF i <= n THEN Counts[o[i]] ELSE Total(o, n + 2)]

\* What TopCounts(n) returns for one such order: the first n counts, and as the
\* last entry ("Others") the sum of those that do not fit.
TopOf(o, n) ==
    [i \in 1 .. IF Len(o) > n THEN n + 1 ELSE Len(o) |->
        IF i <= n THEN Counts[o[i]] ELSE Total(o, n + 1)]

TopCounts(n) == {TopOf(o, n) : o \in Sorted}

-----------------------------------------------------------------------------
TypeOK ==
    /\ len \in {0, Size}
    /\ pos \in 0 .. Size - 1
    /\ rotated \in BOOLEAN
    /\ log \in [0 .. len - 1 -> Labels \cup {Empty}]

\* How many labels the ring holds, and the i-th oldest of them.
Held == IF len = 0 THEN 0 ELSE IF rotated THEN Size ELSE pos
Slot(i) == IF ~ rotated THEN i - 1
           ELSE IF pos + i - 1 < Size THEN pos + i - 1 ELSE pos + i - 1 - Size
Window == [i \in 1 .. Held |-> log[Slot(i)]]

Recent == INSTANCE RecentLabels WITH recent <- Window

(* The ring, read from its oldest slot, always is the sequence of the last *)
(* Size labels added since it was made or reset: add() overwrites the      *)
(* oldest one, and rotates at the right slot.                              *)
RefinesRecentLabels == Recent!Spec

(* Counts() counts every label exactly as often as it is among the recent  *)
(* ones: it skips slots never written, and only those.  TopCounts(n) drops *)
(* no query: its at most n + 1 entries add up to the number of labels      *)
(* held, whatever the ties, and no label left to "Others" was seen more    *)
(* often than one that is listed.                                          *)
TopCountsComplete ==
    /\ DOMAIN Counts = {Window[i] : i \in 1 .. Held}
    /\ \A l \in DOMAIN Counts : Counts[l] = Cardinality({i \in 1 .. Held : Window[i] = l})
    /\ \A n \in 0 .. Size : \A top \in TopCounts(n) :
          /\ Len(top) <= n + 1
          /\ SumOf(top, DOMAIN top) = Held
          /\ \A i \in DOMAIN top :
                i <= n => Cardinality({l \in DOMAIN Counts : Counts[l] > top[i]}) < i

=============================================================================
