-------------------------- MODULE QueryStatsProofs --------------------------
(***************************************************************************)
(* Proofs about the accounting of queries, for any labels, keys, size of   *)
(* the ring and length of the log: the ring of LabelStats is a sliding     *)
(* window and its counts add up, and the lines of the log are counted.     *)
(***************************************************************************)
EXTENDS QueryStats, SumsProofs

\* Most leaves are first-order reasoning; those with arithmetic cite SMTT(60).
USE ZenonT(60)

\* The slots that are in use hold labels: all of them once the ring has been
\* filled, those before pos until then.
RingInv ==
    /\ TypeOK
    /\ \A i \in 0 .. len - 1 : rotated = TRUE \/ i < pos => log[i] \in Labels

(* A new ring is empty.                                                    *)
LEMMA RingInit == NewZoneLabelStats => RingInv
<1> SUFFICES ASSUME NewZoneLabelStats PROVE RingInv
  OBVIOUS
<1>1. len = Size /\ pos \in 0 .. Size - 1
  BY StatsAssumption, SMTT(60) DEF NewZoneLabelStats
<1>2. rotated \in BOOLEAN
  BY DEF NewZoneLabelStats
<1>3. log \in [0 .. len - 1 -> Labels \cup {Empty}]
  BY <1>1 DEF NewZoneLabelStats
<1>4. \A i \in 0 .. len - 1 : rotated = TRUE \/ i < pos => log[i] \in Labels
  BY SMTT(60) DEF NewZoneLabelStats
<1> QED
  BY <1>1, <1>2, <1>3, <1>4 DEF RingInv, TypeOK

(* Every operation on the ring keeps it well-formed.                       *)
LEMMA RingStep == RingInv /\ [Next]_vars => RingInv'
<1> SUFFICES ASSUME RingInv, [Next]_vars PROVE RingInv'
  OBVIOUS
<1>1. CASE Reset
  <2>1. rotated' \in BOOLEAN
    BY <1>1 DEF Reset
  <2>2. /\ len' \in {0, Size}
        /\ pos' \in 0 .. Size - 1
        /\ log' \in [0 .. len' - 1 -> Labels \cup {Empty}]
    BY <1>1, StatsAssumption, SMTT(60) DEF RingInv, TypeOK, Reset
  <2>3. \A i \in 0 .. len' - 1 : rotated' = TRUE \/ i < pos' => log'[i] \in Labels
    BY <1>1, SMTT(60) DEF Reset
  <2> QED
    BY <2>1, <2>2, <2>3 DEF RingInv, TypeOK
<1>2. CASE Close
  BY <1>2, StatsAssumption, SMTT(60) DEF RingInv, TypeOK, Close
<1>3. ASSUME NEW l \in Labels, add(l) PROVE RingInv'
  <2>1. rotated' \in BOOLEAN
    BY <1>3 DEF RingInv, TypeOK, add
  <2>2. len = Size /\ len' = Size /\ pos \in 0 .. Size - 1 /\ pos' \in 0 .. Size - 1
    BY <1>3, StatsAssumption, SMTT(60) DEF RingInv, TypeOK, add
  <2>3. log' \in [0 .. len' - 1 -> Labels \cup {Empty}]
    BY <1>3, <2>2 DEF RingInv, TypeOK, add
  <2>4. ASSUME NEW i \in 0 .. len' - 1, rotated' = TRUE \/ i < pos'
        PROVE  log'[i] \in Labels
    BY <1>3, <2>2, <2>4, StatsAssumption, SMTT(60) DEF RingInv, TypeOK, add
  <2> QED
    BY <2>1, <2>2, <2>3, <2>4 DEF RingInv, TypeOK
<1>4. CASE UNCHANGED vars
  BY <1>4 DEF RingInv, TypeOK, vars
<1> QED
  BY <1>1, <1>2, <1>3, <1>4 DEF Next

(* The ring never leaves its slice: add() indexes within log for as long   *)
(* as the ring is open, for every size (zones/zone_stats.go).              *)
THEOREM RingTypeCorrect == Spec => []TypeOK
<1>1. RingInv => TypeOK
  BY DEF RingInv
<1> QED
  BY <1>1, RingInit, RingStep, PTL DEF Spec

(* The window is a sequence of at most Size labels.                        *)
WindowOK ==
    /\ Held \in 0 .. Size
    /\ Window \in Seq(Labels)
    /\ Len(Window) = Held

(* A well-formed ring is read as such a window.                            *)
LEMMA WindowType == RingInv => WindowOK
<1> SUFFICES ASSUME RingInv PROVE /\ Held \in 0 .. Size
                                  /\ Window \in [1 .. Held -> Labels]
  BY SMTT(60) DEF WindowOK
<1>1. Held \in 0 .. Size
  BY StatsAssumption, SMTT(60) DEF RingInv, TypeOK, Held
<1>2. ASSUME NEW i \in 1 .. Held PROVE log[Slot(i)] \in Labels
  BY <1>1, <1>2, StatsAssumption, SMTT(60) DEF RingInv, TypeOK, Held, Slot
<1> QED
  BY <1>1, <1>2 DEF Window

\* One add() is one Record: it drops the oldest label of a full ring.
LEMMA AddRecords == ASSUME RingInv, NEW l \in Labels, add(l)
                    PROVE  Recent!Record(l)
<1>1. RingInv'
  BY RingStep DEF Next
<1>2. /\ Window \in Seq(Labels) /\ Len(Window) = Held
      /\ Held \in 0 .. Size
  BY WindowType DEF WindowOK
<1>3. WindowOK'
  BY <1>1, WindowType, PTL
<1>4. /\ Window' \in Seq(Labels) /\ Len(Window') = Held'
      /\ Held' \in 0 .. Size
  BY <1>3 DEF WindowOK
<1>5. /\ len = Size /\ len' = Size /\ pos \in 0 .. Size - 1
      /\ DOMAIN log = 0 .. Size - 1 /\ log' = [log EXCEPT ![pos] = l]
  BY StatsAssumption, SMTT(60) DEF RingInv, TypeOK, add
<1>6. /\ Held = IF rotated THEN Size ELSE pos
      /\ Held' = IF rotated' THEN Size ELSE pos'
  BY <1>5, StatsAssumption DEF Held
<1>7. CASE Held < Size
  <2>1. ~ rotated /\ Held = pos
    BY <1>6, <1>7, StatsAssumption, SMTT(60)
  <2>2. \/ pos + 1 = Size /\ pos' = 0 /\ rotated'
        \/ pos + 1 < Size /\ pos' = pos + 1 /\ ~ rotated'
    <3>1. \/ pos + 1 = Size /\ pos' = 0 /\ rotated' = TRUE
          \/ pos + 1 < Size /\ pos' = pos + 1 /\ rotated' = rotated
      BY <1>5, StatsAssumption, SMTT(60) DEF add
    <3> QED
      BY <2>1, <3>1
  <2>3. Held' = pos + 1
    BY <1>5, <1>6, <2>2
  <2>4. ASSUME NEW i \in 1 .. pos + 1 PROVE Slot(i)' = i - 1
    BY <1>5, <2>2, StatsAssumption, SMTT(60) DEF Slot
  <2>5. \A i \in 1 .. pos : Window[i] = log[i - 1]
    BY <2>1 DEF Window, Slot
  <2>6. \A i \in 1 .. pos + 1 : Window'[i] = log'[i - 1]
    BY <2>3, <2>4 DEF Window
  <2>7. \A i \in 1 .. pos + 1 : Window'[i] = IF i <= pos THEN Window[i] ELSE l
    BY <1>5, <2>5, <2>6, StatsAssumption, SMTT(60)
  <2>8. Window' = Append(Window, l)
    BY <1>2, <1>4, <2>1, <2>3, <2>7, SMTT(60)
  <2> QED
    BY <1>2, <1>7, <2>8 DEF Recent!Record
<1>8. CASE Held = Size
  <2>1. rotated /\ rotated' /\ Held' = Size
    BY <1>5, <1>6, <1>8, StatsAssumption, SMTT(60) DEF add
  <2>2. pos' = IF pos + 1 = Size THEN 0 ELSE pos + 1
    BY <1>5, StatsAssumption, SMTT(60) DEF add
  <2>3. ASSUME NEW i \in 1 .. Size
        PROVE  IF i < Size THEN Slot(i)' = Slot(i + 1) ELSE Slot(i)' = pos
    BY <1>5, <2>1, <2>2, StatsAssumption, SMTT(60) DEF Slot
  <2>4. ASSUME NEW i \in 1 .. Size - 1
        PROVE  Slot(i + 1) \in 0 .. Size - 1 /\ Slot(i + 1) # pos
    BY <1>5, <2>1, StatsAssumption, SMTT(60) DEF Slot
  <2>5. \A i \in 1 .. Size : Window[i] = log[Slot(i)]
    BY <1>8 DEF Window
  <2>6. \A i \in 1 .. Size : Window'[i] = log'[Slot(i)']
    BY <2>1 DEF Window
  <2>7. ASSUME NEW i \in 1 .. Size
        PROVE  Window'[i] = IF i < Size THEN Window[i + 1] ELSE l
    <3>1. CASE i < Size
      <4>1. i \in 1 .. Size - 1 /\ i + 1 \in 1 .. Size
        BY <3>1, StatsAssumption, SMTT(60)
      <4>2. Window'[i] = log'[Slot(i + 1)]
        BY <2>3, <2>6, <3>1
      <4> QED
        BY <1>5, <2>4, <2>5, <3>1, <4>1, <4>2
    <3>2. CASE i = Size
      BY <1>5, <2>3, <2>6, <3>2, StatsAssumption, SMTT(60)
    <3> QED
      BY <3>1, <3>2, StatsAssumption, SMTT(60)
  <2>8. Tail(Window) \in Seq(Labels) /\ Len(Tail(Window)) = Size - 1
    BY <1>2, <1>8, StatsAssumption, SMTT(60)
  <2>9. Window' = Append(Tail(Window), l)
    BY <1>2, <1>4, <1>8, <2>1, <2>7, <2>8, StatsAssumption, SMTT(60)
  <2> QED
    BY <1>2, <1>8, <2>9, StatsAssumption, SMTT(60) DEF Recent!Record
<1> QED
  BY <1>2, <1>7, <1>8, StatsAssumption, SMTT(60)

(* A ring that holds nothing is read as the empty window.                  *)
LEMMA EmptyWindow == Held = 0 => Window = <<>>
  BY SMTT(60) DEF Window

(* The implementation of the statistics ring (zones/zone_stats.go) is a    *)
(* sliding window of the last Size labels, for every Size: each add()      *)
(* appends to the window and drops the oldest label of a full one, Reset() *)
(* and Close() empty it.                                                   *)
THEOREM RingImplementsWindow == Spec => RefinesRecentLabels
<1>1. NewZoneLabelStats => Recent!Init
  BY EmptyWindow, StatsAssumption DEF NewZoneLabelStats, Held, Recent!Init
<1>2. RingInv /\ [Next]_vars => [Recent!Next]_Window
  <2> SUFFICES ASSUME RingInv, [Next]_vars PROVE [Recent!Next]_Window
    OBVIOUS
  <2>1. Held' = 0 => Window' = <<>>
    BY SMTT(60) DEF Window
  <2>2. CASE Reset
    BY <2>2, <2>1 DEF Reset, Held, Recent!Next, Recent!Clear
  <2>3. CASE Close
    BY <2>3, <2>1 DEF Close, Held, Recent!Next, Recent!Clear
  <2>4. ASSUME NEW l \in Labels, add(l) PROVE Recent!Next
    BY <2>4, AddRecords DEF Recent!Next
  <2>5. CASE UNCHANGED vars
    BY <2>5 DEF vars, Window, Held, Slot
  <2> QED
    BY <2>2, <2>3, <2>4, <2>5 DEF Next
<1> QED
  BY <1>1, <1>2, RingInit, RingStep, PTL DEF Spec, RefinesRecentLabels, Recent!Spec

-----------------------------------------------------------------------------
\* The slots Counts() visits.
Used == {j \in DOMAIN log : Counted(j)}

(* The slots Counts() visits are those the window is read from, each once. *)
LEMMA SlotsAreUsed ==
    ASSUME RingInv
    PROVE  /\ \A i \in 1 .. Held : Slot(i) \in Used /\ Window[i] = log[Slot(i)]
           /\ \A i, j \in 1 .. Held : Slot(i) = Slot(j) => i = j
           /\ \A s \in Used : \E i \in 1 .. Held : Slot(i) = s
<1>1. /\ len \in {0, Size} /\ pos \in 0 .. Size - 1 /\ Size \in Nat \ {0}
      /\ DOMAIN log = 0 .. len - 1
  BY StatsAssumption DEF RingInv, TypeOK
<1>2. \A i \in 1 .. Held : Slot(i) \in Used
  BY <1>1, SMTT(60) DEF Slot, Held, Used, Counted
<1>3. \A i, j \in 1 .. Held : Slot(i) = Slot(j) => i = j
  BY <1>1, SMTT(60) DEF Slot, Held
<1>4. ASSUME NEW s \in Used PROVE \E i \in 1 .. Held : Slot(i) = s
  <2>1. s \in 0 .. Size - 1 /\ len = Size /\ (rotated \/ s < pos)
    BY <1>1, SMTT(60) DEF Used, Counted
  <2>2. CASE ~ rotated
    <3>1. s + 1 \in 1 .. Held /\ Slot(s + 1) = s
      BY <1>1, <2>1, <2>2, SMTT(60) DEF Held, Slot
    <3>. QED
      BY <3>1
  <2>3. CASE rotated /\ s >= pos
    <3>1. s - pos + 1 \in 1 .. Held /\ Slot(s - pos + 1) = s
      BY <1>1, <2>1, <2>3, SMTT(60) DEF Held, Slot
    <3>. QED
      BY <3>1
  <2>4. CASE rotated /\ s < pos
    <3>1. s + Size - pos + 1 \in 1 .. Held /\ Slot(s + Size - pos + 1) = s
      BY <1>1, <2>1, <2>4, SMTT(60) DEF Held, Slot
    <3>. QED
      BY <3>1
  <2>. QED
    BY <1>1, <2>1, <2>2, <2>3, <2>4, SMTT(60)
<1>. QED
  BY <1>2, <1>3, <1>4 DEF Window

(* What Counts() counts, in terms of the window.                           *)
LEMMA CountsWindow ==
    ASSUME RingInv
    PROVE  /\ IsFiniteSet(Used) /\ Cardinality(Used) = Held
           /\ DOMAIN Counts = {Window[i] : i \in 1 .. Held}
           /\ IsFiniteSet(DOMAIN Counts)
           /\ \A l \in DOMAIN Counts :
                /\ Counts[l] = Cardinality({i \in 1 .. Held : Window[i] = l})
                /\ Counts[l] = Cardinality({s \in Used : log[s] = l})
                /\ Counts[l] \in Nat
<1>1. Held \in Nat
  BY WindowType, SMTT(60) DEF WindowOK
<1>2. IsFiniteSet(1 .. Held) /\ Cardinality(1 .. Held) = Held
  BY <1>1, FS_Interval, SMTT(60)
<1>. DEFINE slot == [i \in 1 .. Held |-> Slot(i)]
<1>3. slot \in Bijection(1 .. Held, Used)
  <2>1. slot \in [1 .. Held -> Used] /\ \A i \in 1 .. Held : slot[i] = Slot(i)
    BY SlotsAreUsed
  <2>. HIDE DEF slot
  <2>2. slot \in Injection(1 .. Held, Used)
    BY <2>1, SlotsAreUsed, SMTT(60) DEF Injection, IsInjective
  <2>3. slot \in Surjection(1 .. Held, Used)
    BY <2>1, SlotsAreUsed DEF Surjection
  <2>. QED
    BY <2>2, <2>3 DEF Bijection
<1>4. IsFiniteSet(Used) /\ Cardinality(Used) = Held
  BY <1>2, <1>3, FS_Bijection DEF ExistsBijection
<1>5. DOMAIN Counts = {log[s] : s \in Used}
  BY DEF Counts, Used
<1>6. DOMAIN Counts = {Window[i] : i \in 1 .. Held}
  BY <1>5, SlotsAreUsed, SMTT(60)
<1>7. IsFiniteSet(DOMAIN Counts)
  <2>. DEFINE f == [s \in Used |-> log[s]]
  <2>1. f \in Surjection(Used, DOMAIN Counts)
    BY <1>5 DEF Surjection
  <2>. QED
    BY <1>4, <2>1, FS_Surjection
<1>8. ASSUME NEW l \in DOMAIN Counts
      PROVE  /\ Counts[l] = Cardinality({i \in 1 .. Held : Window[i] = l})
             /\ Counts[l] = Cardinality({s \in Used : log[s] = l})
             /\ Counts[l] \in Nat
  <2>. DEFINE In == {i \in 1 .. Held : Window[i] = l}
              At == {s \in Used : log[s] = l}
              g == [i \in In |-> Slot(i)]
  <2>1. Counts[l] = Cardinality({i \in DOMAIN log : Counted(i) /\ log[i] = l})
    BY DEF Counts
  <2>2. At = {i \in DOMAIN log : Counted(i) /\ log[i] = l}
    BY DEF Used
  <2>3. g \in Bijection(In, At)
    <3>1. g \in [In -> At] /\ \A i \in In : g[i] = Slot(i)
      BY SlotsAreUsed
    <3>2. \A i, j \in In : g[i] = g[j] => i = j
      BY <3>1, SlotsAreUsed
    <3>3. \A s \in At : \E i \in In : g[i] = s
      BY <3>1, SlotsAreUsed
    <3>. HIDE DEF g
    <3>4. g \in Injection(In, At)
      BY <3>1, <3>2 DEF Injection, IsInjective
    <3>5. g \in Surjection(In, At)
      BY <3>1, <3>3 DEF Surjection
    <3>. QED
      BY <3>4, <3>5 DEF Bijection
  <2>4. IsFiniteSet(In)
    BY <1>2, FS_Subset
  <2>5. Cardinality(At) = Cardinality(In)
    BY <2>3, <2>4, FS_Bijection, SMTT(60) DEF ExistsBijection
  <2>6. Cardinality(In) \in Nat
    BY <2>4, FS_CardinalityType
  <2>. HIDE DEF In, g
  <2>7. Counts[l] = Cardinality(At)
    BY <2>1, <2>2
  <2>. QED
    BY <2>5, <2>6, <2>7 DEF In
<1>. QED
  BY <1>4, <1>6, <1>7, <1>8

(* Every order sort.Sort may leave lists each of the labels once.          *)
LEMMA SortedLists ==
    ASSUME RingInv, NEW o \in Sorted
    PROVE  /\ o \in [1 .. Cardinality(DOMAIN Counts) -> DOMAIN Counts]
           /\ Cardinality(DOMAIN Counts) \in Nat
           /\ DOMAIN o = 1 .. Cardinality(DOMAIN Counts)
           /\ Len(o) = Cardinality(DOMAIN Counts)
           /\ \A i, j \in DOMAIN o : i # j => o[i] # o[j]
           /\ \A i, j \in DOMAIN o : i < j => Counts[o[i]] >= Counts[o[j]]
           /\ \A l \in DOMAIN Counts : \E i \in DOMAIN o : o[i] = l
<1>. DEFINE N == Cardinality(DOMAIN Counts)
<1>1. IsFiniteSet(DOMAIN Counts)
  BY CountsWindow
<1>2. N \in Nat
  BY <1>1, FS_CardinalityType
<1>3. /\ o \in [1 .. N -> DOMAIN Counts]
      /\ \A i, j \in DOMAIN o : i < j => o[i] # o[j] /\ Counts[o[i]] >= Counts[o[j]]
  BY DEF Sorted
<1>. HIDE DEF N
<1>4. DOMAIN o = 1 .. N
  BY <1>3
<1>5. Len(o) = N
  BY <1>2, <1>3, SMTT(60)
<1>6. ASSUME NEW i \in DOMAIN o, NEW j \in DOMAIN o, i # j PROVE o[i] # o[j]
  <2>1. i \in Int /\ j \in Int
    BY <1>2, <1>4, SMTT(60)
  <2>2. i < j \/ j < i
    BY <1>6, <2>1, SMTT(60)
  <2>. QED
    BY <1>3, <2>2
<1>7. IsFiniteSet(1 .. N) /\ Cardinality(1 .. N) = N
  BY <1>2, FS_Interval, SMTT(60)
<1>8. o \in Injection(1 .. N, DOMAIN Counts)
  BY <1>3, <1>4, <1>6 DEF Injection, IsInjective
<1>9. o \in Surjection(1 .. N, DOMAIN Counts)
  BY <1>1, <1>7, <1>8, FS_Injection DEF N
<1>10. \A l \in DOMAIN Counts : \E i \in 1 .. N : o[i] = l
  BY <1>9 DEF Surjection
<1>. QED
  BY <1>2, <1>3, <1>4, <1>5, <1>6, <1>10 DEF N

(* The counts of all labels add up to the number of labels held.           *)
LEMMA CountsAddUp ==
    ASSUME RingInv, NEW o \in Sorted, NEW w,
           \A i \in DOMAIN o : w[i] = Counts[o[i]]
    PROVE  SumOf(w, DOMAIN o) = Held
<1>1. IsFiniteSet(DOMAIN o)
  BY SortedLists, FS_Interval, SMTT(60)
<1>2. \A i \in DOMAIN o : w[i] = Cardinality(Preimage(Used, log, o[i]))
  <2>. TAKE i \in DOMAIN o
  <2>1. o[i] \in DOMAIN Counts
    BY SortedLists
  <2>. QED
    BY <2>1, CountsWindow DEF Preimage
<1>3. \A i, j \in DOMAIN o : i # j => o[i] # o[j]
  BY SortedLists
<1>4. IsFiniteSet(Used) /\ Cardinality(Used) = Held
  BY CountsWindow
<1>5. SumOf(w, DOMAIN o) = Cardinality(Fibre(Used, log, o, DOMAIN o))
  BY ONLY <1>1, <1>2, <1>3, <1>4, SumOfFibres, SMTT(60)
<1>6. Fibre(Used, log, o, DOMAIN o) = Used
  <2>1. ASSUME NEW s \in Used PROVE \E i \in DOMAIN o : log[s] = o[i]
    <3>1. log[s] \in DOMAIN Counts
      BY DEF Counts, Used
    <3>. QED
      BY <3>1, SortedLists, ZenonT(60)
  <2>. QED
    BY <2>1 DEF Fibre
<1>. QED
  BY <1>4, <1>5, <1>6

(* Without more labels than fit, TopCounts(n) has one entry for each.      *)
LEMMA TopOfFits ==
    ASSUME NEW o, NEW n \in Nat, Len(o) \in Nat, Len(o) <= n
    PROVE  TopOf(o, n) = [i \in 1 .. Len(o) |->
                            IF i <= n THEN Counts[o[i]] ELSE Total(o, n + 1)]
<1>1. (IF Len(o) > n THEN n + 1 ELSE Len(o)) = Len(o)
  BY SMTT(60)
<1>. QED
  BY <1>1 DEF TopOf

(* The entries of TopCounts(n) add up: "Others" stands for those that do   *)
(* not fit, none of them twice.                                            *)
LEMMA TopAddsUp ==
    ASSUME RingInv, NEW o \in Sorted, NEW n \in Nat
    PROVE  /\ Len(TopOf(o, n)) <= n + 1
           /\ SumOf(TopOf(o, n), DOMAIN TopOf(o, n)) = Held
<1>. DEFINE top == TopOf(o, n)
            N == Len(o)
            w == [i \in DOMAIN o |-> Counts[o[i]]]
            Rest == {i \in DOMAIN o : i >= n + 1}
<1>1. N \in Nat /\ DOMAIN o = 1 .. N /\ IsFiniteSet(1 .. N)
  BY SortedLists, FS_Interval, SMTT(60)
<1>2. \A i \in 1 .. N : Counts[o[i]] \in Nat
  <2>1. \A i \in 1 .. N : o[i] \in DOMAIN Counts
    BY <1>1, SortedLists
  <2>. QED
    BY <2>1, CountsWindow
<1>3. SumOf(w, DOMAIN o) = Held
  BY CountsAddUp
<1>4. Len(top) <= n + 1
  BY <1>1, SMTT(60) DEF TopOf
<1>5. CASE N <= n
  <2>1. DOMAIN top = 1 .. N /\ \A i \in 1 .. N : top[i] = w[i] /\ top[i] \in Int
    <3>1. top = [i \in 1 .. N |-> IF i <= n THEN Counts[o[i]] ELSE Total(o, n + 1)]
      BY <1>1, <1>5, TopOfFits
    <3>2. \A i \in 1 .. N : i <= n /\ w[i] = Counts[o[i]]
      BY <1>1, <1>5, SMTT(60)
    <3>. HIDE DEF top, w, N
    <3>. QED
      BY <1>2, <3>1, <3>2, SMTT(60)
  <2>. HIDE DEF top, w, N
  <2>2. SumOf(top, 1 .. N) = SumOf(w, 1 .. N)
    BY ONLY <1>1, <2>1, SumOfSame, SMTT(60)
  <2>3. SumOf(top, DOMAIN top) = Held
    BY <1>1, <1>3, <2>1, <2>2
  <2>. QED
    BY <1>4, <2>3 DEF top
<1>6. CASE N > n
  <2>1. /\ DOMAIN top = 1 .. n + 1
        /\ \A i \in 1 .. n : top[i] = w[i] /\ top[i] \in Int
        /\ top[n + 1] = SumOf(w, Rest)
    BY <1>1, <1>2, <1>6, SMTT(60) DEF TopOf, Total
  <2>2. \A i \in DOMAIN o : w[i] \in Int
    BY <1>1, <1>2, SMTT(60)
  <2>3. /\ 1 .. n \in SUBSET DOMAIN o /\ Rest \in SUBSET DOMAIN o
        /\ (1 .. n) \cap Rest = {} /\ (1 .. n) \cup Rest = DOMAIN o
    BY <1>1, <1>6, SMTT(60)
  <2>4. IsFiniteSet(1 .. n) /\ IsFiniteSet(1 .. n + 1) /\ IsFiniteSet(DOMAIN o)
    BY <1>1, FS_Interval, SMTT(60)
  <2>5. n + 1 \in 1 .. n + 1 /\ (1 .. n + 1) \ {n + 1} = 1 .. n
    BY SMTT(60)
  <2>. HIDE DEF top, w, N, Rest
  <2>6. SumOf(w, DOMAIN o) = SumOf(w, 1 .. n) + SumOf(w, Rest)
    <3>1. SumOf(w, (1 .. n) \cup Rest) = SumOf(w, 1 .. n) + SumOf(w, Rest)
      BY ONLY <2>2, <2>3, <2>4, SumOfDisjoint, SMTT(60)
    <3>. QED
      BY <2>3, <3>1
  <2>7. SumOf(w, Rest) \in Int /\ SumOf(w, 1 .. n) \in Int
    BY <2>2, <2>3, <2>4, SumOfFacts
  <2>8. \A i \in 1 .. n + 1 : top[i] \in Int
    BY <2>1, <2>7, SMTT(60)
  <2>9. SumOf(top, 1 .. n + 1) = top[n + 1] + SumOf(top, 1 .. n)
    <3>1. SumOf(top, 1 .. n + 1) = top[n + 1] + SumOf(top, (1 .. n + 1) \ {n + 1})
      BY ONLY <2>4, <2>5, <2>8, SumOfRemove, ZenonT(60)
    <3>. QED
      BY <2>5, <3>1
  <2>10. SumOf(top, 1 .. n) = SumOf(w, 1 .. n)
    BY ONLY <2>1, <2>4, SumOfSame, ZenonT(60)
  <2>11. SumOf(top, DOMAIN top) = SumOf(top, 1 .. n + 1)
    BY <2>1
  <2>. QED
    BY <1>3, <1>4, <2>1, <2>6, <2>7, <2>9, <2>10, <2>11, SMTT(60) DEF top
<1>. QED
  BY <1>1, <1>5, <1>6, SMTT(60)

(* The i-th entry that is listed is at least the i-th largest count.       *)
LEMMA TopIsLargest ==
    ASSUME RingInv, NEW o \in Sorted, NEW n \in Nat,
           NEW i \in DOMAIN TopOf(o, n), i <= n
    PROVE  Cardinality({l \in DOMAIN Counts : Counts[l] > TopOf(o, n)[i]}) < i
<1>. DEFINE More == {l \in DOMAIN Counts : Counts[l] > TopOf(o, n)[i]}
            Before == {o[j] : j \in 1 .. i - 1}
<1>1. i \in DOMAIN o /\ i \in Nat \ {0} /\ TopOf(o, n)[i] = Counts[o[i]]
  BY SortedLists, SMTT(60) DEF TopOf
<1>2. More \subseteq Before
  <2>. SUFFICES ASSUME NEW l \in More PROVE l \in Before
    OBVIOUS
  <2>1. PICK j \in DOMAIN o : o[j] = l
    BY SortedLists
  <2>2. j \in Nat \ {0}
    BY SortedLists, SMTT(60)
  <2>3. Counts[o[j]] > Counts[o[i]] /\ Counts[o[j]] \in Nat /\ Counts[o[i]] \in Nat
    <3>1. Counts[l] > TopOf(o, n)[i]
      OBVIOUS
    <3>2. o[i] \in DOMAIN Counts /\ o[j] \in DOMAIN Counts
      BY <1>1, SortedLists, SMTT(60)
    <3>3. Counts[o[j]] \in Nat /\ Counts[o[i]] \in Nat
      BY <3>2, CountsWindow
    <3>. QED
      BY <1>1, <2>1, <3>1, <3>3
  <2>4. ~ (i < j) /\ i # j
    BY <1>1, <2>3, SortedLists, SMTT(60)
  <2>. QED
    BY <1>1, <2>1, <2>2, <2>4, SMTT(60)
<1>3. IsFiniteSet(Before) /\ Cardinality(Before) <= i - 1
  <2>. DEFINE m == i - 1
  <2>0. m \in Nat
    BY <1>1, SMTT(60)
  <2>1. IsFiniteSet(1 .. m) /\ Cardinality(1 .. m) = m
    <3>. HIDE DEF m
    <3>. QED
      BY <2>0, FS_Interval, SMTT(60)
  <2>. DEFINE f == [j \in 1 .. i - 1 |-> o[j]]
  <2>2. f \in Surjection(1 .. i - 1, Before)
    <3>1. f \in [1 .. i - 1 -> Before] /\ \A j \in 1 .. i - 1 : f[j] = o[j]
      OBVIOUS
    <3>2. \A l \in Before : \E j \in 1 .. i - 1 : f[j] = l
      BY <3>1
    <3>. QED
      BY <3>1, <3>2 DEF Surjection
  <2>. HIDE DEF f, Before
  <2>. QED
    BY <2>1, <2>2, FS_Surjection, SMTT(60)
<1>. HIDE DEF Before
<1>4. /\ Cardinality(More) <= Cardinality(Before)
      /\ Cardinality(More) \in Nat /\ Cardinality(Before) \in Nat
  BY <1>2, <1>3, FS_Subset, FS_CardinalityType
<1>. QED
  BY <1>1, <1>3, <1>4, SMTT(60)

(* Counts() and TopCounts() lose no query and list the labels seen most    *)
(* often, for every size of the ring and every length of the list          *)
(* (zones/zone_stats.go).                                                  *)
THEOREM TopCountsAddUp == Spec => []TopCountsComplete
<1>1. RingInv => TopCountsComplete
  <2>. SUFFICES ASSUME RingInv PROVE TopCountsComplete
    OBVIOUS
  <2>1. ASSUME NEW n \in 0 .. Size, NEW top \in TopCounts(n)
        PROVE  /\ Len(top) <= n + 1
               /\ SumOf(top, DOMAIN top) = Held
               /\ \A i \in DOMAIN top :
                    i <= n => Cardinality({l \in DOMAIN Counts : Counts[l] > top[i]}) < i
    <3>1. PICK o \in Sorted : top = TopOf(o, n)
      BY DEF TopCounts
    <3>2. n \in Nat
      BY StatsAssumption, SMTT(60)
    <3>. QED
      BY <3>1, <3>2, TopAddsUp, TopIsLargest
  <2>. QED
    BY <2>1, CountsWindow DEF TopCountsComplete
<1>. QED
  BY <1>1, RingInit, RingStep, PTL DEF Spec

(* The counts stay complete while the server serves queries, which is how  *)
(* the ring is used.                                                       *)
THEOREM QueriesKeepCounts == QueryStatsSpec => []TopCountsComplete
<1>1. QueryStatsInit => NewZoneLabelStats
  BY DEF QueryStatsInit
<1>2. [QueryStatsNext]_allVars => [Next]_vars
  BY DEF QueryStatsNext, allVars, Next, Arrive, Return, WriteFails, RenameLog, CreateLog,
         CountLog
<1>. QED
  BY <1>1, <1>2, TopCountsAddUp, PTL DEF QueryStatsSpec, Spec

-----------------------------------------------------------------------------
(* The line being handled is the last one taken, and what is read of a     *)
(* file goes on from its start or from the line taken last.                *)
LineInv ==
    /\ ProcessorTypeOK
    /\ producer \in {"lines", "watch"} =>
         read \in starts \/ (Len(handed) >= 1 /\ read = handed[Len(handed)])
    /\ consumer = "line" => Len(handed) >= 1 /\ e = Line(Len(handed))
    /\ consumer = "gone" => Len(handed) >= 1

(* One more line: it is counted, in total and under its key, exactly if it *)
(* has answers.                                                            *)
LEMMA OneMoreLine ==
    ASSUME NEW n \in Nat, Line(n + 1) \in Entries, NEW k \in Keys
    PROVE  /\ Cardinality(Answered(n)) \in Nat
           /\ Cardinality(AnsweredFor(k, n)) \in Nat
           /\ Cardinality(Answered(n + 1)) = Cardinality(Answered(n))
                + IF Line(n + 1).result = "answers" THEN 1 ELSE 0
           /\ Cardinality(AnsweredFor(k, n + 1)) = Cardinality(AnsweredFor(k, n))
                + IF Line(n + 1).result = "answers" /\ Line(n + 1).key = k THEN 1 ELSE 0
<1>1. /\ IsFiniteSet(Answered(n)) /\ n + 1 \notin Answered(n)
      /\ IsFiniteSet(AnsweredFor(k, n)) /\ n + 1 \notin AnsweredFor(k, n)
  <2>1. IsFiniteSet(1 .. n)
    BY FS_Interval, SMTT(60)
  <2>2. Answered(n) \subseteq 1 .. n /\ AnsweredFor(k, n) \subseteq 1 .. n
    BY DEF Answered, AnsweredFor
  <2> QED
    BY <2>1, <2>2, FS_Subset, SMTT(60)
<1>2. Line(n + 1) # Garbled
  BY LogAssumption
<1>3. Answered(n + 1) = IF Line(n + 1).result = "answers"
                        THEN Answered(n) \cup {n + 1} ELSE Answered(n)
  BY <1>2, SMTT(60) DEF Answered
<1>4. AnsweredFor(k, n + 1) =
          IF Line(n + 1).result = "answers" /\ Line(n + 1).key = k
          THEN AnsweredFor(k, n) \cup {n + 1} ELSE AnsweredFor(k, n)
  BY <1>3 DEF AnsweredFor
<1>5. Cardinality(Answered(n)) \in Nat /\ Cardinality(AnsweredFor(k, n)) \in Nat
  BY <1>1, FS_CardinalityType
<1>6. /\ Cardinality(Answered(n) \cup {n + 1}) = Cardinality(Answered(n)) + 1
      /\ Cardinality(AnsweredFor(k, n) \cup {n + 1}) = Cardinality(AnsweredFor(k, n)) + 1
  BY <1>1, FS_AddElement
<1> QED
  BY <1>3, <1>4, <1>5, <1>6, SMTT(60)

(* While no line is taken or handled, the counts stay right as the log     *)
(* gets more lines and files.                                              *)
LEMMA SameCounts ==
    ASSUME CountsLines, LineInv, UNCHANGED <<handed, Count, Map>>, Handled' = Handled,
           \A i \in 1 .. Len(handed) : Line(i)' = Line(i), starts \subseteq starts'
    PROVE  CountsLines'
<1>1. handed' = handed /\ Count' = Count /\ Map' = Map
  OBVIOUS
<1>2. Handled \in Int /\ Handled <= Len(handed)
  BY SMTT(60) DEF Handled, LineInv, ProcessorTypeOK
<1>3. \A i \in 1 .. Handled : Line(i)' = Line(i)
  BY <1>2, SMTT(60) DEF LineInv, ProcessorTypeOK
<1>4. /\ Answered(Handled)' = Answered(Handled)
      /\ \A k \in Keys : AnsweredFor(k, Handled)' = AnsweredFor(k, Handled)
  <2> DEFINE n == Handled
  <2>1. Handled' = n
    OBVIOUS
  <2>2. \A i \in 1 .. n : Line(i)' = Line(i)
    BY <1>3
  <2> HIDE DEF n
  <2>3. Answered(Handled)' = {i \in 1 .. n : Line(i)' # Garbled /\ Line(i)'.result = "answers"}
    BY <2>1 DEF Answered
  <2>4. Answered(n) = {i \in 1 .. n : Line(i) # Garbled /\ Line(i).result = "answers"}
    BY DEF Answered
  <2>5. Answered(Handled)' = Answered(n)
    BY <2>2, <2>3, <2>4
  <2>6. Answered(n) \subseteq 1 .. n
    BY DEF Answered
  <2>7. ASSUME NEW k \in Keys PROVE AnsweredFor(k, Handled)' = AnsweredFor(k, n)
    BY <2>2, <2>5, <2>6 DEF AnsweredFor
  <2> QED
    BY <2>5, <2>7 DEF n
<1>5. \A i \in 1 .. Len(handed') :
          handed'[i] - 1 \in starts' \/ (i > 1 /\ handed'[i] = handed'[i - 1] + 1)
  BY <1>1 DEF CountsLines
<1> QED
  BY <1>1, <1>3, <1>4, <1>5 DEF CountsLines

(* A line or a file that is added to the log, or a file that is renamed,   *)
(* changes nothing that was counted.                                       *)
LEMMA LogGrows ==
    ASSUME LineInv, CountsLines, UNCHANGED statsVars,
           \/ \E x \in Entries \cup {Garbled} :
                 lines' = Append(lines, x) /\ UNCHANGED <<starts, path>>
           \/ /\ UNCHANGED lines
              /\ starts \subseteq starts' /\ starts' \subseteq 0 .. Len(lines)
              /\ path' \in starts' \cup {NoFile}
    PROVE  LineInv' /\ CountsLines'
<1>1. /\ lines \in Seq(Entries \cup {Garbled}) /\ lines' \in Seq(Entries \cup {Garbled})
      /\ Len(lines) \in Nat /\ Len(lines') \in Nat /\ Len(lines) <= Len(lines')
      /\ \A i \in 1 .. Len(lines) : lines'[i] = lines[i]
  <2>1. lines \in Seq(Entries \cup {Garbled})
    BY DEF LineInv, ProcessorTypeOK
  <2>2. ASSUME NEW x \in Entries \cup {Garbled}, lines' = Append(lines, x) PROVE <1>1!:
    BY ONLY <2>1, <2>2, SMTT(60)
  <2>3. CASE lines' = lines
    BY ONLY <2>1, <2>3, SMTT(60)
  <2> QED
    BY <2>2, <2>3
<1>2. /\ starts \subseteq starts' /\ starts' \subseteq 0 .. Len(lines)
      /\ path' \in starts' \cup {NoFile}
  BY DEF LineInv, ProcessorTypeOK
<1>3. /\ handed \in Seq(1 .. Len(lines)) /\ read \in 0 .. Len(lines)
      /\ opened \in starts \cup {NoFile} /\ watched \in starts \cup {NoFile}
      /\ UNCHANGED <<follow, opened, read, watched, handed, producer, consumer, e, Count, Map>>
  BY DEF LineInv, ProcessorTypeOK, statsVars, tailVars, countVars
<1>4. \A i \in 1 .. Len(handed) : Line(i)' = Line(i)
  BY <1>1, <1>3, SMTT(60) DEF Line
<1>5. handed \in Seq(1 .. Len(lines')) /\ Len(handed) \in Nat
  BY <1>1, <1>3, SMTT(60)
<1>6. ProcessorTypeOK'
  <2>1. starts' \subseteq 0 .. Len(lines') /\ read' \in 0 .. Len(lines')
    BY <1>1, <1>2, <1>3, SMTT(60)
  <2>2. opened' \in starts' \cup {NoFile} /\ watched' \in starts' \cup {NoFile}
    BY <1>2, <1>3
  <2>3. handed' \in Seq(1 .. Len(lines'))
    BY <1>3, <1>5
  <2>4. /\ follow' \in BOOLEAN
        /\ producer' \in {"open", "lines", "watch", "wait", "done", "ended"}
        /\ consumer' \in {"range", "line", "gone", "done"}
        /\ e' \in Entries \cup {Garbled} /\ Count' \in Nat /\ Map' \in [Keys -> Nat]
    BY <1>3 DEF LineInv, ProcessorTypeOK
  <2> QED
    BY <1>1, <1>2, <2>1, <2>2, <2>3, <2>4 DEF ProcessorTypeOK
<1>7. LineInv'
  <2>1. Len(handed) >= 1 => Line(Len(handed))' = Line(Len(handed))
    <3>1. Len(handed) >= 1 => Len(handed) \in 1 .. Len(handed)
      BY ONLY <1>5, SMTT(60)
    <3> QED
      BY <1>3, <1>4, <3>1 DEF Line
  <2> QED
    BY <1>2, <1>3, <1>6, <2>1 DEF LineInv
<1>8. Handled' = Handled
  BY <1>3 DEF Handled
<1> QED
  BY <1>2, <1>3, <1>4, <1>7, <1>8, SameCounts

(* The steps of tail, and of processFile, between two lines: where the     *)
(* next line comes from may change, and nothing that was counted.          *)
LEMMA TailStep ==
    ASSUME LineInv, CountsLines, UNCHANGED logVars,
           Open \/ OpenFails \/ EndOfFile \/ Watch \/ Modified \/ Deleted \/ Truncated
    PROVE  LineInv' /\ CountsLines'
<1>1. UNCHANGED <<lines, starts, path, follow, handed, consumer, e, Count, Map>>
  BY DEF logVars, Open, OpenFails, EndOfFile, Watch, Modified, Deleted, Truncated, tailVars,
         countVars
<1>2. ProcessorTypeOK'
  <2>1. opened' \in starts \cup {NoFile}
    BY DEF LineInv, ProcessorTypeOK, Open, OpenFails, EndOfFile, Watch, Modified, Deleted,
           Truncated, tailVars
  <2>2. read' \in 0 .. Len(lines)
    BY DEF LineInv, ProcessorTypeOK, Open, OpenFails, EndOfFile, Watch, Modified, Deleted,
           Truncated, tailVars
  <2>3. watched' \in starts \cup {NoFile}
    BY DEF LineInv, ProcessorTypeOK, Open, OpenFails, EndOfFile, Watch, Modified, Deleted,
           Truncated, tailVars
  <2>4. producer' \in {"open", "lines", "watch", "wait", "done", "ended"}
    BY DEF Open, OpenFails, EndOfFile, Watch, Modified, Deleted, Truncated
  <2> QED
    BY <1>1, <2>1, <2>2, <2>3, <2>4 DEF LineInv, ProcessorTypeOK
<1>3. producer' \in {"lines", "watch"} =>
         read' \in starts \/ (Len(handed) >= 1 /\ read' = handed[Len(handed)])
  BY DEF LineInv, ProcessorTypeOK, Open, OpenFails, EndOfFile, Watch, Modified, Deleted,
         Truncated, tailVars
<1>4. \A i \in 1 .. Len(handed) : Line(i)' = Line(i)
  BY <1>1 DEF Line
<1>5. LineInv'
  BY <1>1, <1>2, <1>3 DEF LineInv, Line
<1>6. Handled' = Handled
  BY <1>1 DEF Handled
<1> QED
  BY <1>1, <1>4, <1>5, <1>6, SameCounts

(* A line that is handed over follows the one before, or is the first of   *)
(* its file; it is not counted yet.                                        *)
LEMMA HandOverStep ==
    ASSUME LineInv, CountsLines, UNCHANGED logVars, HandOver
    PROVE  LineInv' /\ CountsLines'
<1>1. /\ lines \in Seq(Entries \cup {Garbled}) /\ lines' = lines
      /\ starts' = starts /\ path' = path /\ Len(lines) \in Nat
      /\ read \in 0 .. Len(lines) /\ read < Len(lines)
      /\ handed \in Seq(1 .. Len(lines))
  BY SMTT(60) DEF LineInv, ProcessorTypeOK, logVars, HandOver, HasLine
<1>2. /\ producer = "lines" /\ consumer = "range" /\ consumer' = "line"
      /\ read' = read + 1 /\ handed' = Append(handed, read + 1) /\ e' = lines[read + 1]
      /\ UNCHANGED <<follow, opened, watched, producer, Count, Map>>
  BY DEF HandOver
<1>3. /\ read + 1 \in 1 .. Len(lines) /\ Len(handed) \in Nat
      /\ handed' \in Seq(1 .. Len(lines)) /\ Len(handed') = Len(handed) + 1
      /\ handed'[Len(handed) + 1] = read + 1
      /\ \A i \in 1 .. Len(handed) : handed'[i] = handed[i]
  BY ONLY <1>1, <1>2, SMTT(60)
<1>4. lines[read + 1] \in Entries \cup {Garbled}
  BY ONLY <1>1, <1>3, SMTT(60)
<1>5. LineInv'
  <2>1. ProcessorTypeOK'
    <3>1. read' \in 0 .. Len(lines)
      BY ONLY <1>1, <1>2, SMTT(60)
    <3> QED
      BY <1>1, <1>2, <1>3, <1>4, <3>1 DEF LineInv, ProcessorTypeOK
  <2>2. Len(handed') >= 1 /\ read' = handed'[Len(handed')] /\ e' = Line(Len(handed))'
    <3>1. Len(handed') >= 1
      BY ONLY <1>3, SMTT(60)
    <3>2. handed'[Len(handed')] = read + 1
      BY <1>3
    <3> QED
      BY <1>1, <1>2, <3>1, <3>2 DEF Line
  <2> QED
    BY <1>2, <2>1, <2>2 DEF LineInv
<1>6. Handled = Len(handed) /\ Handled' = Handled
  <2>1. Handled' = Len(handed') - 1
    BY <1>2 DEF Handled
  <2>2. Handled = Len(handed)
    BY <1>2 DEF Handled
  <2> QED
    BY ONLY <1>3, <2>1, <2>2, SMTT(60)
<1>7. \A i \in 1 .. Len(handed) : Line(i)' = Line(i)
  BY <1>1, <1>3 DEF Line
<1>8. /\ Answered(Handled)' = Answered(Handled)
      /\ \A k \in Keys : AnsweredFor(k, Handled)' = AnsweredFor(k, Handled)
  <2> DEFINE n == Len(handed)
  <2>1. Handled' = n /\ Handled = n /\ \A i \in 1 .. n : Line(i)' = Line(i)
    BY <1>6, <1>7
  <2> HIDE DEF n
  <2>2. Answered(Handled)' = {i \in 1 .. n : Line(i)' # Garbled /\ Line(i)'.result = "answers"}
    BY <2>1 DEF Answered
  <2>3. Answered(n) = {i \in 1 .. n : Line(i) # Garbled /\ Line(i).result = "answers"}
    BY DEF Answered
  <2>4. Answered(Handled)' = Answered(n) /\ Answered(n) \subseteq 1 .. n
    BY <2>1, <2>2, <2>3
  <2>5. ASSUME NEW k \in Keys PROVE AnsweredFor(k, Handled)' = AnsweredFor(k, n)
    BY <2>1, <2>4 DEF AnsweredFor
  <2> QED
    BY <2>1, <2>4, <2>5
<1>9. ASSUME NEW i \in 1 .. Len(handed')
      PROVE  handed'[i] - 1 \in starts \/ (i > 1 /\ handed'[i] = handed'[i - 1] + 1)
  <2>1. CASE i \in 1 .. Len(handed)
    <3>1. handed[i] - 1 \in starts \/ (i > 1 /\ handed[i] = handed[i - 1] + 1)
      BY <2>1 DEF CountsLines
    <3>2. handed'[i] = handed[i] /\ (i > 1 => handed'[i - 1] = handed[i - 1])
      BY ONLY <1>3, <2>1, SMTT(60)
    <3> QED
      BY <3>1, <3>2
  <2>2. CASE i = Len(handed) + 1
    <3>1. read \in starts \/ (Len(handed) >= 1 /\ read = handed[Len(handed)])
      BY <1>2 DEF LineInv
    <3>2. handed'[i] - 1 = read
      BY ONLY <1>1, <1>3, <2>2, SMTT(60)
    <3>3. Len(handed) >= 1 => i > 1 /\ handed'[i - 1] = handed[Len(handed)]
      BY ONLY <1>3, <2>2, SMTT(60)
    <3>4. handed'[i] = read + 1
      BY <1>3, <2>2
    <3> QED
      BY <3>1, <3>2, <3>3, <3>4
  <2> QED
    BY <1>3, <2>1, <2>2, SMTT(60)
<1> QED
  BY <1>1, <1>2, <1>5, <1>6, <1>7, <1>8, <1>9 DEF CountsLines

(* A step of geodns-logs counts at most the line it handles.               *)
LEMMA ProcessStep ==
    ASSUME LineInv, CountsLines, ProcessLog
    PROVE  LineInv' /\ CountsLines'
<1>1. /\ lines' = lines /\ starts' = starts /\ path' = path /\ UNCHANGED logVars
      /\ handed \in Seq(1 .. Len(lines)) /\ Len(handed) \in Nat
      /\ Count \in Nat /\ Map \in [Keys -> Nat]
  BY SMTT(60) DEF LineInv, ProcessorTypeOK, ProcessLog, logVars
<1>2. CASE Open \/ OpenFails \/ EndOfFile \/ Watch \/ Modified \/ Deleted
  BY <1>1, <1>2, TailStep
<1>3. CASE HandOver
  BY <1>1, <1>3, HandOverStep
<1>4. CASE ChannelClosed
  <2>1. /\ producer = "wait" /\ producer' = "done" /\ consumer = "range" /\ consumer' = "done"
        /\ UNCHANGED <<follow, opened, read, watched, handed, e, Count, Map>>
    BY <1>4 DEF ChannelClosed, tailVars
  <2>2. LineInv'
    BY <1>1, <2>1 DEF LineInv, ProcessorTypeOK
  <2>3. Handled' = Handled /\ \A i \in 1 .. Len(handed) : Line(i)' = Line(i)
    BY <1>1, <2>1 DEF Handled, Line
  <2> QED
    BY <1>1, <2>1, <2>2, <2>3, SameCounts
<1>5. CASE ProcessLine /\ e = Garbled
  <2>1. /\ consumer = "line" /\ consumer' = "gone"
        /\ UNCHANGED <<follow, opened, read, watched, handed, producer, e, Count, Map>>
    BY <1>5 DEF ProcessLine, tailVars
  <2>2. LineInv'
    BY <1>1, <2>1 DEF LineInv, ProcessorTypeOK
  <2>3. Handled' = Handled /\ \A i \in 1 .. Len(handed) : Line(i)' = Line(i)
    BY <1>1, <2>1 DEF Handled, Line
  <2> QED
    BY <1>1, <2>1, <2>2, <2>3, SameCounts
<1>6. CASE ProcessLine /\ e # Garbled
  <2> DEFINE n == Len(handed) - 1
  <2>1. /\ consumer = "line" /\ consumer' = "range" /\ Add(e)
        /\ UNCHANGED <<follow, opened, read, watched, handed, producer, e>>
    BY <1>6 DEF ProcessLine, tailVars
  <2>2. n \in Nat /\ n + 1 = Len(handed)
    BY <1>1, <2>1, SMTT(60) DEF LineInv
  <2>3. Line(n + 1) = e /\ e \in Entries /\ Handled = n /\ Handled' = n + 1
    BY <1>6, <2>1, <2>2 DEF LineInv, ProcessorTypeOK, Handled
  <2>4. /\ Count' = Count + IF e.result = "answers" THEN 1 ELSE 0
        /\ \A k \in Keys :
              Map'[k] = Map[k] + IF e.result = "answers" /\ e.key = k THEN 1 ELSE 0
        /\ Count' \in Nat /\ Map' \in [Keys -> Nat]
    <3>1. e.key \in Keys
      BY <2>3 DEF Entries
    <3>2. CASE e.result = "answers"
      BY <1>1, <2>1, <3>1, <3>2, SMTT(60) DEF Add
    <3>3. CASE e.result # "answers"
      BY <1>1, <2>1, <3>3, SMTT(60) DEF Add
    <3> QED
      BY <3>2, <3>3
  <2>5. LineInv'
    BY <1>1, <2>1, <2>4 DEF LineInv, ProcessorTypeOK
  <2> HIDE DEF n
  <2>6. /\ Count = Cardinality(Answered(n))
        /\ \A k \in Keys : Map[k] = Cardinality(AnsweredFor(k, n))
        /\ \A i \in 1 .. n : Line(i) # Garbled
    BY <2>3 DEF CountsLines
  <2>7. /\ Count' = Cardinality(Answered(n + 1))
        /\ \A k \in Keys : Map'[k] = Cardinality(AnsweredFor(k, n + 1))
    <3>1. e.key \in Keys
      BY <2>3 DEF Entries
    <3> QED
      BY <2>2, <2>3, <2>4, <2>6, <3>1, OneMoreLine, SMTT(60)
  <2>8. \A i \in 1 .. n + 1 : Line(i) # Garbled
    BY <2>2, <2>3, <2>6, LogAssumption, SMTT(60)
  <2>9. /\ Answered(Handled)' = Answered(n + 1)
        /\ \A k \in Keys : AnsweredFor(k, Handled)' = AnsweredFor(k, n + 1)
        /\ \A i : Line(i)' = Line(i)
    BY <1>1, <2>1, <2>3 DEF Answered, AnsweredFor, Line
  <2> QED
    BY <1>1, <2>1, <2>3, <2>5, <2>7, <2>8, <2>9 DEF CountsLines
<1> QED
  BY <1>2, <1>3, <1>4, <1>5, <1>6 DEF ProcessLog

(* geodns-logs counts what it has read of the log, neither more nor less,  *)
(* however the log grows and is rotated meanwhile.                         *)
THEOREM LinesAreCounted == QueryStatsSpec => []CountsLines
<1>1. QueryStatsInit => LineInv /\ CountsLines
  <2> SUFFICES ASSUME QueryStatsInit PROVE LineInv /\ CountsLines
    OBVIOUS
  <2>1. /\ lines = <<>> /\ lines \in Seq(Entries \cup {Garbled}) /\ Len(lines) = 0
        /\ handed = <<>> /\ handed \in Seq(1 .. Len(lines)) /\ Len(handed) = 0
    BY SMTT(60) DEF QueryStatsInit, LogProcessorInit
  <2>2. LineInv
    <3>1. read \in 0 .. Len(lines) /\ Count \in Nat /\ Map \in [Keys -> Nat]
      BY <2>1, SMTT(60) DEF QueryStatsInit, LogProcessorInit
    <3> QED
      BY <2>1, <3>1 DEF QueryStatsInit, LogProcessorInit, LineInv, ProcessorTypeOK
  <2>3. Handled = 0
    BY <2>1 DEF QueryStatsInit, LogProcessorInit, Handled
  <2>4. Answered(Handled) = {} /\ \A k \in Keys : AnsweredFor(k, Handled) = {}
    BY <2>3, SMTT(60) DEF Answered, AnsweredFor
  <2>5. CountsLines
    <3>1. Cardinality({}) = 0
      BY FS_EmptySet
    <3>2. Count = 0 /\ \A k \in Keys : Map[k] = 0
      BY DEF QueryStatsInit, LogProcessorInit
    <3>3. 1 .. Handled = {} /\ 1 .. Len(handed) = {}
      BY ONLY <2>1, <2>3, SMTT(60)
    <3> QED
      BY <2>4, <3>1, <3>2, <3>3 DEF CountsLines
  <2> QED
    BY <2>2, <2>5
<1>2. LineInv /\ CountsLines /\ [QueryStatsNext]_allVars => LineInv' /\ CountsLines'
  <2> SUFFICES ASSUME LineInv, CountsLines, [QueryStatsNext]_allVars
               PROVE  LineInv' /\ CountsLines'
    OBVIOUS
  <2>1. CASE UNCHANGED <<logVars, statsVars>>
    <3>1. /\ lines' = lines /\ starts' = starts /\ path' = path /\ UNCHANGED statsVars
          /\ starts \subseteq 0 .. Len(lines) /\ path \in starts \cup {NoFile}
      BY <2>1 DEF logVars, LineInv, ProcessorTypeOK
    <3> QED
      BY <3>1, LogGrows
  <2>2. ASSUME NEW k \in Keys, NEW r \in Results, Return(k, r) PROVE LineInv' /\ CountsLines'
    <3>1. Logged(k, r) \in Entries
      BY DEF Logged, Entries
    <3> QED
      BY <2>1, <2>2, <3>1, LogGrows DEF Return, logVars
  <2>3. CASE WriteFails
    BY <2>1, <2>3, LogGrows DEF WriteFails, logVars
  <2>4. CASE RenameLog
    <3>1. starts \subseteq 0 .. Len(lines)
      BY DEF LineInv, ProcessorTypeOK
    <3> QED
      BY <2>4, <3>1, LogGrows DEF RenameLog
  <2>5. CASE CreateLog
    <3>1. starts \subseteq 0 .. Len(lines) /\ Len(lines) \in 0 .. Len(lines)
      BY SMTT(60) DEF LineInv, ProcessorTypeOK
    <3> QED
      BY <2>5, <3>1, LogGrows DEF CreateLog
  <2>6. CASE CountLog
    BY <2>6, ProcessStep DEF CountLog
  <2>7. CASE Truncated /\ UNCHANGED <<vars, queryVars>>
    BY <2>7, TailStep DEF queryVars
  <2> QED
    BY <2>1, <2>2, <2>3, <2>4, <2>5, <2>6, <2>7 DEF QueryStatsNext, Arrive, queryVars, allVars
<1> QED
  BY <1>1, <1>2, PTL DEF QueryStatsSpec

(* Queries that arrive while others are logged and counted use the ring as *)
(* LabelStats says, so that it holds the most recent labels.               *)
THEOREM RingServesQueries == QueryStatsSpec => RefinesRecentLabels
<1>1. QueryStatsInit => NewZoneLabelStats
  BY DEF QueryStatsInit
<1>2. [QueryStatsNext]_allVars => [Next]_vars
  BY DEF QueryStatsNext, allVars, vars, Arrive, Return, WriteFails,
         RenameLog, CreateLog, CountLog, Next
<1> QED
  BY <1>1, <1>2, RingImplementsWindow, PTL DEF QueryStatsSpec, Spec

=============================================================================
