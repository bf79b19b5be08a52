---------------------------- MODULE PickerProofs ----------------------------
(***************************************************************************)
(* Proofs about Picker, for any number of servers, any weights and any     *)
(* distances: what is returned is sound, every draw is proportional to the *)
(* weights, and the closest filter keeps the cluster it is meant to.       *)
(***************************************************************************)
EXTENDS Picker, SumsProofs

\* Most leaves are first-order reasoning; those with arithmetic cite SMTT(60).
USE ZenonT(60)

(* Min is the least member of a set of naturals.                           *)
LEMMA MinFacts ==
    ASSUME NEW S, S \subseteq Nat, S # {}
    PROVE  Min(S) \in S /\ \A y \in S : Min(S) <= y
BY LeastNatural DEF Min

\* The label and the query, which the call does not change.
LabelOK ==
    /\ \E n \in Nat : /\ label.config \in [1 .. n -> Int]
                      /\ label.dist \in [1 .. n -> 0 .. MaxDistance]
                      /\ label.healthy \subseteq 1 .. n
    /\ SortedByWeight(label.config)
    /\ label.hosts \in Int

\* C holds the servers of the rounds so far, the last of them from the distance
\* m on, and fewer than n servers are nearer than m.
ClusterOf(C, S, dist, n) ==
    C # {} =>
        \E R \in SUBSET {dist[i] : i \in S} : \E m \in R :
            /\ AreRounds(R, S, dist)
            /\ C = {i \in S : Within5(dist[i], m)}
            /\ Cardinality({i \in S : dist[i] < m}) < n

Cluster == ClusterOf(choose, Usable, label.dist, max)

\* Servers of weight 0 are drawn when no others are left.
ZeroesLast == \A i \in Picked, j \in servers : weight[i] = 0 => weight[j] = 0

\* What holds at every point of a call.
PickerInv ==
    /\ LabelOK
    /\ pc \in {"start", "closest", "draw", "done", "panic"}
    /\ servers \subseteq Usable
    /\ choose \subseteq Usable
    /\ result \in Seq(Usable)
    /\ Cardinality(Picked) = Len(result)
    /\ pc # "panic" => max \in Nat
    /\ pc = "start" => choose = {} /\ result = <<>>
    /\ pc = "closest" => /\ servers = Usable
                         /\ result = <<>>
                         /\ max <= Cardinality(Usable)
                         /\ LabelWeight # 0
    /\ pc = "draw" => /\ sum = SumOf(weight, servers)
                      /\ servers \cap Picked = {}
                      /\ Len(result) <= max
                      /\ max - Len(result) <= Cardinality(servers)
                      /\ LabelWeight # 0
                      /\ NonNegative => ZeroesLast
                      /\ choose # {} => servers \subseteq choose
    /\ pc = "panic" => ~ NonNegative \/ label.hosts < 0
    /\ Cluster
    /\ pc \in {"draw", "done"} /\ choose # {} => /\ Picked \subseteq choose
                                                 /\ max <= Cardinality(choose)
                                                 /\ max <= Cardinality(Usable)

(* A draw of at most the sum of the weights lands on a server.             *)
LEMMA DrawLands ==
    ASSUME NEW S, S \subseteq Nat, IsFiniteSet(S), S # {}, NEW w, \A x \in S : w[x] \in Int,
           NEW n \in Int, n <= SumOf(w, S)
    PROVE  {i \in S : SumOf(w, {j \in S : j <= i}) >= n} # {}
<1>1. PICK m \in S : \A y \in S : y <= m
  BY GreatestNatural
<1>2. {j \in S : j <= m} = S
  BY <1>1
<1>3. SumOf(w, S) \in Int
  BY SumOfFacts
<1>4. SumOf(w, {j \in S : j <= m}) >= n
  BY <1>2, <1>3
<1>. QED
  BY <1>4

\* The numbers that may be drawn and land on server i.
Landing(w, S, i) ==
    LET hits(n) == {k \in S : SumOf(w, {j \in S : j <= k}) >= n}
    IN  {n \in 0 .. SumOf(w, S) : hits(n) # {} /\ Min(hits(n)) = i}

(* How many of the numbers that may be drawn land on server i.             *)
LEMMA DrawCount ==
    ASSUME NEW S, S \subseteq Nat, IsFiniteSet(S), NEW w, \A x \in S : w[x] \in Nat, NEW i \in S
    PROVE  Cardinality(Landing(w, S, i)) = w[i] + IF i = Min(S) THEN 1 ELSE 0
<1>. DEFINE UpTo(k) == {j \in S : j <= k}
            Below == {j \in S : j < i}
            hits(n) == {k \in S : SumOf(w, UpTo(k)) >= n}
            D == {n \in 0 .. SumOf(w, S) : hits(n) # {} /\ Min(hits(n)) = i}
            lo == SumOf(w, Below)
            hi == SumOf(w, UpTo(i))
<1>. SUFFICES Cardinality(D) = w[i] + IF i = Min(S) THEN 1 ELSE 0
  BY DEF Landing
<1>0. i \in Nat /\ S # {} /\ \A j \in S : j \in Nat
  OBVIOUS
<1>1. \A T \in SUBSET S : SumOf(w, T) \in Nat
  BY FS_Subset, SumOfNat
<1>2. SumOf(w, {}) = 0 /\ hi = w[i] + lo
  <2>1. i <= i /\ \A j \in S : j <= i /\ j # i <=> j < i
    BY <1>0, SMTT(60)
  <2>2. UpTo(i) \in SUBSET S /\ i \in UpTo(i) /\ UpTo(i) \ {i} = Below
    BY <2>1
  <2>3. SumOf(w, {}) = 0 /\ \A T \in SUBSET S : \A x \in T : SumOf(w, T) = w[x] + SumOf(w, T \ {x})
    <3>1. \A x \in S : w[x] \in Int
      BY SMTT(60)
    <3>. HIDE DEF UpTo, Below
    <3>. QED
      BY ONLY <3>1, IsFiniteSet(S), SumOfFacts, SMTT(60)
  <2>. QED
    BY <2>2, <2>3
<1>3. lo \in Nat /\ hi \in Nat /\ SumOf(w, S) \in Nat
  BY <1>1
<1>4. hi <= SumOf(w, S)
  BY SumOfMonotone
<1>5. \A k \in S : SumOf(w, UpTo(k)) \in Nat
  BY <1>1
<1>6. ASSUME NEW n \in 0 .. SumOf(w, S)
      PROVE  hits(n) # {} /\ Min(hits(n)) = i <=>
                 n <= hi /\ \A k \in S : k < i => SumOf(w, UpTo(k)) < n
  <2>1. hits(n) \subseteq Nat /\ hits(n) \subseteq S
    OBVIOUS
  <2>2. ASSUME hits(n) # {}, Min(hits(n)) = i
        PROVE  n <= hi /\ \A k \in S : k < i => SumOf(w, UpTo(k)) < n
    <3>1. i \in hits(n) /\ \A y \in hits(n) : i <= y
      BY <2>1, <2>2, MinFacts
    <3>2. n <= hi
      BY <3>1, <1>3
    <3>3. ASSUME NEW k \in S, k < i PROVE SumOf(w, UpTo(k)) < n
      BY <3>1, <3>3, <1>5, SMTT(60)
    <3>. QED
      BY <3>2, <3>3
  <2>3. ASSUME n <= hi, \A k \in S : k < i => SumOf(w, UpTo(k)) < n
        PROVE  hits(n) # {} /\ Min(hits(n)) = i
    <3>1. i \in hits(n)
      BY <2>3, <1>3
    <3>2. \A k \in hits(n) : ~ (k < i)
      BY <2>3, <1>5, SMTT(60)
    <3>3. Min(hits(n)) \in hits(n) /\ Min(hits(n)) <= i
      BY <2>1, <3>1, MinFacts
    <3>4. Min(hits(n)) \in Nat /\ ~ (Min(hits(n)) < i)
      BY <2>1, <3>2, <3>3
    <3>. QED
      BY <1>0, <3>1, <3>3, <3>4, SMTT(60)
  <2>. QED
    BY <2>2, <2>3
<1>7. CASE i = Min(S)
  <2>1. \A k \in S : ~ (k < i)
    <3>1. \A k \in S : i <= k
      BY <1>0, <1>7, MinFacts
    <3>. QED
      BY <1>0, <3>1, SMTT(60)
  <2>2. lo = 0
    <3>1. Below = {}
      BY <2>1
    <3>. QED
      BY <3>1, <1>2
  <2>3. D = 0 .. hi
    <3>1. \A n \in 0 .. SumOf(w, S) : hits(n) # {} /\ Min(hits(n)) = i <=> n <= hi
      BY <1>6, <2>1
    <3>. HIDE DEF hits, hi
    <3>. QED
      BY <1>3, <1>4, <3>1, SMTT(60)
  <2>4. Cardinality(0 .. hi) = hi + 1
    BY <1>3, FS_Interval, SMTT(60)
  <2>5. Cardinality(D) = w[i] + 1
    <3>. HIDE DEF D, hi, lo
    <3>. QED
      BY <1>2, <1>3, <2>2, <2>3, <2>4, SMTT(60)
  <2>. QED
    BY <1>7, <2>5
<1>8. CASE i # Min(S)
  <2>1. Below # {} /\ Below \subseteq Nat /\ IsFiniteSet(Below) /\ Below \subseteq S
    <3>1. Min(S) \in S /\ Min(S) <= i
      BY <1>0, MinFacts
    <3>2. Min(S) < i
      <4>1. Min(S) \in Nat
        BY <1>0, <3>1
      <4>. QED
        BY <1>0, <1>8, <3>1, <4>1, SMTT(60)
    <3>3. Below \in SUBSET S
      OBVIOUS
    <3>. QED
      BY <1>0, <3>1, <3>2, <3>3, FS_Subset
  <2>2. PICK p \in Below : \A y \in Below : y <= p
    BY <2>1, GreatestNatural
  <2>3. UpTo(p) = Below
    <3>1. p \in Nat /\ p < i
      BY <1>0, <2>2
    <3>2. \A j \in S : j <= p <=> j < i
      BY <1>0, <2>2, <3>1, SMTT(60)
    <3>. QED
      BY <3>2
  <2>4. \A k \in S : k < i => SumOf(w, UpTo(k)) <= lo
    <3>1. ASSUME NEW k \in S, k < i PROVE UpTo(k) \in SUBSET Below
      <4>1. \A j \in S : j <= k => j < i
        BY <1>0, <3>1, SMTT(60)
      <4>. QED
        BY <4>1
    <3>2. \A x \in Below : w[x] \in Nat
      OBVIOUS
    <3>. HIDE DEF Below, UpTo
    <3>. QED
      BY <3>1, <3>2, <2>1, SumOfMonotone
  <2>5. \A n \in 0 .. SumOf(w, S) :
            (n <= hi /\ \A k \in S : k < i => SumOf(w, UpTo(k)) < n) <=> n \in lo + 1 .. hi
    <3>1. p \in S /\ p < i /\ SumOf(w, UpTo(p)) = lo
      BY <2>2, <2>3
    <3>. HIDE DEF UpTo, lo, hi, Below
    <3>. QED
      BY <1>3, <1>5, <2>4, <3>1, SMTT(60)
  <2>6. D = lo + 1 .. hi
    <3>1. lo + 1 .. hi \subseteq 0 .. SumOf(w, S)
      BY <1>3, <1>4, SMTT(60)
    <3>. QED
      BY <1>6, <2>5, <3>1
  <2>7. Cardinality(lo + 1 .. hi) = hi - lo
    <3>1. lo + 1 \in Int /\ hi \in Int /\ lo <= hi
      BY <1>2, <1>3, SMTT(60)
    <3>2. Cardinality(lo + 1 .. hi) = IF lo + 1 > hi THEN 0 ELSE hi - (lo + 1) + 1
      BY <3>1, FS_Interval
    <3>. QED
      BY <3>1, <3>2, <1>3, SMTT(60)
  <2>8. Cardinality(D) = w[i]
    <3>. HIDE DEF D, hi, lo
    <3>. QED
      BY <1>2, <1>3, <2>6, <2>7, SMTT(60)
  <2>. QED
    BY <1>8, <2>8, SMTT(60)
<1>. QED
  BY <1>7, <1>8

(* The elements of a finite set of naturals can be listed in their order.  *)
LEMMA SliceExists ==
    ASSUME NEW S, S \subseteq Nat, IsFiniteSet(S)
    PROVE  \E s \in [1 .. Cardinality(S) -> S] : \A i, j \in DOMAIN s : i < j => s[i] < s[j]
<1>. DEFINE Bad == {T \in SUBSET S : ~ \E s \in [1 .. Cardinality(T) -> T] :
                                          \A i, j \in DOMAIN s : i < j => s[i] < s[j]}
<1>. SUFFICES ASSUME Bad # {} PROVE FALSE
  OBVIOUS
<1>1. PICK T \in Bad : \A V \in Bad : V \subseteq T => V = T
  <2>1. Bad \in SUBSET (SUBSET S)
    OBVIOUS
  <2>. HIDE DEF Bad
  <2>. QED
    BY ONLY IsFiniteSet(S), Bad # {}, <2>1, MinimalSubset, SMTT(60)
<1>2. IsFiniteSet(T) /\ T \subseteq Nat
  BY <1>1, FS_Subset
<1>3. T # {}
  <2>1. ASSUME T = {} PROVE FALSE
    <3>1. Cardinality(T) = 0
      BY <2>1, FS_EmptySet
    <3>2. <<>> \in [1 .. Cardinality(T) -> T] /\ DOMAIN <<>> = {}
      BY <2>1, <3>1, SMTT(60)
    <3>. QED
      BY <1>1, <3>2
  <2>. QED
    BY <2>1
<1>4. PICK m \in T : \A y \in T : y <= m
  BY <1>2, <1>3, GreatestNatural
<1>. DEFINE k == Cardinality(T)
<1>5. k \in Nat \ {0} /\ Cardinality(T \ {m}) = k - 1
  BY <1>2, <1>4, FS_RemoveElement, FS_CardinalityType, FS_EmptySet
<1>6. PICK r \in [1 .. k - 1 -> T \ {m}] : \A i, j \in DOMAIN r : i < j => r[i] < r[j]
  <2>1. T \ {m} \in SUBSET S /\ T \ {m} \subseteq T /\ T \ {m} # T
    BY <1>1, <1>4
  <2>2. T \ {m} \notin Bad
    BY <1>1, <2>1
  <2>. QED
    BY <1>5, <2>1, <2>2
<1>. DEFINE s == [i \in 1 .. k |-> IF i = k THEN m ELSE r[i]]
<1>7. s \in [1 .. k -> T]
  BY <1>4, <1>5, <1>6, SMTT(60)
<1>8. ASSUME NEW i \in 1 .. k, NEW j \in 1 .. k, i < j PROVE s[i] < s[j]
  <2>1. i \in 1 .. k - 1 /\ r[i] \in T \ {m}
    BY <1>5, <1>6, <1>8, SMTT(60)
  <2>2. CASE j = k
    <3>1. r[i] \in Nat /\ m \in Nat /\ r[i] <= m /\ r[i] # m
      BY <1>2, <1>4, <2>1
    <3>2. s[i] = r[i] /\ s[j] = m
      BY <1>8, <2>1, <2>2, SMTT(60)
    <3>. QED
      BY <3>1, <3>2, SMTT(60)
  <2>3. CASE j # k
    BY <1>5, <1>6, <1>8, <2>1, <2>3, SMTT(60)
  <2>. QED
    BY <2>2, <2>3
<1>. QED
  BY <1>1, <1>7, <1>8

(* What Slice returns: all the servers of the set, none of them twice.     *)
LEMMA SliceFacts ==
    ASSUME NEW S, S \subseteq Nat, IsFiniteSet(S)
    PROVE  /\ Slice(S) \in Seq(S)
           /\ Len(Slice(S)) = Cardinality(S)
           /\ {Slice(S)[i] : i \in DOMAIN Slice(S)} = S
<1>. DEFINE s == Slice(S)  k == Cardinality(S)
<1>0. k \in Nat
  BY FS_CardinalityType
<1>1. s \in [1 .. k -> S] /\ \A i, j \in DOMAIN s : i < j => s[i] < s[j]
  BY SliceExists DEF Slice
<1>. HIDE DEF s
<1>2. s \in Seq(S) /\ Len(s) = k
  BY <1>0, <1>1, SMTT(60)
<1>3. s \in Injection(1 .. k, S)
  <2>1. ASSUME NEW i \in 1 .. k, NEW j \in 1 .. k, s[i] = s[j] PROVE i = j
    <3>1. s[i] \in Nat /\ s[j] \in Nat /\ ~ (s[i] < s[j]) /\ ~ (s[j] < s[i])
      <4>1. s[i] \in S /\ s[j] \in S
        BY <1>1
      <4>2. s[i] \in Nat /\ s[j] \in Nat
        BY <4>1
      <4>. QED
        BY <4>2, <2>1, SMTT(60)
    <3>. QED
      BY <1>0, <1>1, <3>1, SMTT(60)
  <2>. QED
    BY <1>1, <2>1 DEF Injection, IsInjective
<1>4. IsFiniteSet(1 .. k) /\ Cardinality(1 .. k) = k
  BY <1>0, FS_Interval, SMTT(60)
<1>5. s \in Surjection(1 .. k, S)
  BY <1>3, <1>4, FS_Injection
<1>6. {s[i] : i \in DOMAIN s} = S
  BY <1>1, <1>5 DEF Surjection
<1>. QED
  BY <1>2, <1>6 DEF s

(* The max'th nearest distance is well defined.                            *)
LEMMA KthFacts ==
    ASSUME LabelOK, NEW S, IsFiniteSet(S), \A i \in S : label.dist[i] \in Nat,
           NEW k \in Nat, 0 < k, k <= Cardinality(S)
    PROVE  /\ Kth(S, k) \in Nat
           /\ Cardinality({i \in S : label.dist[i] < Kth(S, k)}) < k
           /\ Cardinality({i \in S : label.dist[i] <= Kth(S, k)}) >= k
<1>. DEFINE dist == label.dist
            Dists == {dist[i] : i \in S}
            Near(d) == {i \in S : dist[i] <= d}
            Good == {d \in Dists : Cardinality(Near(d)) >= k}
<1>0. \A T \in SUBSET S : IsFiniteSet(T) /\ Cardinality(T) \in Nat
  BY FS_Subset, FS_CardinalityType
<1>1. S # {} /\ Dists \subseteq Nat
  BY FS_EmptySet, SMTT(60)
<1>2. IsFiniteSet(Dists)
  <2>1. [i \in S |-> dist[i]] \in Surjection(S, Dists)
    BY DEF Surjection
  <2>. QED
    BY <2>1, FS_Surjection
<1>3. Good # {}
  <2>1. PICK d \in Dists : \A e \in Dists : e <= d
    BY <1>1, <1>2, GreatestNatural
  <2>2. Near(d) = S
    <3>1. \A i \in S : dist[i] \in Dists
      OBVIOUS
    <3>. HIDE DEF Dists
    <3>. QED
      BY <2>1, <3>1
  <2>. QED
    BY <2>1, <2>2
<1>4. PICK d \in Good : \A e \in Good : d <= e
  BY <1>1, <1>3, LeastNatural
<1>5. Cardinality({i \in S : dist[i] < d}) < k
  <2>. DEFINE Below == {i \in S : dist[i] < d}
              BelowDists == {e \in Dists : e < d}
  <2>1. CASE Below = {}
    BY <2>1, FS_EmptySet
  <2>2. CASE Below # {}
    <3>1. BelowDists # {} /\ BelowDists \subseteq Nat /\ IsFiniteSet(BelowDists)
      BY <1>1, <1>2, <2>2, FS_Subset
    <3>2. PICK e \in BelowDists : \A f \in BelowDists : f <= e
      BY <3>1, GreatestNatural
    <3>3. Near(e) = Below
      <4>1. \A i \in S : dist[i] <= e <=> dist[i] < d
        BY <1>1, <1>4, <3>2, SMTT(60)
      <4>. QED
        BY <4>1
    <3>4. e \notin Good
      <4>1. e \in Nat /\ d \in Nat /\ e < d
        BY <1>1, <1>4, <3>2
      <4>. QED
        BY <1>4, <4>1, SMTT(60)
    <3>. QED
      BY <1>0, <3>2, <3>3, <3>4, SMTT(60)
  <2>. QED
    BY <2>1, <2>2
<1>6. d \in Dists /\ Cardinality({i \in S : dist[i] <= d}) >= k
  BY <1>4
<1>. QED
  BY <1>1, <1>5, <1>6 DEF Kth

-----------------------------------------------------------------------------
(* The servers are finitely many, weights are integers; without a negative *)
(* weight in the file there is none, and the records of a label with a     *)
(* weight are in descending order of their weights.                        *)
LEMMA LabelFacts ==
    ASSUME LabelOK
    PROVE  /\ All \subseteq Nat /\ IsFiniteSet(All)
           /\ Usable \subseteq All /\ IsFiniteSet(Usable)
           /\ \A i \in All : weight[i] \in Int /\ label.dist[i] \in 0 .. MaxDistance
           /\ NonNegative => \A i \in All : weight[i] \in Nat
           /\ NonNegative /\ LabelWeight # 0 =>
                  \A i, j \in All : i < j => weight[i] >= weight[j]
<1>1. PICK n \in Nat : /\ label.config \in [1 .. n -> Int]
                       /\ label.dist \in [1 .. n -> 0 .. MaxDistance]
                       /\ label.healthy \subseteq 1 .. n
  BY DEF LabelOK
<1>2. All = 1 .. n /\ All \subseteq Nat /\ IsFiniteSet(All)
  <2>1. All = 1 .. n
    BY <1>1 DEF All
  <2>2. IsFiniteSet(1 .. n)
    BY FS_Interval, SMTT(60)
  <2>. QED
    BY <2>1, <2>2, SMTT(60)
<1>3. Usable \subseteq All /\ IsFiniteSet(Usable)
  BY <1>1, <1>2, FS_Subset DEF Usable
<1>4. weight = label.config \/ weight = [i \in All |-> 1]
  BY DEF weight, SetWeights, All
<1>5. \A i \in All : weight[i] \in Int /\ label.dist[i] \in 0 .. MaxDistance
  BY <1>1, <1>2, <1>4, SMTT(60)
<1>6. NonNegative => \A i \in All : weight[i] \in Nat
  BY <1>1, <1>2, <1>4, SMTT(60) DEF NonNegative
<1>7. ASSUME NonNegative, LabelWeight # 0, NEW i \in All, NEW j \in All, i < j
      PROVE  weight[i] >= weight[j]
  <2>1. CASE weight = label.config
    <3>1. LabelWeight \in Nat
      BY <1>2, <1>6, <1>7, SumOfNat DEF LabelWeight
    <3>2. SumOf(label.config, DOMAIN label.config) > 0
      BY <1>7, <2>1, <3>1, SMTT(60) DEF LabelWeight, All
    <3>. QED
      BY <1>7, <2>1, <3>2 DEF LabelOK, SortedByWeight, All
  <2>2. CASE weight = [k \in All |-> 1]
    BY <2>2, SMTT(60)
  <2>. QED
    BY <1>4, <2>1, <2>2
<1>. QED
  BY <1>2, <1>3, <1>5, <1>6, <1>7

(* What depends on the label alone stays when the label does.              *)
LEMMA SameLabel ==
    ASSUME UNCHANGED label
    PROVE  /\ LabelOK' <=> LabelOK
           /\ UNCHANGED <<All, Usable, weight, LabelWeight>>
           /\ NonNegative' <=> NonNegative
BY DEF LabelOK, All, Usable, weight, LabelWeight, NonNegative

(* Picker() is called with a label as the zone file gives it.              *)
LEMMA PickerInit == Init => PickerInv
<1>. SUFFICES ASSUME Init PROVE PickerInv
  OBVIOUS
<1>1. LabelOK
  <2>1. PICK n \in 0 .. MaxServers, type \in Types, hosts \in MaxHosts, tested \in BOOLEAN :
          \E config \in {w \in [1 .. n -> Weights] : SortedByWeight(w)},
             located \in IF type = "A" THEN BOOLEAN ELSE {FALSE},
             healthy \in IF tested THEN SUBSET (1 .. n) ELSE {1 .. n} :
          \E dist \in IF located THEN [1 .. n -> Distances] ELSE {[i \in 1 .. n |-> 0]} :
              label = [type |-> type, config |-> config, dist |-> dist, located |-> located,
                       tested |-> tested, healthy |-> healthy, hosts |-> hosts]
    BY DEF Init, IsLabel
  <2>2. PICK config \in {w \in [1 .. n -> Weights] : SortedByWeight(w)},
             located \in IF type = "A" THEN BOOLEAN ELSE {FALSE},
             healthy \in IF tested THEN SUBSET (1 .. n) ELSE {1 .. n} :
          \E dist \in IF located THEN [1 .. n -> Distances] ELSE {[i \in 1 .. n |-> 0]} :
              label = [type |-> type, config |-> config, dist |-> dist, located |-> located,
                       tested |-> tested, healthy |-> healthy, hosts |-> hosts]
    BY <2>1
  <2>3. PICK dist \in IF located THEN [1 .. n -> Distances] ELSE {[i \in 1 .. n |-> 0]} :
              label = [type |-> type, config |-> config, dist |-> dist, located |-> located,
                       tested |-> tested, healthy |-> healthy, hosts |-> hosts]
    BY <2>2
  <2>4. n \in Nat /\ hosts \in Int /\ healthy \subseteq 1 .. n
    BY PickerAssumption, SMTT(60) DEF PickerAssumption
  <2>5. dist \in [1 .. n -> 0 .. MaxDistance]
    <3>1. CASE located
      BY <3>1, PickerAssumption DEF PickerAssumption
    <3>2. CASE ~ located
      BY <3>2, PickerAssumption, SMTT(60) DEF PickerAssumption
    <3>. QED
      BY <3>1, <3>2
  <2>6. config \in [1 .. n -> Int] /\ SortedByWeight(config)
    BY PickerAssumption DEF PickerAssumption
  <2>. QED
    BY <2>3, <2>4, <2>5, <2>6 DEF LabelOK
<1>2. Picked = {} /\ Cardinality({}) = 0 /\ <<>> \in Seq(Usable)
  BY FS_EmptySet, SMTT(60) DEF Init, Picked
<1>. QED
  BY <1>1, <1>2 DEF Init, PickerInv, Cluster, ClusterOf

(* Copying the healthy servers and clamping max keeps the invariant.       *)
LEMMA StartInv == PickerInv /\ Start => PickerInv'
<1>. SUFFICES ASSUME PickerInv, Start PROVE PickerInv'
  OBVIOUS
<1>0. /\ UNCHANGED label
      /\ LabelOK' /\ UNCHANGED <<All, Usable, weight, LabelWeight>>
      /\ NonNegative' <=> NonNegative
  BY SameLabel DEF Start, PickerInv
<1>1. Usable \subseteq Nat /\ IsFiniteSet(Usable) /\ Cardinality(Usable) \in Nat
  BY LabelFacts, FS_CardinalityType DEF PickerInv
<1>2. choose = {} /\ choose' = {} /\ result = <<>> /\ max \in Nat /\ LabelOK
  BY DEF Start, PickerInv
<1>3. servers' = Usable /\ sum' = SumOf(weight, Usable)
  BY DEF Start, filterHealth, Usable, LabelWeight
<1>4. CASE /\ result' = Slice(Usable)
           /\ pc' = "done"
           /\ UNCHANGED max
  <2>1. result' \in Seq(Usable) /\ Picked' = Usable /\ Len(result') = Cardinality(Usable)
    <3>1. /\ Slice(Usable) \in Seq(Usable)
          /\ Len(Slice(Usable)) = Cardinality(Usable)
          /\ {Slice(Usable)[i] : i \in DOMAIN Slice(Usable)} = Usable
      BY <1>1, SliceFacts
    <3>. QED
      BY <1>4, <3>1 DEF Picked
  <2>. QED
    BY <1>0, <1>2, <1>3, <1>4, <2>1 DEF PickerInv, Cluster, ClusterOf
<1>5. CASE /\ LabelWeight # 0
           /\ max' = Limit(Usable)
           /\ max' >= 0 /\ pc' \in {"closest", "draw"}
           /\ UNCHANGED result
  <2>1. max' \in Nat /\ max' <= Cardinality(Usable)
    BY <1>1, <1>2, <1>5, SMTT(60) DEF Limit, LabelOK
  <2>2. Picked' = {} /\ Picked = {} /\ Cardinality(Picked') = 0 /\ Len(result') = 0
    BY <1>2, <1>5, FS_EmptySet, SMTT(60) DEF Picked
  <2>3. result' \in Seq(Usable) /\ Len(result') <= max' /\ max' - Len(result') <= Cardinality(Usable)
    BY <1>1, <1>2, <1>5, <2>1, <2>2, SMTT(60)
  <2>. QED
    BY <1>0, <1>2, <1>3, <1>5, <2>1, <2>2, <2>3 DEF PickerInv, Cluster, ClusterOf,
                                                              ZeroesLast
<1>6. CASE max' = Limit(Usable) /\ max' < 0 /\ pc' = "panic" /\ UNCHANGED result
  <2>1. label.hosts < 0
    BY <1>1, <1>2, <1>6, SMTT(60) DEF Limit, LabelOK
  <2>2. Picked' = {} /\ Picked = {} /\ Cardinality(Picked') = 0 /\ Len(result') = 0
    BY <1>2, <1>6, FS_EmptySet, SMTT(60) DEF Picked
  <2>3. result' \in Seq(Usable)
    BY <1>2, <1>6, SMTT(60)
  <2>. QED
    BY <1>0, <1>2, <1>3, <1>6, <2>1, <2>2, <2>3 DEF PickerInv, Cluster, ClusterOf
<1>7. \/ result' = Slice(Usable) /\ pc' = "done" /\ UNCHANGED max
      \/ /\ LabelWeight # 0 /\ max' = Limit(Usable) /\ UNCHANGED result
         /\ (~ (max' < 0) /\ pc' \in {"closest", "draw"}) \/ (max' < 0 /\ pc' = "panic")
  BY <1>3 DEF Start
<1>8. max' = Limit(Usable) /\ ~ (max' < 0) => max' >= 0
  BY <1>1, <1>2, SMTT(60) DEF Limit, LabelOK
<1>. QED
  BY <1>4, <1>5, <1>6, <1>7, <1>8

(* A round of the closest filter widens the distance: the servers chosen   *)
(* before are among those within 5% of the new one.                        *)
LEMMA ClosestPassInv == PickerInv /\ ClosestPass => PickerInv'
<1>. SUFFICES ASSUME PickerInv, ClosestPass PROVE PickerInv'
  OBVIOUS
<1>0. /\ UNCHANGED <<label, pc, servers, sum, max, result>>
      /\ LabelOK' /\ UNCHANGED <<All, Usable, weight, LabelWeight>>
      /\ NonNegative' <=> NonNegative
  BY SameLabel DEF ClosestPass, PickerInv
<1>1. /\ pc = "closest" /\ servers = Usable /\ choose \subseteq Usable
      /\ Cardinality(choose) < max /\ max <= Cardinality(Usable)
      /\ max \in Nat /\ LabelOK /\ Cluster
  BY DEF ClosestPass, PickerInv
<1>2. /\ IsFiniteSet(Usable) /\ Cardinality(Usable) \in Nat
      /\ \A i \in Usable : label.dist[i] \in 0 .. MaxDistance
  BY <1>1, LabelFacts, FS_CardinalityType
<1>3. \A T \in SUBSET Usable : IsFiniteSet(T) /\ Cardinality(T) \in Nat
  BY <1>2, FS_Subset, FS_CardinalityType
<1>. DEFINE m == MinDistance
            dists == {MaxDistance} \cup {label.dist[i] : i \in servers \ choose}
<1>4. /\ m \in dists /\ m \in 0 .. MaxDistance
      /\ \A i \in Usable \ choose : m <= label.dist[i]
  <2>1. dists \subseteq 0 .. MaxDistance /\ dists # {} /\ dists \subseteq Nat
    BY <1>1, <1>2, PickerAssumption, SMTT(60) DEF PickerAssumption
  <2>2. m = Min(dists)
    BY DEF MinDistance
  <2>3. m \in dists /\ \A d \in dists : m <= d
    BY <2>1, <2>2, MinFacts
  <2>. QED
    BY <1>1, <2>1, <2>3
<1>. HIDE DEF m
<1>5. choose' = choose \cup {i \in Usable : Within5(label.dist[i], m)}
  BY <1>1 DEF ClosestPass, Nearby, m
<1>6. choose \subseteq {i \in Usable : Within5(label.dist[i], m)}
  <2>. SUFFICES ASSUME NEW i \in choose PROVE Within5(label.dist[i], m)
    BY <1>1
  <2>1. PICK k \in 0 .. MaxDistance : choose = {j \in Usable : Within5(label.dist[j], k)}
    BY <1>1, <1>2 DEF Cluster, ClusterOf
  <2>2. k <= m
    <3>. SUFFICES ASSUME m < k PROVE FALSE
      BY <1>4, PickerAssumption, SMTT(60) DEF PickerAssumption
    <3>1. PICK j \in Usable \ choose : m = label.dist[j]
      BY <1>1, <1>4, PickerAssumption, SMTT(60) DEF PickerAssumption
    <3>2. ~ Within5(label.dist[j], k)
      BY <2>1, <3>1
    <3>. QED
      BY <1>4, <3>1, <3>2, PickerAssumption, SMTT(60) DEF Within5, PickerAssumption
  <2>3. Within5(label.dist[i], k) /\ label.dist[i] \in 0 .. MaxDistance
    BY <1>1, <1>2, <2>1
  <2>. QED
    BY <1>4, <2>2, <2>3, PickerAssumption, SMTT(60) DEF Within5, PickerAssumption
<1>7. choose' = {i \in Usable : Within5(label.dist[i], m)}
  BY <1>5, <1>6
<1>8. Cardinality({i \in Usable : label.dist[i] < m}) < max
  <2>. DEFINE near == {i \in Usable : label.dist[i] < m}
  <2>1. near \subseteq choose
    BY <1>2, <1>4, PickerAssumption, SMTT(60) DEF PickerAssumption
  <2>2. Cardinality(near) <= Cardinality(choose)
    BY <1>1, <1>3, <2>1, FS_Subset
  <2>3. near \in SUBSET Usable
    OBVIOUS
  <2>. HIDE DEF near
  <2>4. Cardinality(near) < max
    BY <1>1, <1>3, <2>2, <2>3, SMTT(60)
  <2>. QED
    BY <2>4 DEF near
<1>9. \E R \in SUBSET {label.dist[i] : i \in Usable} : m \in R /\ AreRounds(R, Usable, label.dist)
  <2>1. PICK j \in Usable : j \notin choose
    <3>1. choose # Usable
      BY <1>1, <1>2, SMTT(60)
    <3>. QED
      BY <1>1, <3>1
  <2>2. m \in {label.dist[i] : i \in Usable}
    <3>1. m <= label.dist[j]
      BY <1>4, <2>1
    <3>2. m = MaxDistance => m = label.dist[j]
      BY <1>2, <1>4, <2>1, <3>1, PickerAssumption, SMTT(60) DEF PickerAssumption
    <3>. QED
      BY <1>1, <1>4, <3>2
  <2>3. CASE choose = {}
    <3>1. AreRounds({m}, Usable, label.dist)
      BY <1>4, <2>3 DEF AreRounds
    <3>. QED
      BY <2>2, <3>1
  <2>4. CASE choose # {}
    <3>1. PICK R \in SUBSET {label.dist[i] : i \in Usable} : \E k \in R :
            AreRounds(R, Usable, label.dist) /\ choose = {i \in Usable : Within5(label.dist[i], k)}
      BY <1>1, <2>4 DEF Cluster, ClusterOf
    <3>2. PICK k \in R : choose = {i \in Usable : Within5(label.dist[i], k)}
      BY <3>1
    <3>3. PICK j1 \in Usable \ choose : m = label.dist[j1]
      <4>1. CASE m = MaxDistance
        <5>1. m <= label.dist[j]
          BY <1>4, <2>1
        <5>2. m = label.dist[j]
          BY <1>2, <1>4, <2>1, <4>1, <5>1, PickerAssumption, SMTT(60) DEF PickerAssumption
        <5>. QED
          BY <2>1, <5>2
      <4>. QED
        BY <1>1, <1>4, <4>1
    <3>4. ASSUME NEW i \in Usable PROVE label.dist[i] < m <=> Within5(label.dist[i], k)
      <4>1. k \in 0 .. MaxDistance /\ ~ Within5(label.dist[j1], k)
        BY <1>2, <3>2, <3>3
      <4>2. i \in choose <=> Within5(label.dist[i], k)
        BY <3>2
      <4>3. i \notin choose => m <= label.dist[i]
        BY <1>4
      <4>. QED
        BY <1>2, <1>4, <3>3, <4>1, <4>2, <4>3, PickerAssumption, SMTT(60)
           DEF Within5, PickerAssumption
    <3>5. AreRounds(R \cup {m}, Usable, label.dist)
      BY <3>1, <3>4 DEF AreRounds
    <3>. QED
      BY <2>2, <3>5
  <2>. QED
    BY <2>3, <2>4
<1>10. Cluster'
  BY <1>0, <1>7, <1>8, <1>9 DEF Cluster, ClusterOf, Within5
<1>11. choose' \subseteq Usable
  BY <1>7
<1>12. Picked' = Picked /\ (ZeroesLast' <=> ZeroesLast)
  BY <1>0 DEF Picked, ZeroesLast
<1>. QED
  BY <1>0, <1>1, <1>10, <1>11, <1>12 DEF PickerInv

(* So does going on with the servers that were chosen.                     *)
LEMMA KeepChosenInv == PickerInv /\ KeepChosen => PickerInv'
<1>. SUFFICES ASSUME PickerInv, KeepChosen PROVE PickerInv'
  OBVIOUS
<1>0. /\ UNCHANGED <<label, max, choose, result>>
      /\ LabelOK' /\ UNCHANGED <<All, Usable, weight, LabelWeight>>
      /\ NonNegative' <=> NonNegative
  BY SameLabel DEF KeepChosen, PickerInv
<1>1. /\ pc' = "draw" /\ servers' = choose /\ sum' = SumOf(weight, choose)
      /\ choose \subseteq Usable /\ result = <<>>
      /\ max <= Cardinality(choose) /\ max <= Cardinality(Usable)
      /\ max \in Nat /\ LabelWeight # 0 /\ LabelOK /\ Cluster
  <2>1. IsFiniteSet(Usable)
    BY LabelFacts DEF PickerInv
  <2>2. IsFiniteSet(choose) /\ Cardinality(choose) \in Nat
    BY <2>1, FS_Subset, FS_CardinalityType DEF PickerInv
  <2>. QED
    BY <2>2 DEF KeepChosen, PickerInv
<1>2. Picked' = {} /\ Picked = {} /\ Len(result) = 0
  BY <1>0, <1>1, SMTT(60) DEF Picked
<1>3. Cluster'
  BY <1>0, <1>1 DEF Cluster
<1>4. Len(result') <= max' /\ max' - Len(result') <= Cardinality(servers')
  BY <1>0, <1>1, <1>2, SMTT(60)
<1>5. ZeroesLast' /\ servers' \cap Picked' = {}
  BY <1>2 DEF ZeroesLast
<1>. QED
  BY <1>0, <1>1, <1>2, <1>3, <1>4, <1>5 DEF PickerInv

(* A draw keeps sum equal to the weight of the servers left, so that the   *)
(* next one lands on one of them too.                                      *)
LEMMA DrawInv == PickerInv /\ Draw => PickerInv'
<1>. SUFFICES ASSUME PickerInv, Draw PROVE PickerInv'
  OBVIOUS
<1>0. /\ UNCHANGED <<label, max, choose>>
      /\ LabelOK' /\ UNCHANGED <<All, Usable, weight, LabelWeight>>
      /\ NonNegative' <=> NonNegative
  BY SameLabel DEF Draw, PickerInv
<1>1. /\ pc = "draw" /\ Len(result) < max /\ max \in Nat /\ LabelOK /\ Cluster
      /\ sum = SumOf(weight, servers) /\ servers \subseteq Usable
      /\ result \in Seq(Usable) /\ servers \cap Picked = {}
      /\ max - Len(result) <= Cardinality(servers) /\ LabelWeight # 0
      /\ Cardinality(Picked) = Len(result) /\ Len(result) \in Nat
  BY SMTT(60) DEF Draw, PickerInv
<1>2. /\ Usable \subseteq Nat /\ IsFiniteSet(Usable)
      /\ \A i \in Usable : weight[i] \in Int
      /\ NonNegative => \A i \in Usable : weight[i] \in Nat
      /\ NonNegative => \A i, j \in Usable : i < j => weight[i] >= weight[j]
  BY <1>1, LabelFacts
<1>3. servers \subseteq Nat /\ IsFiniteSet(servers) /\ Cardinality(servers) \in Nat
  BY <1>1, <1>2, FS_Subset, FS_CardinalityType
<1>4. servers # {}
  <2>1. Cardinality(servers) > 0
    BY <1>1, <1>3, SMTT(60)
  <2>. QED
    BY <1>3, <2>1, FS_EmptySet, SMTT(60)
<1>5. sum \in Int /\ \A i \in servers : sum - weight[i] = SumOf(weight, servers \ {i})
  <2>1. \A i \in servers : weight[i] \in Int
    BY <1>1, <1>2
  <2>2. ASSUME NEW i \in servers
        PROVE  /\ SumOf(weight, servers) \in Int
               /\ SumOf(weight, servers \ {i}) \in Int
               /\ SumOf(weight, servers) = weight[i] + SumOf(weight, servers \ {i})
    BY <1>3, <2>1, SumOfRemove
  <2>3. sum \in Int
    BY <1>1, <1>4, <2>2
  <2>4. ASSUME NEW i \in servers PROVE sum - weight[i] = SumOf(weight, servers \ {i})
    BY <1>1, <2>1, <2>2, SMTT(60)
  <2>. QED
    BY <2>3, <2>4
<1>6. CASE sum < 0 /\ pc' = "panic" /\ UNCHANGED <<servers, sum, result>>
  <2>1. ~ NonNegative
    <3>1. ASSUME NonNegative PROVE SumOf(weight, servers) \in Nat
      BY <1>1, <1>2, <1>3, <3>1, SumOfNat
    <3>. QED
      BY <1>1, <1>5, <1>6, <3>1, SMTT(60)
  <2>2. Picked' = Picked /\ Cluster'
    BY <1>0, <1>1, <1>6 DEF Picked, Cluster
  <2>. QED
    BY <1>0, <1>1, <1>6, <2>1, <2>2 DEF PickerInv
<1>7. ASSUME NEW n \in 0 .. sum,
             IF Hits(n) = {}
             THEN /\ result' = Append(result, Nil)
                  /\ UNCHANGED <<servers, sum>>
             ELSE LET i == Min(Hits(n))
                  IN  /\ result' = Append(result, i)
                      /\ servers' = servers \ {i}
                      /\ sum' = sum - weight[i],
             UNCHANGED pc
      PROVE  PickerInv'
  <2>. DEFINE i == Min(Hits(n))
  <2>1. Hits(n) # {} /\ Hits(n) \subseteq servers
    <3>1. n \in Int /\ n <= SumOf(weight, servers)
      BY <1>1, <1>5, SMTT(60)
    <3>2. \A x \in servers : weight[x] \in Int
      BY <1>1, <1>2
    <3>. QED
      BY <1>3, <1>4, <3>1, <3>2, DrawLands DEF Hits
  <2>2. i \in servers
    BY <1>3, <2>1, MinFacts
  <2>3. result' = Append(result, i) /\ servers' = servers \ {i} /\ sum' = sum - weight[i]
    BY <1>7, <2>1
  <2>4. ASSUME NonNegative, weight[i] = 0, NEW j \in servers PROVE weight[j] = 0
    <3>. DEFINE D == Landing(weight, servers, i)
    <3>1. \A x \in servers : weight[x] \in Nat
      BY <1>1, <1>2, <2>4
    <3>2. Cardinality(D) = weight[i] + IF i = Min(servers) THEN 1 ELSE 0
      <4>. HIDE DEF i
      <4>. QED
        BY <1>3, <2>2, <3>1, DrawCount
    <3>3. n \in D /\ IsFiniteSet(D)
      <4>1. n \in D
        BY <1>1, <2>1 DEF Hits, Landing
      <4>2. IsFiniteSet(0 .. sum)
        BY <1>5, FS_Interval, SMTT(60)
      <4>3. D \in SUBSET (0 .. sum)
        BY <1>1 DEF Landing
      <4>. QED
        BY <4>1, <4>2, <4>3, FS_Subset
    <3>4. Cardinality(D) # 0
      BY <3>3, FS_EmptySet
    <3>5. i = Min(servers)
      BY <2>4, <3>2, <3>4, SMTT(60)
    <3>6. i <= j
      BY <1>3, <1>4, <3>5, MinFacts
    <3>. HIDE DEF i
    <3>7. i \in Nat /\ j \in Nat /\ i \in Usable /\ j \in Usable
      BY <1>1, <1>2, <2>2
    <3>8. i = j \/ weight[i] >= weight[j]
      BY <1>2, <2>4, <3>6, <3>7, SMTT(60)
    <3>. QED
      BY <2>4, <3>1, <3>8, SMTT(60)
  <2>. HIDE DEF i
  <2>5. Picked' = Picked \cup {i}
    <3>1. DOMAIN result' = DOMAIN result \cup {Len(result) + 1}
      BY <1>1, <2>3, SMTT(60)
    <3>2. \A k \in DOMAIN result : result'[k] = result[k]
      BY <1>1, <2>3, SMTT(60)
    <3>3. result'[Len(result) + 1] = i
      BY <1>1, <2>3, SMTT(60)
    <3>. QED
      BY <3>1, <3>2, <3>3, SMTT(60) DEF Picked
  <2>6. result' \in Seq(Usable) /\ Len(result') = Len(result) + 1
    BY <1>1, <2>2, <2>3, SMTT(60)
  <2>7. Cardinality(Picked') = Len(result')
    <3>1. IsFiniteSet(Picked) /\ i \notin Picked
      <4>1. Picked \subseteq Usable
        BY <1>1, SMTT(60) DEF Picked
      <4>. QED
        BY <1>1, <1>2, <2>2, <4>1, FS_Subset
    <3>. QED
      BY <1>1, <2>5, <2>6, <3>1, FS_AddElement
  <2>8. Cardinality(servers') = Cardinality(servers) - 1
    BY <1>3, <2>2, <2>3, FS_RemoveElement
  <2>9. NonNegative' => ZeroesLast'
    <3>1. NonNegative => ZeroesLast
      BY <1>1 DEF PickerInv
    <3>. QED
      BY <1>0, <2>3, <2>4, <2>5, <3>1 DEF ZeroesLast
  <2>10. /\ sum' = SumOf(weight', servers')
         /\ servers' \subseteq Usable
         /\ servers' \cap Picked' = {}
         /\ Len(result') <= max'
         /\ max' - Len(result') <= Cardinality(servers')
    BY <1>0, <1>1, <1>3, <1>5, <2>2, <2>3, <2>5, <2>6, <2>8, SMTT(60)
  <2>11. choose' # {} => servers' \subseteq choose' /\ Picked' \subseteq choose'
    BY <1>0, <1>1, <2>2, <2>3, <2>5 DEF PickerInv
  <2>12. Cluster'
    BY <1>0, <1>1 DEF Cluster
  <2>. QED
    BY <1>0, <1>1, <1>7, <2>6, <2>7, <2>9, <2>10, <2>11, <2>12 DEF PickerInv
<1>. QED
  BY <1>6, <1>7 DEF Draw

(* The invariant holds throughout a call of Picker().                      *)
LEMMA PickerInvariant == Spec => []PickerInv
<1>1. PickerInv /\ [Next]_vars => PickerInv'
  <2>. SUFFICES ASSUME PickerInv, [Next]_vars PROVE PickerInv'
    OBVIOUS
  <2>1. CASE Start
    BY <2>1, StartInv
  <2>2. CASE ClosestPass
    BY <2>2, ClosestPassInv
  <2>3. CASE KeepChosen
    BY <2>3, KeepChosenInv
  <2>4. CASE Draw
    BY <2>4, DrawInv
  <2>5. CASE Return
    <3>1. /\ UNCHANGED label
          /\ LabelOK' /\ UNCHANGED <<All, Usable, weight, LabelWeight>>
          /\ NonNegative' <=> NonNegative
      BY <2>5, SameLabel DEF Return, PickerInv
    <3>2. Picked' = Picked /\ (Cluster' <=> Cluster)
      BY <2>5, <3>1 DEF Return, Picked, Cluster
    <3>. QED
      BY <2>5, <3>1, <3>2 DEF PickerInv, Return
  <2>6. CASE UNCHANGED vars
    <3>1. /\ UNCHANGED label
          /\ LabelOK' /\ UNCHANGED <<All, Usable, weight, LabelWeight>>
          /\ NonNegative' <=> NonNegative
      BY <2>6, SameLabel DEF vars, PickerInv
    <3>2. Picked' = Picked /\ (Cluster' <=> Cluster) /\ (ZeroesLast' <=> ZeroesLast)
      BY <2>6, <3>1 DEF vars, Picked, Cluster, ZeroesLast
    <3>. QED
      BY <2>6, <3>1, <3>2 DEF PickerInv, vars
  <2>. QED
    BY <2>1, <2>2, <2>3, <2>4, <2>5, <2>6 DEF Next
<1>. QED
  BY <1>1, PickerInit, PTL DEF Spec

(* The answer Picker() makes is sound for any number of servers, whatever  *)
(* their weights, health and distances: no server twice, none that is      *)
(* unhealthy, no empty slot, and no panic unless a weight or the number of *)
(* hosts is negative.                                                      *)
THEOREM ResultIsSound == Spec => []ResultSound
<1>1. PickerInv => ResultSound
  BY SMTT(60) DEF PickerInv, ResultSound, Picked
<1>. QED
  BY <1>1, PickerInvariant, PTL

(* Every draw is proportional to the weights, but for the one number more  *)
(* of the first server, and leaves the servers of weight 0 for last.       *)
THEOREM DrawsAreProportional == Spec => []DrawProportional
<1>1. PickerInv => DrawProportional
  <2>. SUFFICES ASSUME PickerInv, NonNegative, pc = "draw"
                PROVE  /\ \A i \in servers :
                            Cardinality({n \in 0 .. sum : Hits(n) # {} /\ Min(Hits(n)) = i})
                            = weight[i] + IF i = Min(servers) THEN 1 ELSE 0
                       /\ ZeroesLast
    BY DEF DrawProportional, ZeroesLast
  <2>1. servers \subseteq Usable /\ sum = SumOf(weight, servers) /\ ZeroesLast /\ LabelOK
    BY DEF PickerInv
  <2>2. /\ servers \subseteq Nat /\ IsFiniteSet(servers)
        /\ \A x \in servers : weight[x] \in Nat
    BY <2>1, LabelFacts, FS_Subset
  <2>3. ASSUME NEW i \in servers
        PROVE  {n \in 0 .. sum : Hits(n) # {} /\ Min(Hits(n)) = i} = Landing(weight, servers, i)
    BY <2>1 DEF Landing, Hits
  <2>4. ASSUME NEW i \in servers
        PROVE  Cardinality(Landing(weight, servers, i))
               = weight[i] + IF i = Min(servers) THEN 1 ELSE 0
    BY <2>2, DrawCount
  <2>. QED
    BY <2>1, <2>3, <2>4
<1>. QED
  BY <1>1, PickerInvariant, PTL

(* The closest filter keeps whole clusters, as few as make max servers; so *)
(* it keeps every server at least as near as the max'th nearest, and none  *)
(* that is more than 5% farther than that.                                 *)
THEOREM ClosestServersKept == Spec => []ClosestCluster
<1>1. PickerInv => ClosestCluster
  <2>. SUFFICES ASSUME PickerInv, pc \in {"draw", "done"}, choose # {}
                PROVE  LET d == Kth(Usable, max) IN
                       /\ Picked \subseteq choose
                       /\ \E R \in SUBSET {label.dist[i] : i \in Usable} : \E m \in R :
                            /\ AreRounds(R, Usable, label.dist)
                            /\ choose = {i \in Usable : Within5(label.dist[i], m)}
                            /\ Cardinality({i \in Usable : label.dist[i] < m}) < max
                            /\ max <= Cardinality(choose)
                       /\ \A i \in Usable :
                            /\ label.dist[i] <= d => i \in choose
                            /\ i \in choose => Within5(label.dist[i], d)
    BY DEF ClosestCluster
  <2>. DEFINE d == Kth(Usable, max)
              Closer(e) == {i \in Usable : label.dist[i] < e}
              Near(e) == {i \in Usable : label.dist[i] <= e}
  <2>1. /\ Picked \subseteq choose /\ max <= Cardinality(choose) /\ LabelOK
        /\ max <= Cardinality(Usable) /\ max \in Nat /\ choose \subseteq Usable
    BY DEF PickerInv
  <2>r. PICK R \in SUBSET {label.dist[i] : i \in Usable} : \E m \in R :
          /\ AreRounds(R, Usable, label.dist)
          /\ choose = {i \in Usable : Within5(label.dist[i], m)}
          /\ Cardinality(Closer(m)) < max
    BY DEF PickerInv, Cluster, ClusterOf
  <2>0. PICK m \in R : /\ AreRounds(R, Usable, label.dist)
                       /\ choose = {i \in Usable : Within5(label.dist[i], m)}
                       /\ Cardinality(Closer(m)) < max
    BY <2>r
  <2>2. /\ m \in 0 .. MaxDistance
        /\ choose = {i \in Usable : Within5(label.dist[i], m)}
        /\ Cardinality(Closer(m)) < max
    BY <2>0, <2>1, LabelFacts
  <2>3. /\ IsFiniteSet(Usable)
        /\ \A i \in Usable : label.dist[i] \in Nat
    BY <2>1, LabelFacts, PickerAssumption, SMTT(60) DEF PickerAssumption
  <2>4. \A T \in SUBSET Usable : IsFiniteSet(T) /\ Cardinality(T) \in Nat
    BY <2>3, FS_Subset, FS_CardinalityType
  <2>5. Closer(m) \in SUBSET Usable /\ m \in Nat
    BY <2>2, PickerAssumption, SMTT(60) DEF PickerAssumption
  <2>6. 0 < max
    BY <2>1, <2>2, <2>4, <2>5, SMTT(60)
  <2>7. d \in Nat /\ Cardinality(Closer(d)) < max /\ Cardinality(Near(d)) >= max
    BY <2>1, <2>3, <2>6, KthFacts
  <2>. HIDE DEF d
  <2>8. ASSUME NEW i \in Usable, label.dist[i] <= d, i \notin choose PROVE FALSE
    <3>1. \A j \in choose : label.dist[j] < d
      BY <2>1, <2>2, <2>3, <2>5, <2>7, <2>8, SMTT(60) DEF Within5
    <3>2. choose \subseteq Closer(d) /\ Closer(d) \in SUBSET Usable
      BY <2>1, <3>1
    <3>3. Cardinality(choose) <= Cardinality(Closer(d))
      BY <2>4, <3>2, FS_Subset
    <3>. QED
      BY <2>1, <2>4, <2>7, <3>2, <3>3, SMTT(60)
  <2>9. m <= d
    <3>. SUFFICES ASSUME d < m PROVE FALSE
      BY <2>5, <2>7, SMTT(60)
    <3>1. Near(d) \subseteq Closer(m)
      BY <2>3, <2>5, <2>7, SMTT(60)
    <3>2. Cardinality(Near(d)) <= Cardinality(Closer(m)) /\ Near(d) \in SUBSET Usable
      BY <2>4, <2>5, <3>1, FS_Subset
    <3>. QED
      BY <2>1, <2>2, <2>4, <2>5, <2>7, <3>2, SMTT(60)
  <2>10. ASSUME NEW i \in choose PROVE Within5(label.dist[i], d)
    <3>1. Within5(label.dist[i], m) /\ label.dist[i] \in Nat
      BY <2>1, <2>2, <2>3
    <3>. QED
      BY <2>5, <2>7, <2>9, <3>1, SMTT(60) DEF Within5
  <2>. QED
    BY <2>0, <2>1, <2>8, <2>10 DEF d
<1>. QED
  BY <1>1, PickerInvariant, PTL

=============================================================================
