--------------------------- MODULE ZoneDataProofs ---------------------------
(***************************************************************************)
(* Proofs about the zone a zone file becomes, for any labels, records and  *)
(* options and any order of Go's maps: what each loop has made of the      *)
(* labels it has come across, and of those it has not.                     *)
(***************************************************************************)
EXTENDS ZoneData, SumsProofs, TLAPS

\* Most leaves are first-order reasoning; those with arithmetic cite SMTT(60).
USE ZenonT(60)

Record == [weight : Int, ttl : Int, known : BOOLEAN, loc : BOOLEAN,
           test : {None, "own", "nil", "address"}]

IsLabel(l) ==
    /\ l = [ttl |-> l.ttl, hosts |-> l.hosts, closest |-> l.closest, health |-> l.health,
            records |-> l.records, weight |-> l.weight]
    /\ l.closest \in BOOLEAN
    /\ \A t \in DOMAIN l.records : l.records[t] \in Seq(Record)

NoSlots(l) ==
    \A t \in DOMAIN l.records : \A i \in DOMAIN l.records[t] : l.records[t][i].test # "nil"

\* The names the file f has, those above them, and the keys of a name.
Base(f) == {ToLower(k) : k \in DOMAIN f.data}
Above(f) == UNION {Parents(n) : n \in Base(f)}
KeysOf(f, n) == {k \in DOMAIN f.data : ToLower(k) = n}

\* A label as the first loop leaves it.
Listed(l, raw, f) ==
    /\ ~ Malformed(raw)
    /\ l = [ttl |-> raw.ttl,
            hosts |-> Given(raw.hosts, f.options.hosts),
            closest |-> Given(raw.closest, f.options.closest),
            health |-> raw.health,
            records |-> l.records,
            weight |-> [t \in Types |-> IF t \in DOMAIN l.records THEN Total(l.records[t]) ELSE 0]]
    /\ DOMAIN l.records = DOMAIN raw.records
    /\ \A t \in DOMAIN raw.records : l.records[t] \in NewRecords(raw.records[t])

\* The list of a type and its weight, as the second loop leaves them.
Weighed(l, raw, f, t) ==
    /\ SameRecords(l.records[t], raw.records[t], t)
    /\ \A i \in DOMAIN l.records[t] :
          l.records[t][i].ttl = IF raw.ttl > 0 THEN raw.ttl
                                ELSE IF t = "NS" THEN NsTtl ELSE f.options.ttl
    /\ l.weight[t] = Total(l.records[t])
    /\ t \in AlwaysWeighted /\ l.records[t] # <<>> => l.weight[t] # 0
    /\ l.weight[t] > 0 => Descending(l.records[t])

\* A label of the file, and one in between, as the second loop leaves them.
Whole(l, raw, f) ==
    /\ IsLabel(l) /\ NoSlots(l)
    /\ DOMAIN l.records \ {"SOA"} = DOMAIN raw.records
    /\ l.hosts = Given(raw.hosts, f.options.hosts)
    /\ l.closest = Given(raw.closest, f.options.closest)
    /\ \A t \in DOMAIN raw.records : Weighed(l, raw, f, t)

Bare(l, f) ==
    /\ IsLabel(l) /\ NoSlots(l)
    /\ DOMAIN l.records \subseteq {"SOA"}
    /\ l.hosts = f.options.hosts

ReadFrom(n, l, f) == \E k \in KeysOf(f, n) : Listed(l, f.data[k], f)

Finished(n, l, f) ==
    IF n \in Base(f) THEN \E k \in KeysOf(f, n) : Whole(l, f.data[k], f) ELSE Bare(l, f)

\* Of the labels R that were read none is malformed; they or the zone asked
\* for the closest servers.
ReadInv(R, closest, f) ==
    /\ \A k \in R : ~ Malformed(f.data[k])
    /\ closest <=> f.options.closest \/ \E k \in R : f.data[k].closest = TRUE

GivenInv(f, g) ==
    /\ f.options \in Options
    /\ DOMAIN f.data \subseteq Keys
    /\ \A k \in DOMAIN f.data : f.data[k] \in RawLabels
    /\ g \in {"none", "country", "city"}

\* The first loop.
DataInv(lb, td, f) ==
    /\ td \subseteq DOMAIN f.data
    /\ DOMAIN lb = {ToLower(k) : k \in DOMAIN f.data \ td}
    /\ \A n \in DOMAIN lb : ReadFrom(n, lb[n], f)

\* The second loop: a label of the file is yet to be come across, or finished,
\* with those above it in the zone.
PassInv(lb, td, f) ==
    /\ td \subseteq DOMAIN lb
    /\ Base(f) \subseteq DOMAIN lb /\ DOMAIN lb \subseteq Base(f) \cup Above(f)
    /\ \A n \in Base(f) \ td : Parents(n) \subseteq DOMAIN lb
    /\ \A n \in DOMAIN lb :
          IF n \in Base(f) /\ n \in td
          THEN ReadFrom(n, lb[n], f)
          ELSE Finished(n, lb[n], f) /\ "SOA" \notin DOMAIN lb[n].records

Located(l, g) ==
    "A" \in DOMAIN l.records =>
        \A i \in DOMAIN l.records["A"] :
            l.records["A"][i].loc <=> g = "city" /\ l.closest /\ l.records["A"][i].known

Tested(l) ==
    "A" \in DOMAIN l.records /\ l.health =>
        \A i \in DOMAIN l.records["A"] : l.records["A"][i].test # None

\* After the loops.
ReadyInv(lb, f) ==
    /\ DOMAIN lb = {<<>>} \cup Base(f) \cup Above(f)
    /\ \A n \in DOMAIN lb : Finished(n, lb[n], f)

\* Why a file was rejected.
RejectedInv(f, g) ==
    \/ ~ f.options.valid
    \/ \E k \in DOMAIN f.data : Invalid(f.data[k], ToLower(k))
    \/ g = "country" /\ (f.options.closest
                           \/ \E k \in DOMAIN f.data : f.data[k].closest = TRUE)

ZoneDataInv ==
    /\ GivenInv(file, geo)
    /\ pc \in {"options", "data", "pass", "locations", "tests", "done", "rejected"}
    /\ pc = "options" => Labels = <<>>
    /\ pc = "data" => DataInv(Labels, todo, file)
                      /\ ReadInv(DOMAIN file.data \ todo, HasClosest, file)
    /\ pc \in {"pass", "locations", "tests", "done"} => ReadInv(DOMAIN file.data, HasClosest, file)
    /\ pc = "pass" => PassInv(Labels, todo, file)
    /\ pc \in {"locations", "tests", "done"} => ReadyInv(Labels, file)
    /\ pc \in {"tests", "done"} => \A n \in DOMAIN Labels : Located(Labels[n], geo)
    /\ pc = "done" => \A n \in DOMAIN Labels : Tested(Labels[n])
    /\ pc = "rejected" => RejectedInv(file, geo)

-----------------------------------------------------------------------------
(* An element of a sequence over a set is in the set.                      *)
LEMMA SeqElement ==
    ASSUME NEW S, NEW q \in Seq(S), NEW k \in DOMAIN q
    PROVE  q[k] \in S
BY SMTT(60)

(* The domain of a sequence.                                               *)
LEMMA SeqDomain ==
    ASSUME NEW S, NEW q \in Seq(S)
    PROVE  /\ Len(q) \in Nat /\ DOMAIN q = 1..Len(q)
           /\ IsFiniteSet(DOMAIN q) /\ Cardinality(DOMAIN q) = Len(q)
<1>1. Len(q) \in Nat /\ DOMAIN q = 1..Len(q) /\ 1 \in Int /\ Len(q) \in Int
  BY SMTT(60)
<1>2. /\ IsFiniteSet(1..Len(q))
      /\ Cardinality(1..Len(q)) = IF 1 > Len(q) THEN 0 ELSE Len(q) - 1 + 1
  BY <1>1, FS_Interval
<1>3. Cardinality(1..Len(q)) = Len(q)
  BY <1>1, <1>2, SMTT(60)
<1>. QED
  BY <1>1, <1>2, <1>3

(* A function with the domain of a sequence is a sequence.                 *)
LEMMA SameDomainSeq ==
    ASSUME NEW S, NEW T, NEW q \in Seq(S), NEW f, f \in [DOMAIN q -> T]
    PROVE  f \in Seq(T) /\ Len(f) = Len(q)
<1>1. Len(q) \in Nat /\ DOMAIN q = 1..Len(q)
  BY SeqDomain
<1>2. f \in [1..Len(q) -> T]
  BY <1>1
<1>. QED
  BY <1>1, <1>2, SMTT(60)

(* A sum does not depend on the order of what is added up.                 *)
LEMMA SumOfPermuted ==
    ASSUME NEW S, IsFiniteSet(S), NEW v, NEW w, NEW p \in Bijection(S, S),
           \A x \in S : w[x] \in Int, \A x \in S : v[x] = w[p[x]]
    PROVE  SumOf(v, S) = SumOf(w, S)
<1>. DEFINE Image(V) == {p[x] : x \in V}
            Bad == {V \in SUBSET S : SumOf(v, V) # SumOf(w, Image(V))}
<1>0. /\ p \in [S -> S]
      /\ \A a, b \in S : p[a] = p[b] => a = b
      /\ \A y \in S : \E x \in S : p[x] = y
  BY DEF Bijection, Injection, Surjection, IsInjective
<1>1. ASSUME Bad # {} PROVE FALSE
  <2>1. PICK V \in Bad : \A U \in Bad : U \subseteq V => U = V
    <3>1. Bad \in SUBSET (SUBSET S)
      OBVIOUS
    <3>. HIDE DEF Bad
    <3>. QED
      BY ONLY IsFiniteSet(S), <1>1, <3>1, MinimalSubset, SMTT(60)
  <2>2. V # {}
    <3>1. Image({}) = {}
      OBVIOUS
    <3>. QED
      BY <2>1, <3>1, SumOfEmpty
  <2>3. PICK x \in V : TRUE
    BY <2>2
  <2>4. Image(V) \subseteq S /\ p[x] \in Image(V) /\ V \subseteq S
    BY <1>0, <2>1, SMTT(60)
  <2>5. Image(V \ {x}) = Image(V) \ {p[x]}
    BY <1>0, <2>1, <2>3, SMTT(60)
  <2>6. IsFiniteSet(V) /\ IsFiniteSet(Image(V))
    BY <2>4, FS_Subset
  <2>7. (\A y \in V : v[y] \in Int) /\ (\A y \in Image(V) : w[y] \in Int)
    BY <1>0, <2>4
  <2>8. SumOf(v, V) = v[x] + SumOf(v, V \ {x})
    BY <2>6, <2>7, <2>3, SumOfRemove
  <2>9. SumOf(w, Image(V)) = w[p[x]] + SumOf(w, Image(V) \ {p[x]})
    <3>. HIDE DEF Image
    <3>. QED
      BY <2>4, <2>6, <2>7, SumOfRemove
  <2>10. SumOf(v, V \ {x}) = SumOf(w, Image(V \ {x}))
    <3>1. V \ {x} \in SUBSET S /\ V \ {x} \subseteq V /\ V \ {x} # V
      BY <2>1, <2>3
    <3>. QED
      BY <2>1, <3>1
  <2>11. v[x] = w[p[x]]
    BY <2>4
  <2>. QED
    BY <2>1, <2>5, <2>8, <2>9, <2>10, <2>11
<1>2. Image(S) = S
  BY <1>0, SMTT(60)
<1>. QED
  BY <1>1, <1>2

(* Ones add up to their number.                                            *)
LEMMA SumOfOnes ==
    ASSUME NEW S, IsFiniteSet(S), NEW w, \A x \in S : w[x] = 1
    PROVE  SumOf(w, S) = Cardinality(S)
<1>. DEFINE Bad == {V \in SUBSET S : SumOf(w, V) # Cardinality(V)}
<1>. SUFFICES ASSUME Bad # {} PROVE FALSE
  OBVIOUS
<1>1. PICK V \in Bad : \A U \in Bad : U \subseteq V => U = V
  <2>1. Bad \in SUBSET (SUBSET S)
    OBVIOUS
  <2>. HIDE DEF Bad
  <2>. QED
    BY ONLY IsFiniteSet(S), Bad # {}, <2>1, MinimalSubset, SMTT(60)
<1>2. V # {}
  BY <1>1, SumOfEmpty, FS_EmptySet
<1>3. PICK x \in V : TRUE
  BY <1>2
<1>4. IsFiniteSet(V)
  BY <1>1, FS_Subset
<1>5. (\A y \in V : w[y] \in Int) /\ w[x] = 1
  <2>1. 1 \in Int
    BY SMTT(60)
  <2>. QED
    BY <1>1, <1>3, <2>1
<1>6. SumOf(w, V) = w[x] + SumOf(w, V \ {x})
  BY <1>3, <1>4, <1>5, SumOfRemove
<1>7. SumOf(w, V \ {x}) = Cardinality(V \ {x})
  <2>1. V \ {x} \in SUBSET S /\ V \ {x} \subseteq V /\ V \ {x} # V
    BY <1>1, <1>3
  <2>. QED
    BY <1>1, <2>1
<1>8. Cardinality(V \ {x}) = Cardinality(V) - 1 /\ Cardinality(V) \in Nat
  BY <1>3, <1>4, FS_RemoveElement, FS_CardinalityType
<1>9. SumOf(w, V) # Cardinality(V)
  BY <1>1
<1>. QED
  BY <1>5, <1>6, <1>7, <1>8, <1>9, SMTT(60)


-----------------------------------------------------------------------------
(* The records of a list of the file, in its order.                        *)
LEMMA ListOfFacts ==
    ASSUME NEW raw \in Seq(RawRecord)
    PROVE  /\ ListOf(raw) \in Seq(Record) /\ DOMAIN ListOf(raw) = DOMAIN raw
           /\ Len(ListOf(raw)) = Len(raw)
           /\ \A i \in DOMAIN raw : ListOf(raw)[i] = NewRecord(raw[i])
<1>1. ASSUME NEW i \in DOMAIN raw PROVE NewRecord(raw[i]) \in Record
  <2>1. raw[i] \in RawRecord
    BY SeqElement
  <2>2. 0 \in Int
    BY SMTT(60)
  <2>. QED
    BY <2>1, <2>2 DEF RawRecord, Record, NewRecord, Nil
<1>2. ListOf(raw) \in [DOMAIN raw -> Record]
  BY <1>1 DEF ListOf
<1>3. ListOf(raw) \in Seq(Record) /\ Len(ListOf(raw)) = Len(raw)
  BY <1>2, SameDomainSeq, SMTT(60)
<1>. QED
  BY <1>2, <1>3 DEF ListOf

(* The weights of a list of records.                                       *)
LEMMA TotalFacts ==
    ASSUME NEW q \in Seq(Record)
    PROVE  /\ Total(q) \in Int
           /\ (\A i \in DOMAIN q : q[i].weight = 1) => Total(q) = Len(q)
<1>. DEFINE w == [i \in DOMAIN q |-> q[i].weight]
<1>1. \A i \in DOMAIN q : w[i] = q[i].weight /\ w[i] \in Int
  <2>. TAKE i \in DOMAIN q
  <2>1. q[i] \in Record
    BY SeqElement
  <2>. QED
    BY <2>1 DEF Record
<1>2. IsFiniteSet(DOMAIN q) /\ Cardinality(DOMAIN q) = Len(q)
  BY SeqDomain
<1>3. Total(q) = SumOf(w, DOMAIN q)
  BY DEF Total
<1>. HIDE DEF w
<1>4. SumOf(w, DOMAIN q) \in Int
  <2>1. DOMAIN q \in SUBSET DOMAIN q
    OBVIOUS
  <2>. QED
    BY <1>1, <1>2, <2>1, SumOfFacts
<1>5. ASSUME \A i \in DOMAIN q : q[i].weight = 1 PROVE SumOf(w, DOMAIN q) = Len(q)
  BY <1>1, <1>2, <1>5, SumOfOnes
<1>. QED
  BY <1>3, <1>4, <1>5

(* A list in another order has the same length, total and weights.         *)
LEMMA PermutedFacts ==
    ASSUME NEW q \in Seq(Record), NEW p \in Bijection(DOMAIN q, DOMAIN q),
           NEW r, r = [i \in DOMAIN q |-> q[p[i]]]
    PROVE  /\ r \in Seq(Record) /\ DOMAIN r = DOMAIN q /\ Len(r) = Len(q)
           /\ Total(r) = Total(q)
           /\ \A w : Count(r, w) = Count(q, w)
<1>1. /\ p \in [DOMAIN q -> DOMAIN q]
      /\ \A a, b \in DOMAIN q : p[a] = p[b] => a = b
      /\ \A y \in DOMAIN q : \E x \in DOMAIN q : p[x] = y
  BY DEF Bijection, Injection, Surjection, IsInjective
<1>2. \A i \in DOMAIN q : q[i] \in Record
  BY SeqElement
<1>3. r \in [DOMAIN q -> Record]
  BY <1>1, <1>2
<1>4. r \in Seq(Record) /\ Len(r) = Len(q)
  BY <1>3, SameDomainSeq, SMTT(60)
<1>5. DOMAIN r = DOMAIN q /\ \A i \in DOMAIN q : r[i] = q[p[i]]
  OBVIOUS
<1>6. Total(r) = Total(q)
  <2>. DEFINE v == [i \in DOMAIN q |-> r[i].weight]
              w == [i \in DOMAIN q |-> q[i].weight]
  <2>1. (\A x \in DOMAIN q : w[x] \in Int) /\ (\A x \in DOMAIN q : v[x] = w[p[x]])
    BY <1>1, <1>2, <1>5 DEF Record
  <2>2. Total(r) = SumOf(v, DOMAIN q) /\ Total(q) = SumOf(w, DOMAIN q)
    BY <1>5 DEF Total
  <2>3. IsFiniteSet(DOMAIN q)
    BY SeqDomain
  <2>. HIDE DEF v, w
  <2>. QED
    BY <2>1, <2>2, <2>3, SumOfPermuted
<1>7. ASSUME NEW w PROVE Count(r, w) = Count(q, w)
  <2>. DEFINE A == {i \in DOMAIN r : r[i].weight = w}
              B == {i \in DOMAIN q : q[i].weight = w}
              f == [i \in A |-> p[i]]
  <2>1. f \in Bijection(A, B)
    <3>1. f \in [A -> B]
      BY <1>1, <1>5
    <3>2. \A a, b \in A : f[a] = f[b] => a = b
      BY <1>1, <1>5
    <3>3. \A y \in B : \E x \in A : f[x] = y
      <4>. TAKE y \in B
      <4>1. PICK x \in DOMAIN q : p[x] = y
        BY <1>1
      <4>2. x \in A
        BY <1>5, <4>1
      <4>. QED
        BY <4>1, <4>2
    <3>. QED
      BY <3>1, <3>2, <3>3 DEF Bijection, Injection, Surjection, IsInjective
  <2>2. IsFiniteSet(A)
    BY <1>5, SeqDomain, FS_Subset
  <2>. HIDE DEF f
  <2>3. ExistsBijection(A, B)
    BY <2>1 DEF ExistsBijection
  <2>4. Cardinality(A) = Cardinality(B)
    BY <2>2, <2>3, FS_Bijection
  <2>. QED
    BY <2>4 DEF Count
<1>. QED
  BY <1>4, <1>5, <1>6, <1>7

(* What the first loop makes of a list of the file.                        *)
LEMMA NewRecordsFacts ==
    ASSUME NEW raw \in Seq(RawRecord), NEW records \in NewRecords(raw)
    PROVE  /\ records \in Seq(Record) /\ DOMAIN records = DOMAIN raw
           /\ Len(records) = Len(raw)
           /\ Total(records) = Total(ListOf(raw))
           /\ Total(records) > 0 => Descending(records)
           /\ \A w : Count(records, w) = Count(ListOf(raw), w)
           /\ \A i \in DOMAIN records : \E j \in DOMAIN raw : records[i] = NewRecord(raw[j])
           /\ \A j \in DOMAIN raw : \E i \in DOMAIN records : records[i] = NewRecord(raw[j])
<1>. DEFINE q == ListOf(raw)
<1>1. /\ q \in Seq(Record) /\ DOMAIN q = DOMAIN raw /\ Len(q) = Len(raw)
      /\ \A i \in DOMAIN raw : q[i] = NewRecord(raw[i])
  BY ListOfFacts
<1>. HIDE DEF q
<1>2. \E p \in Bijection(DOMAIN q, DOMAIN q) :
         /\ records = [i \in DOMAIN q |-> q[p[i]]]
         /\ Total(q) > 0 => Descending(records)
  <2>1. CASE Total(q) > 0
    BY <2>1 DEF NewRecords, Sorted, q
  <2>2. CASE ~ (Total(q) > 0)
    <3>. DEFINE p == [i \in DOMAIN q |-> i]
    <3>1. p \in Bijection(DOMAIN q, DOMAIN q)
      BY DEF Bijection, Injection, Surjection, IsInjective
    <3>2. records = q
      BY <2>2 DEF NewRecords, q
    <3>3. q = [i \in DOMAIN q |-> q[i]]
      BY <1>1, SMTT(60)
    <3>4. q = [i \in DOMAIN q |-> q[p[i]]]
      BY <3>3
    <3>. QED
      BY <2>2, <3>1, <3>2, <3>4
  <2>. QED
    BY <2>1, <2>2
<1>3. PICK p \in Bijection(DOMAIN q, DOMAIN q) :
         /\ records = [i \in DOMAIN q |-> q[p[i]]]
         /\ Total(q) > 0 => Descending(records)
  BY <1>2
<1>4. /\ records \in Seq(Record) /\ DOMAIN records = DOMAIN q /\ Len(records) = Len(q)
      /\ Total(records) = Total(q)
      /\ \A w : Count(records, w) = Count(q, w)
  <2>1. q \in Seq(Record)
    BY <1>1
  <2>2. records = [i \in DOMAIN q |-> q[p[i]]]
    BY <1>3
  <2>. QED
    BY ONLY <2>1, <2>2, p \in Bijection(DOMAIN q, DOMAIN q), PermutedFacts, SMTT(60)
<1>5. p \in [DOMAIN q -> DOMAIN q] /\ \A y \in DOMAIN q : \E x \in DOMAIN q : p[x] = y
  BY DEF Bijection, Injection, Surjection
<1>6. \A i \in DOMAIN records : \E j \in DOMAIN raw : records[i] = NewRecord(raw[j])
  BY <1>1, <1>3, <1>4, <1>5
<1>7. \A j \in DOMAIN raw : \E i \in DOMAIN records : records[i] = NewRecord(raw[j])
  <2>. TAKE j \in DOMAIN raw
  <2>1. PICK x \in DOMAIN q : p[x] = j
    BY <1>1, <1>5
  <2>2. records[x] = NewRecord(raw[j])
    BY <1>1, <1>3, <2>1
  <2>. QED
    BY <1>4, <2>2
<1>8. Total(records) > 0 => Descending(records)
  BY <1>3, <1>4
<1>9. /\ Len(records) = Len(raw) /\ DOMAIN records = DOMAIN raw
      /\ Total(records) = Total(ListOf(raw))
      /\ \A w : Count(records, w) = Count(ListOf(raw), w)
  BY <1>1, <1>4 DEF q
<1>. QED
  BY <1>4, <1>6, <1>7, <1>8, <1>9

(* A list of well-formed records keeps its weights when it is read.        *)
LEMMA GoodList ==
    ASSUME NEW raw \in Seq(RawRecord), \A i \in DOMAIN raw : raw[i].kind = "good"
    PROVE  /\ Total(ListOf(raw)) = Total(raw)
           /\ \A w : Count(ListOf(raw), w) = Count(raw, w)
<1>. DEFINE q == ListOf(raw)
<1>1. DOMAIN q = DOMAIN raw /\ \A i \in DOMAIN raw : q[i] = NewRecord(raw[i])
  BY ListOfFacts
<1>. HIDE DEF q
<1>2. \A i \in DOMAIN raw : q[i].weight = raw[i].weight
  BY <1>1, SMTT(60) DEF NewRecord
<1>3. [i \in DOMAIN q |-> q[i].weight] = [i \in DOMAIN raw |-> raw[i].weight]
  BY <1>1, <1>2
<1>4. Total(q) = Total(raw)
  BY <1>1, <1>3 DEF Total
<1>5. ASSUME NEW w PROVE Count(q, w) = Count(raw, w)
  <2>1. {i \in DOMAIN q : q[i].weight = w} = {i \in DOMAIN raw : raw[i].weight = w}
    BY <1>1, <1>2
  <2>. QED
    BY <2>1 DEF Count
<1>. QED
  BY <1>4, <1>5 DEF q

(* What the second loop makes of a list.                                   *)
Visited(q, one, ttl) ==
    [i \in DOMAIN q |-> [q[i] EXCEPT !.weight = IF one THEN 1 ELSE q[i].weight, !.ttl = ttl]]

(* It changes weights and times only.                                      *)
LEMMA VisitedList ==
    ASSUME NEW q \in Seq(Record), NEW one \in BOOLEAN, NEW ttl \in Int
    PROVE  /\ Visited(q, one, ttl) \in Seq(Record)
           /\ DOMAIN Visited(q, one, ttl) = DOMAIN q /\ Len(Visited(q, one, ttl)) = Len(q)
           /\ \A i \in DOMAIN q :
                 /\ Visited(q, one, ttl)[i].weight = IF one THEN 1 ELSE q[i].weight
                 /\ Visited(q, one, ttl)[i].ttl = ttl
                 /\ Visited(q, one, ttl)[i].test = q[i].test
<1>. DEFINE d == Visited(q, one, ttl)
<1>1. ASSUME NEW i \in DOMAIN q
      PROVE  /\ d[i] \in Record
             /\ d[i].weight = IF one THEN 1 ELSE q[i].weight
             /\ d[i].ttl = ttl /\ d[i].test = q[i].test
  <2>1. q[i] \in Record
    BY SeqElement
  <2>2. 1 \in Int
    BY SMTT(60)
  <2>3. d[i] = [q[i] EXCEPT !.weight = IF one THEN 1 ELSE q[i].weight, !.ttl = ttl]
    BY DEF Visited
  <2>. QED
    BY <2>1, <2>2, <2>3 DEF Record
<1>2. DOMAIN d = DOMAIN q /\ d \in [DOMAIN q -> Record]
  BY <1>1 DEF Visited
<1>. HIDE DEF d
<1>3. d \in Seq(Record) /\ Len(d) = Len(q)
  BY <1>2, SameDomainSeq, SMTT(60)
<1>. QED
  BY <1>1, <1>2, <1>3 DEF d

(* The fields of a label after the second loop.                            *)
LEMMA VisitedFields ==
    ASSUME NEW l, l = [ttl |-> l.ttl, hosts |-> l.hosts, closest |-> l.closest,
                       health |-> l.health, records |-> l.records, weight |-> l.weight]
    PROVE  SetDefaults(l) =
             [ttl |-> l.ttl, hosts |-> l.hosts, closest |-> l.closest, health |-> l.health,
              records |-> [t \in DOMAIN l.records |->
                             Visited(l.records[t], SetWeight(l, t), TtlOf(l, t))],
              weight |-> [t \in Types |-> IF t \in DOMAIN l.records /\ SetWeight(l, t)
                                          THEN Len(l.records[t]) ELSE l.weight[t]]]
<1>. DEFINE R == [t \in DOMAIN l.records |->
                    Visited(l.records[t], SetWeight(l, t), TtlOf(l, t))]
            W == [t \in Types |-> IF t \in DOMAIN l.records /\ SetWeight(l, t)
                                  THEN Len(l.records[t]) ELSE l.weight[t]]
<1>1. SetDefaults(l) = [l EXCEPT !.records = R, !.weight = W]
  BY DEF SetDefaults, Visited
<1>. HIDE DEF R, W
<1>2. l \in [ttl : {l.ttl}, hosts : {l.hosts}, closest : {l.closest}, health : {l.health},
            records : {l.records}, weight : {l.weight}]
  OBVIOUS
<1>3. SetDefaults(l) \in [ttl : {l.ttl}, hosts : {l.hosts}, closest : {l.closest},
                         health : {l.health}, records : {R}, weight : {W}]
  BY ONLY <1>1, <1>2, ZenonT(60)
<1>4. SetDefaults(l) = [ttl |-> l.ttl, hosts |-> l.hosts, closest |-> l.closest,
                        health |-> l.health, records |-> R, weight |-> W]
  BY ONLY <1>3, SMTT(60)
<1>. QED
  BY <1>4 DEF R, W

(* A label that has been read has the options of the file.                 *)
LEMMA ListedFields ==
    ASSUME GivenInv(file, geo), NEW raw \in RawLabels, NEW l, Listed(l, raw, file)
    PROVE  /\ l = [ttl |-> l.ttl, hosts |-> l.hosts, closest |-> l.closest,
                   health |-> l.health, records |-> l.records, weight |-> l.weight]
           /\ l.ttl = raw.ttl /\ l.ttl \in Int
           /\ l.hosts = Given(raw.hosts, file.options.hosts)
           /\ l.closest = Given(raw.closest, file.options.closest) /\ l.closest \in BOOLEAN
           /\ DOMAIN l.records = DOMAIN raw.records /\ DOMAIN raw.records \subseteq Types
           /\ \A t \in DOMAIN raw.records :
                 /\ raw.records[t] \in Seq(RawRecord)
                 /\ l.records[t] \in NewRecords(raw.records[t])
                 /\ l.weight[t] = Total(l.records[t])
<1>2. /\ l.ttl = raw.ttl
      /\ l.hosts = Given(raw.hosts, file.options.hosts)
      /\ l.closest = Given(raw.closest, file.options.closest)
      /\ l.health = raw.health
      /\ l.weight = [t \in Types |-> IF t \in DOMAIN l.records THEN Total(l.records[t]) ELSE 0]
  BY SMTT(60) DEF Listed
<1>4. l = [ttl |-> l.ttl, hosts |-> l.hosts, closest |-> l.closest,
           health |-> l.health, records |-> l.records, weight |-> l.weight]
  BY <1>2 DEF Listed
<1>5. raw.ttl \in Int /\ raw.closest \in {TRUE, FALSE, None} /\ DOMAIN raw.records \subseteq Types
  BY ZoneDataAssumption
<1>6. file.options.closest \in BOOLEAN
  BY ZoneDataAssumption DEF GivenInv
<1>7. l.closest \in BOOLEAN
  BY <1>2, <1>5, <1>6 DEF Given
<1>8. \A t \in DOMAIN raw.records : raw.records[t] \in Seq(RawRecord)
  BY ZoneDataAssumption
<1>9. DOMAIN l.records = DOMAIN raw.records
      /\ \A t \in DOMAIN raw.records : l.records[t] \in NewRecords(raw.records[t])
  BY DEF Listed
<1>10. \A t \in DOMAIN raw.records : l.weight[t] = Total(l.records[t])
  BY <1>2, <1>5, <1>9
<1>. QED
  BY <1>2, <1>4, <1>5, <1>7, <1>8, <1>9, <1>10

(* A slot is found empty exactly if the file has an empty text there.      *)
LEMMA SlotsOfEmpty ==
    ASSUME GivenInv(file, geo), NEW raw \in RawLabels, NEW l, Listed(l, raw, file)
    PROVE  HasNil(l) <=> \E t \in DOMAIN raw.records : \E i \in DOMAIN raw.records[t] :
                            raw.records[t][i].kind = "empty"
<1>1. /\ DOMAIN l.records = DOMAIN raw.records
      /\ \A t \in DOMAIN raw.records : /\ raw.records[t] \in Seq(RawRecord)
                                       /\ l.records[t] \in NewRecords(raw.records[t])
  BY ListedFields
<1>2. ASSUME NEW r \in RawRecord PROVE NewRecord(r) = Nil <=> r.kind = "empty"
  <2>1. CASE r.kind = "empty"
    BY <2>1 DEF NewRecord
  <2>2. CASE r.kind # "empty"
    <3>1. NewRecord(r).test = r.test
      BY <2>2 DEF NewRecord
    <3>2. r.test \in {None, "own"} /\ Nil.test = "nil" /\ None # "nil"
      BY ZoneDataAssumption DEF RawRecord, Nil
    <3>3. r.test # "nil"
      BY <3>2, SMTT(60)
    <3>. QED
      BY <2>2, <3>1, <3>2, <3>3
  <2>. QED
    BY <2>1, <2>2
<1>3. ASSUME NEW t \in DOMAIN raw.records
      PROVE  (\E i \in DOMAIN l.records[t] : l.records[t][i] = Nil)
                 <=> \E i \in DOMAIN raw.records[t] : raw.records[t][i].kind = "empty"
  <2>1. /\ \A i \in DOMAIN l.records[t] : \E j \in DOMAIN raw.records[t] :
              l.records[t][i] = NewRecord(raw.records[t][j])
        /\ \A j \in DOMAIN raw.records[t] : \E i \in DOMAIN l.records[t] :
              l.records[t][i] = NewRecord(raw.records[t][j])
    BY <1>1, NewRecordsFacts
  <2>2. \A j \in DOMAIN raw.records[t] : raw.records[t][j] \in RawRecord
    BY <1>1, SeqElement
  <2>. QED
    BY <1>2, <2>1, <2>2, SMTT(60)
<1>. QED
  BY <1>1, <1>3 DEF HasNil

(* The second loop finishes a label of the file that has no empty slot.    *)
LEMMA VisitedWhole ==
    ASSUME GivenInv(file, geo), NEW raw \in RawLabels, NEW l, Listed(l, raw, file), ~ HasNil(l)
    PROVE  Whole(SetDefaults(l), raw, file)
<1>. DEFINE d == SetDefaults(l)
<1>1. /\ l = [ttl |-> l.ttl, hosts |-> l.hosts, closest |-> l.closest,
              health |-> l.health, records |-> l.records, weight |-> l.weight]
      /\ l.ttl = raw.ttl /\ l.ttl \in Int
      /\ l.hosts = Given(raw.hosts, file.options.hosts)
      /\ l.closest = Given(raw.closest, file.options.closest) /\ l.closest \in BOOLEAN
      /\ DOMAIN l.records = DOMAIN raw.records /\ DOMAIN raw.records \subseteq Types
      /\ \A t \in DOMAIN raw.records :
            /\ raw.records[t] \in Seq(RawRecord)
            /\ l.records[t] \in NewRecords(raw.records[t])
            /\ l.weight[t] = Total(l.records[t])
  BY ListedFields
<1>2. d = [ttl |-> l.ttl, hosts |-> l.hosts, closest |-> l.closest, health |-> l.health,
           records |-> [t \in DOMAIN l.records |->
                          Visited(l.records[t], SetWeight(l, t), TtlOf(l, t))],
           weight |-> [t \in Types |-> IF t \in DOMAIN l.records /\ SetWeight(l, t)
                                       THEN Len(l.records[t]) ELSE l.weight[t]]]
  BY <1>1, VisitedFields
<1>. HIDE DEF d
<1>3. /\ d = [ttl |-> d.ttl, hosts |-> d.hosts, closest |-> d.closest, health |-> d.health,
              records |-> d.records, weight |-> d.weight]
      /\ d.hosts = l.hosts /\ d.closest = l.closest
      /\ DOMAIN d.records = DOMAIN l.records
      /\ \A t \in DOMAIN l.records :
            d.records[t] = Visited(l.records[t], SetWeight(l, t), TtlOf(l, t))
      /\ \A t \in Types : d.weight[t] = IF t \in DOMAIN l.records /\ SetWeight(l, t)
                                        THEN Len(l.records[t]) ELSE l.weight[t]
  BY <1>2
<1>4. \A t \in DOMAIN raw.records : \A i \in DOMAIN raw.records[t] :
         raw.records[t][i] \in RawRecord /\ raw.records[t][i].kind = "good"
  <2>. TAKE t \in DOMAIN raw.records
  <2>. TAKE i \in DOMAIN raw.records[t]
  <2>1. raw.records[t][i] \in RawRecord
    BY <1>1, SeqElement
  <2>2. raw.records[t][i].kind # "empty"
    BY SlotsOfEmpty
  <2>3. raw.records[t][i].kind # "bad"
    BY DEF Listed, Malformed
  <2>. QED
    BY <2>1, <2>2, <2>3 DEF RawRecord
<1>5. ASSUME NEW t \in DOMAIN raw.records
      PROVE  /\ d.records[t] \in Seq(Record)
             /\ \A i \in DOMAIN d.records[t] : d.records[t][i].test # "nil"
             /\ Weighed(d, raw, file, t)
  <2>. DEFINE q == l.records[t]
              s == raw.records[t]
              one == SetWeight(l, t)
              ttl == TtlOf(l, t)
              e == d.records[t]
  <2>1. /\ s \in Seq(RawRecord) /\ q \in NewRecords(s)
        /\ \A i \in DOMAIN s : s[i] \in RawRecord /\ s[i].kind = "good"
        /\ l.weight[t] = Total(q) /\ t \in Types
    BY <1>1, <1>4
  <2>2. one \in BOOLEAN /\ (one <=> t \in AlwaysWeighted /\ l.weight[t] = 0)
    BY DEF SetWeight
  <2>3. ttl = IF raw.ttl > 0 THEN raw.ttl ELSE IF t = "NS" THEN NsTtl ELSE file.options.ttl
    BY <1>1 DEF TtlOf
  <2>4. ttl \in Int
    <3>1. raw.ttl \in Int /\ file.options.ttl \in Int
      BY <1>1, ZoneDataAssumption DEF GivenInv
    <3>2. NsTtl \in Int
      BY ONLY SMTT(60) DEF NsTtl
    <3>. QED
      BY <2>3, <3>1, <3>2
  <2>5. /\ e = Visited(q, one, ttl)
        /\ d.weight[t] = IF one THEN Len(q) ELSE l.weight[t]
    BY <1>1, <1>3, <2>1
  <2>. HIDE DEF q, s, one, ttl, e
  <2>6. /\ q \in Seq(Record) /\ DOMAIN q = DOMAIN s /\ Len(q) = Len(s)
        /\ Total(q) = Total(ListOf(s))
        /\ Total(q) > 0 => Descending(q)
        /\ \A w : Count(q, w) = Count(ListOf(s), w)
        /\ \A i \in DOMAIN q : \E j \in DOMAIN s : q[i] = NewRecord(s[j])
    BY <2>1, NewRecordsFacts
  <2>7. Total(q) = Total(s) /\ \A w : Count(q, w) = Count(s, w)
    BY <2>1, <2>6, GoodList
  <2>8. /\ e \in Seq(Record) /\ DOMAIN e = DOMAIN q /\ Len(e) = Len(q)
        /\ \A i \in DOMAIN q : /\ e[i].weight = IF one THEN 1 ELSE q[i].weight
                               /\ e[i].ttl = ttl /\ e[i].test = q[i].test
    BY <2>2, <2>4, <2>5, <2>6, VisitedList, SMTT(60)
  <2>9. \A i \in DOMAIN e : e[i].test # "nil"
    <3>. TAKE i \in DOMAIN e
    <3>1. PICK j \in DOMAIN s : q[i] = NewRecord(s[j])
      BY <2>6, <2>8
    <3>2. s[j] \in RawRecord /\ s[j].kind = "good"
      BY <2>1
    <3>3. q[i].test = s[j].test
      BY <3>1, <3>2, SMTT(60) DEF NewRecord
    <3>4. s[j].test \in {None, "own"} /\ None # "nil"
      BY <3>2, ZoneDataAssumption DEF RawRecord
    <3>5. s[j].test # "nil"
      BY <3>4, SMTT(60)
    <3>. QED
      BY <2>8, <3>3, <3>5
  <2>10. /\ SameRecords(e, s, t)
         /\ d.weight[t] = Total(e)
         /\ t \in AlwaysWeighted /\ e # <<>> => d.weight[t] # 0
         /\ d.weight[t] > 0 => Descending(e)
    <3>1. CASE one
      <4>1. \A i \in DOMAIN e : e[i].weight = 1
        BY <2>8, <3>1
      <4>2. Total(e) = Len(e) /\ d.weight[t] = Len(e)
        BY <2>5, <2>8, <3>1, <4>1, TotalFacts
      <4>3. t \in AlwaysWeighted /\ Total(s) = 0
        BY <2>1, <2>2, <2>7, <3>1
      <4>4. Count(e, 1) = Len(e)
        <5>1. {i \in DOMAIN e : e[i].weight = 1} = DOMAIN e
          BY <4>1
        <5>. QED
          BY <2>8, <5>1, SeqDomain DEF Count
      <4>5. SameRecords(e, s, t)
        BY <2>6, <2>8, <4>1, <4>3, <4>4 DEF SameRecords
      <4>6. e # <<>> => Len(e) # 0
        BY <2>8, SMTT(60)
      <4>7. Descending(e)
        <5>1. 1 >= 1
          BY SMTT(60)
        <5>. QED
          BY <4>1, <5>1 DEF Descending
      <4>. QED
        BY <4>2, <4>5, <4>6, <4>7
    <3>2. CASE ~ one
      <4>1. \A i \in DOMAIN e : e[i].weight = q[i].weight
        BY <2>8, <3>2
      <4>2. [i \in DOMAIN e |-> e[i].weight] = [i \in DOMAIN q |-> q[i].weight]
        BY <2>8, <4>1
      <4>3. Total(e) = Total(q) /\ d.weight[t] = Total(q)
        BY <2>1, <2>5, <2>8, <3>2, <4>2 DEF Total
      <4>4. \A w : Count(e, w) = Count(s, w)
        <5>. TAKE w
        <5>1. {i \in DOMAIN e : e[i].weight = w} = {i \in DOMAIN q : q[i].weight = w}
          BY <2>8, <4>1
        <5>2. Count(e, w) = Count(q, w)
          BY <5>1 DEF Count
        <5>. QED
          BY <2>7, <5>2
      <4>5. ~ (t \in AlwaysWeighted /\ Total(s) = 0)
        BY <2>1, <2>2, <2>7, <3>2
      <4>6. SameRecords(e, s, t)
        BY <2>6, <2>8, <4>4, <4>5 DEF SameRecords
      <4>7. Descending(q) => Descending(e)
        BY <2>8, <4>1 DEF Descending
      <4>. QED
        BY <2>6, <2>7, <4>3, <4>5, <4>6, <4>7
    <3>. QED
      BY <3>1, <3>2
  <2>11. \A i \in DOMAIN e :
            e[i].ttl = IF raw.ttl > 0 THEN raw.ttl
                       ELSE IF t = "NS" THEN NsTtl ELSE file.options.ttl
    BY <2>3, <2>8
  <2>. QED
    BY <2>8, <2>9, <2>10, <2>11 DEF Weighed, e, s
<1>6. DOMAIN d.records = DOMAIN raw.records /\ "SOA" \notin DOMAIN raw.records
  <2>1. "SOA" \notin Types
    BY DEF Types
  <2>. QED
    BY <1>1, <1>3, <2>1
<1>7. IsLabel(d) /\ NoSlots(d)
  BY <1>1, <1>3, <1>5, <1>6 DEF IsLabel, NoSlots
<1>8. DOMAIN d.records \ {"SOA"} = DOMAIN raw.records
  BY <1>6
<1>9. Whole(d, raw, file)
  BY <1>1, <1>3, <1>5, <1>7, <1>8 DEF Whole
<1>. QED
  BY <1>9 DEF d

(* What comes after leaves the weights and times of a label alone.         *)
LEMMA StaysWhole ==
    ASSUME NEW raw, NEW l, NEW d, Whole(l, raw, file), IsLabel(d), NoSlots(d),
           d.hosts = l.hosts, d.closest = l.closest, d.weight = l.weight,
           DOMAIN d.records \ {"SOA"} = DOMAIN l.records \ {"SOA"},
           \A t \in DOMAIN l.records \ {"SOA"} :
              /\ DOMAIN d.records[t] = DOMAIN l.records[t]
              /\ \A i \in DOMAIN l.records[t] :
                    /\ d.records[t][i].weight = l.records[t][i].weight
                    /\ d.records[t][i].ttl = l.records[t][i].ttl
    PROVE  Whole(d, raw, file)
<1>1. ASSUME NEW t \in DOMAIN raw.records PROVE Weighed(d, raw, file, t)
  <2>. DEFINE q == l.records[t]
              s == raw.records[t]
              e == d.records[t]
  <2>1. /\ t \in DOMAIN l.records /\ t \in DOMAIN d.records /\ Weighed(l, raw, file, t)
        /\ t \in DOMAIN l.records \ {"SOA"}
    BY DEF Whole
  <2>2. /\ q \in Seq(Record) /\ e \in Seq(Record)
        /\ DOMAIN e = DOMAIN q
        /\ \A i \in DOMAIN q : e[i].weight = q[i].weight /\ e[i].ttl = q[i].ttl
    BY <2>1 DEF Whole, IsLabel
  <2>3. /\ SameRecords(q, s, t) /\ l.weight[t] = Total(q)
        /\ \A i \in DOMAIN q : q[i].ttl = IF raw.ttl > 0 THEN raw.ttl
                                          ELSE IF t = "NS" THEN NsTtl ELSE file.options.ttl
        /\ t \in AlwaysWeighted /\ q # <<>> => l.weight[t] # 0
        /\ l.weight[t] > 0 => Descending(q)
    BY <2>1 DEF Weighed
  <2>. HIDE DEF q, s, e
  <2>4. Len(e) = Len(q) /\ (e # <<>> => q # <<>>)
    BY <2>2, SMTT(60)
  <2>5. [i \in DOMAIN e |-> e[i].weight] = [i \in DOMAIN q |-> q[i].weight]
    BY <2>2
  <2>6. Total(e) = Total(q)
    BY <2>2, <2>5 DEF Total
  <2>7. \A w : Count(e, w) = Count(q, w)
    <3>. TAKE w
    <3>1. {i \in DOMAIN e : e[i].weight = w} = {i \in DOMAIN q : q[i].weight = w}
      BY <2>2
    <3>. QED
      BY <3>1 DEF Count
  <2>8. SameRecords(e, s, t)
    <3>1. {e[i].weight : i \in DOMAIN e} = {q[i].weight : i \in DOMAIN q}
      BY <2>2
    <3>. QED
      BY <2>3, <2>4, <2>7, <3>1 DEF SameRecords
  <2>9. Descending(q) => Descending(e)
    BY <2>2 DEF Descending
  <2>10. \A i \in DOMAIN e : e[i].ttl = IF raw.ttl > 0 THEN raw.ttl
                                        ELSE IF t = "NS" THEN NsTtl ELSE file.options.ttl
    BY <2>2, <2>3
  <2>. QED
    BY <2>3, <2>4, <2>6, <2>8, <2>9, <2>10 DEF Weighed, e, s
<1>. QED
  BY <1>1 DEF Whole

-----------------------------------------------------------------------------
(* The names above a name, and those above them.                           *)
LEMMA ParentsAbove ==
    ASSUME NEW name \in Seq(STRING), NEW m \in Parents(name)
    PROVE  m \in Seq(STRING) /\ m # <<>> /\ Parents(m) \subseteq Parents(name)
<1>1. PICK i \in 2..Len(name) : m = SubSeq(name, i, Len(name))
  BY DEF Parents
<1>2. Len(name) \in Nat /\ i \in 1..Len(name) /\ Len(name) \in 1..Len(name)
  BY <1>1, SMTT(60)
<1>3. m \in Seq(STRING) /\ Len(m) = Len(name) - i + 1 /\ m # <<>>
  <2>1. /\ i \in Int /\ Len(name) \in Int /\ i <= Len(name)
        /\ \A a \in i..Len(name) : a \in DOMAIN name
    BY <1>1, <1>2, SMTT(60)
  <2>2. \A a \in i..Len(name) : name[a] \in STRING
    BY <2>1, SeqElement
  <2>3. m \in Seq(STRING) /\ Len(m) = Len(name) - i + 1
    BY <1>1, <2>1, <2>2, SMTT(60)
  <2>4. Len(m) # 0
    BY <2>1, <2>3, SMTT(60)
  <2>5. Len(<<>>) = 0
    BY ONLY SMTT(60)
  <2>. QED
    BY <2>3, <2>4, <2>5
<1>4. ASSUME NEW j \in 2..Len(m) PROVE SubSeq(m, j, Len(m)) \in Parents(name)
  <2>1. j \in 1..(Len(name) - i + 1) /\ Len(m) \in 1..(Len(name) - i + 1)
    BY <1>2, <1>3, SMTT(60)
  <2>2. SubSeq(m, j, Len(m)) = SubSeq(name, i + j - 1, i + Len(m) - 1)
    BY <1>1, <1>2, <2>1, SMTT(60)
  <2>3. i + Len(m) - 1 = Len(name) /\ i + j - 1 \in 2..Len(name)
    BY <1>2, <1>3, SMTT(60)
  <2>. QED
    BY <2>2, <2>3 DEF Parents
<1>. QED
  BY <1>3, <1>4 DEF Parents

(* The names of a file and of its zone are sequences; the root is above no *)
(* other name.                                                             *)
LEMMA NamesOfFile ==
    ASSUME NEW f, NEW g, GivenInv(f, g)
    PROVE  /\ \A n \in Base(f) : n \in Seq(STRING) /\ Parents(n) \subseteq Above(f)
           /\ \A n \in Above(f) : n \in Seq(STRING) /\ Parents(n) \subseteq Above(f) /\ n # <<>>
<1>1. \A n \in Base(f) : n \in Seq(STRING)
  BY ZoneDataAssumption, SMTT(60) DEF Base, GivenInv, ToLower
<1>2. \A n \in Base(f) : Parents(n) \subseteq Above(f)
  BY DEF Above
<1>3. ASSUME NEW n \in Above(f)
      PROVE  n \in Seq(STRING) /\ Parents(n) \subseteq Above(f) /\ n # <<>>
  <2>1. PICK b \in Base(f) : n \in Parents(b)
    BY DEF Above
  <2>2. n \in Seq(STRING) /\ n # <<>> /\ Parents(n) \subseteq Parents(b)
    BY <1>1, <2>1, ParentsAbove
  <2>. QED
    BY <1>2, <2>1, <2>2
<1>. QED
  BY <1>1, <1>2, <1>3

(* A label that is added has no records.                                   *)
LEMMA AddedIsBare ==
    ASSUME GivenInv(file, geo)
    PROVE  Bare(AddLabel, file) /\ DOMAIN AddLabel.records = {}
<1>1. file.options.closest \in BOOLEAN
  BY ZoneDataAssumption DEF GivenInv
<1>2. /\ DOMAIN AddLabel.records = {} /\ AddLabel.hosts = file.options.hosts
      /\ AddLabel.closest = file.options.closest
  BY DEF AddLabel
<1>3. AddLabel = [ttl |-> AddLabel.ttl, hosts |-> AddLabel.hosts, closest |-> AddLabel.closest,
                  health |-> AddLabel.health, records |-> AddLabel.records,
                  weight |-> AddLabel.weight]
  BY DEF AddLabel
<1>. QED
  BY <1>1, <1>2, <1>3 DEF Bare, IsLabel, NoSlots

(* New lists with the weights and times of the old ones leave a label      *)
(* finished; they may come with an SOA record.                             *)
LEMMA StaysFinished ==
    ASSUME NEW l, IsLabel(l), NEW R, NEW d, d = [l EXCEPT !.records = R],
           \A t \in DOMAIN R : R[t] \in Seq(Record) /\ \A i \in DOMAIN R[t] : R[t][i].test # "nil",
           DOMAIN R \ {"SOA"} = DOMAIN l.records \ {"SOA"},
           \A t \in DOMAIN l.records \ {"SOA"} :
              /\ DOMAIN R[t] = DOMAIN l.records[t]
              /\ \A i \in DOMAIN l.records[t] : /\ R[t][i].weight = l.records[t][i].weight
                                                /\ R[t][i].ttl = l.records[t][i].ttl
    PROVE  /\ d.records = R /\ d.closest = l.closest /\ d.health = l.health
           /\ \A n : Finished(n, l, file) => Finished(n, d, file)
<1>1. l = [ttl |-> l.ttl, hosts |-> l.hosts, closest |-> l.closest, health |-> l.health,
           records |-> l.records, weight |-> l.weight]
  BY DEF IsLabel
<1>2. d \in [ttl : {l.ttl}, hosts : {l.hosts}, closest : {l.closest}, health : {l.health},
             records : {R}, weight : {l.weight}]
  <2>1. l \in [ttl : {l.ttl}, hosts : {l.hosts}, closest : {l.closest}, health : {l.health},
               records : {l.records}, weight : {l.weight}]
    BY ONLY <1>1, SMTT(60)
  <2>. QED
    BY ONLY <2>1, d = [l EXCEPT !.records = R], SMTT(60)
<1>3. /\ d.ttl = l.ttl /\ d.hosts = l.hosts /\ d.closest = l.closest /\ d.health = l.health
      /\ d.records = R /\ d.weight = l.weight
      /\ d = [ttl |-> d.ttl, hosts |-> d.hosts, closest |-> d.closest, health |-> d.health,
              records |-> d.records, weight |-> d.weight]
  BY ONLY <1>2, SMTT(60)
<1>4. IsLabel(d) /\ NoSlots(d)
  BY <1>3, SMTT(60) DEF IsLabel, NoSlots
<1>5. /\ DOMAIN d.records \ {"SOA"} = DOMAIN l.records \ {"SOA"}
      /\ \A t \in DOMAIN l.records \ {"SOA"} :
            /\ DOMAIN d.records[t] = DOMAIN l.records[t]
            /\ \A i \in DOMAIN l.records[t] :
                  /\ d.records[t][i].weight = l.records[t][i].weight
                  /\ d.records[t][i].ttl = l.records[t][i].ttl
  BY <1>3, SMTT(60)
<1>6. ASSUME NEW n, Finished(n, l, file) PROVE Finished(n, d, file)
  <2>1. CASE n \in Base(file)
    <3>1. PICK k \in KeysOf(file, n) : Whole(l, file.data[k], file)
      BY <1>6, <2>1 DEF Finished
    <3>2. Whole(d, file.data[k], file)
      BY ONLY <1>3, <1>4, <1>5, <3>1, StaysWhole, SMTT(60)
    <3>. QED
      BY <2>1, <3>2 DEF Finished
  <2>2. CASE n \notin Base(file)
    <3>1. Bare(l, file)
      BY <1>6, <2>2 DEF Finished
    <3>2. DOMAIN d.records \subseteq {"SOA"}
      BY <1>3, <3>1 DEF Bare
    <3>3. Bare(d, file)
      BY <1>3, <1>4, <3>1, <3>2 DEF Bare
    <3>. QED
      BY <2>2, <3>3 DEF Finished
  <2>. QED
    BY <2>1, <2>2
<1>. QED
  BY <1>3, <1>6

(* A finished label is a label, without empty slots.                       *)
LEMMA FinishedIsLabel ==
    ASSUME NEW n, NEW l, Finished(n, l, file)
    PROVE  IsLabel(l) /\ NoSlots(l)
BY DEF Finished, Whole, Bare

(* The first step: the options.                                            *)
LEMMA ReadOptionsStep ==
    ASSUME ZoneDataInv, ReadOptions
    PROVE  ZoneDataInv'
<1>1. pc = "options" /\ file' = file /\ geo' = geo /\ GivenInv(file, geo) /\ Labels = <<>>
  BY DEF ReadOptions, ZoneDataInv
<1>2. CASE ~ file.options.valid
  <2>1. pc' = "rejected"
    BY <1>2 DEF ReadOptions, Reject
  <2>2. RejectedInv(file, geo)
    BY <1>2 DEF RejectedInv
  <2>. QED
    BY <1>1, <2>1, <2>2 DEF ZoneDataInv
<1>3. CASE file.options.valid
  <2>1. /\ pc' = "data" /\ HasClosest' = file.options.closest
        /\ todo' = DOMAIN file.data /\ Labels' = <<>>
    BY <1>1, <1>3 DEF ReadOptions
  <2>2. DOMAIN Labels' = {}
    BY <2>1, SMTT(60)
  <2>3. DataInv(Labels', todo', file)
    BY <2>1, <2>2 DEF DataInv
  <2>4. ReadInv(DOMAIN file.data \ todo', HasClosest', file)
    BY <2>1 DEF ReadInv
  <2>. QED
    BY <1>1, <2>1, <2>3, <2>4 DEF ZoneDataInv
<1>. QED
  BY <1>2, <1>3

(* A malformed label is an invalid one.                                    *)
LEMMA MalformedIsInvalid ==
    ASSUME NEW raw, NEW name, Malformed(raw)
    PROVE  Invalid(raw, name)
<1>1. PICK t \in DOMAIN raw.records : \E i \in DOMAIN raw.records[t] :
         raw.records[t][i].kind = "bad" \/ raw.records[t][i].kind = "empty"
  BY DEF Malformed
<1>. QED
  BY <1>1 DEF Invalid

(* A round of the first loop.                                              *)
LEMMA ReadLabelStep ==
    ASSUME ZoneDataInv, NEW k \in Keys, ReadLabel(k)
    PROVE  ZoneDataInv'
<1>. DEFINE raw == file.data[k]
            D == DOMAIN file.data
<1>1. /\ pc = "data" /\ k \in todo /\ file' = file /\ geo' = geo /\ GivenInv(file, geo)
      /\ DataInv(Labels, todo, file) /\ ReadInv(D \ todo, HasClosest, file)
  BY DEF ReadLabel, ZoneDataInv
<1>2. k \in D /\ todo \subseteq D
  BY <1>1 DEF DataInv
<1>3. CASE Malformed(raw)
  <2>1. pc' = "rejected"
    BY <1>3 DEF ReadLabel, Reject
  <2>2. Invalid(raw, ToLower(k))
    BY <1>3, MalformedIsInvalid
  <2>3. RejectedInv(file, geo)
    BY <1>2, <2>2 DEF RejectedInv
  <2>. QED
    BY <1>1, <2>1, <2>3 DEF ZoneDataInv
<1>4. CASE ~ Malformed(raw)
  <2>1. PICK records \in [DOMAIN raw.records ->
                            UNION {NewRecords(raw.records[t]) : t \in DOMAIN raw.records}] :
           /\ \A t \in DOMAIN raw.records : records[t] \in NewRecords(raw.records[t])
           /\ Labels' = With(Labels, ToLower(k), NewLabel(raw, records))
    BY <1>4 DEF ReadLabel
  <2>2. HasClosest' = ClosestSoFar(raw) /\ todo' = todo \ {k} /\ pc' = "data"
    BY <1>1, <1>4 DEF ReadLabel
  <2>. DEFINE l == NewLabel(raw, records)
  <2>3. Listed(l, raw, file)
    <3>1. DOMAIN records = DOMAIN raw.records
      BY <2>1
    <3>2. /\ l = [ttl |-> raw.ttl,
                  hosts |-> Given(raw.hosts, file.options.hosts),
                  closest |-> Given(raw.closest, file.options.closest),
                  health |-> raw.health,
                  records |-> records,
                  weight |-> [t \in Types |-> IF t \in DOMAIN records THEN Total(records[t]) ELSE 0]]
          /\ l.records = records
      BY DEF NewLabel, AddLabel
    <3>. QED
      BY <1>4, <2>1, <3>1, <3>2 DEF Listed
  <2>. HIDE DEF l
  <2>4. /\ DOMAIN Labels' = DOMAIN Labels \cup {ToLower(k)}
        /\ \A n \in DOMAIN Labels' : Labels'[n] = IF n = ToLower(k) THEN l ELSE Labels[n]
    BY <2>1 DEF With, l
  <2>5. D \ todo' = (D \ todo) \cup {k}
    BY <1>2, <2>2
  <2>6. DataInv(Labels', todo', file)
    <3>1. todo' \subseteq D
      BY <1>2, <2>2
    <3>2. DOMAIN Labels' = {ToLower(j) : j \in D \ todo'}
      BY <1>1, <2>4, <2>5 DEF DataInv
    <3>3. \A n \in DOMAIN Labels' : ReadFrom(n, Labels'[n], file)
      BY <1>1, <1>2, <2>3, <2>4 DEF DataInv, ReadFrom, KeysOf
    <3>. QED
      BY <3>1, <3>2, <3>3 DEF DataInv
  <2>7. ReadInv(D \ todo', HasClosest', file)
    BY <1>1, <1>4, <2>2, <2>5 DEF ReadInv, ClosestSoFar
  <2>. QED
    BY <1>1, <2>2, <2>6, <2>7 DEF ZoneDataInv
<1>. QED
  BY <1>3, <1>4

(* The end of the first loop.                                              *)
LEMMA LabelsReadStep ==
    ASSUME ZoneDataInv, LabelsRead
    PROVE  ZoneDataInv'
<1>1. /\ pc = "data" /\ todo = {} /\ todo' = DOMAIN Labels /\ pc' = "pass"
      /\ file' = file /\ geo' = geo /\ Labels' = Labels /\ HasClosest' = HasClosest
      /\ GivenInv(file, geo) /\ DataInv(Labels, todo, file)
      /\ ReadInv(DOMAIN file.data \ todo, HasClosest, file)
  BY DEF LabelsRead, ZoneDataInv
<1>2. DOMAIN file.data \ todo = DOMAIN file.data
  BY <1>1
<1>3. DOMAIN Labels = Base(file)
  BY <1>1, <1>2 DEF DataInv, Base
<1>4. PassInv(Labels', todo', file)
  BY <1>1, <1>3 DEF PassInv, DataInv
<1>5. ReadInv(DOMAIN file.data, HasClosest', file)
  BY <1>1, <1>2
<1>. QED
  BY <1>1, <1>4, <1>5 DEF ZoneDataInv

(* A round of the second loop.                                             *)
LEMMA VisitStep ==
    ASSUME ZoneDataInv, NEW name \in DOMAIN Labels, Visit(name)
    PROVE  ZoneDataInv'
<1>. DEFINE l == Labels[name]
<1>1. /\ pc = "pass" /\ name \in todo /\ file' = file /\ geo' = geo /\ GivenInv(file, geo)
      /\ PassInv(Labels, todo, file) /\ ReadInv(DOMAIN file.data, HasClosest, file)
  BY DEF Visit, ZoneDataInv
<1>2. CASE HasNil(l)
  <2>1. pc' = "rejected"
    BY <1>2 DEF Visit, Reject
  <2>2. name \in Base(file)
    <3>. SUFFICES ASSUME name \notin Base(file) PROVE FALSE
      OBVIOUS
    <3>1. NoSlots(l)
      BY <1>1 DEF PassInv, Finished, Bare
    <3>2. Nil.test = "nil"
      BY DEF Nil
    <3>. QED
      BY <1>2, <3>1, <3>2 DEF HasNil, NoSlots
  <2>3. PICK k \in KeysOf(file, name) : Listed(l, file.data[k], file)
    BY <1>1, <2>2 DEF PassInv, ReadFrom
  <2>4. k \in DOMAIN file.data /\ file.data[k] \in RawLabels
    BY <1>1 DEF KeysOf, GivenInv
  <2>5. \E t \in DOMAIN file.data[k].records : \E i \in DOMAIN file.data[k].records[t] :
           file.data[k].records[t][i].kind = "empty"
    <3>. HIDE DEF l
    <3>. QED
      BY <1>1, <1>2, <2>3, <2>4, SlotsOfEmpty
  <2>6. Invalid(file.data[k], ToLower(k))
    BY <2>5 DEF Invalid
  <2>7. RejectedInv(file, geo)
    BY <2>4, <2>6 DEF RejectedInv
  <2>. QED
    BY <1>1, <2>1, <2>7 DEF ZoneDataInv
<1>3. CASE ~ HasNil(l)
  <2>1. PICK seen \in SUBSET Missing(name) :
           /\ todo' = (todo \ {name}) \cup seen
           /\ Labels' = [n \in DOMAIN Labels \cup Missing(name) |->
                           IF n \in Missing(name) THEN AddLabel
                           ELSE IF n = name THEN SetDefaults(Labels[n]) ELSE Labels[n]]
           /\ pc' = pc /\ HasClosest' = HasClosest
    BY <1>3 DEF Visit
  <2>2. /\ DOMAIN Labels' = DOMAIN Labels \cup Missing(name)
        /\ \A n \in Missing(name) : Labels'[n] = AddLabel
        /\ \A n \in DOMAIN Labels : Labels'[n] = IF n = name THEN SetDefaults(l) ELSE Labels[n]
    BY <2>1 DEF Missing
  <2>3. /\ Missing(name) \cap DOMAIN Labels = {} /\ Missing(name) \subseteq Parents(name)
        /\ Parents(name) \subseteq DOMAIN Labels \cup Missing(name)
    BY DEF Missing
  <2>4. /\ todo \subseteq DOMAIN Labels /\ Base(file) \subseteq DOMAIN Labels
        /\ DOMAIN Labels \subseteq Base(file) \cup Above(file)
    BY <1>1 DEF PassInv
  <2>5. Missing(name) \subseteq Above(file)
    BY <1>1, <2>3, <2>4, NamesOfFile
  <2>6. Finished(name, SetDefaults(l), file) /\ "SOA" \notin DOMAIN SetDefaults(l).records
    <3>1. CASE name \in Base(file)
      <4>1. PICK k \in KeysOf(file, name) : Listed(l, file.data[k], file)
        BY <1>1, <3>1 DEF PassInv, ReadFrom
      <4>2. file.data[k] \in RawLabels
        BY <1>1 DEF KeysOf, GivenInv
      <4>. HIDE DEF l
      <4>3. Whole(SetDefaults(l), file.data[k], file)
        BY <1>1, <1>3, <4>1, <4>2, VisitedWhole
      <4>4. /\ l = [ttl |-> l.ttl, hosts |-> l.hosts, closest |-> l.closest,
                    health |-> l.health, records |-> l.records, weight |-> l.weight]
            /\ DOMAIN l.records \subseteq Types
        BY <1>1, <4>1, <4>2, ListedFields
      <4>5. DOMAIN SetDefaults(l).records = DOMAIN l.records
        BY ONLY <4>4, VisitedFields, SMTT(60)
      <4>6. "SOA" \notin Types
        BY DEF Types
      <4>. QED
        BY <3>1, <4>3, <4>4, <4>5, <4>6 DEF Finished
    <3>2. CASE name \notin Base(file)
      <4>1. Bare(l, file) /\ "SOA" \notin DOMAIN l.records
        BY <1>1, <3>2 DEF PassInv, Finished
      <4>. HIDE DEF l
      <4>. DEFINE d == SetDefaults(l)
      <4>2. DOMAIN l.records = {} /\ IsLabel(l)
        BY <4>1 DEF Bare
      <4>3. d = [ttl |-> l.ttl, hosts |-> l.hosts, closest |-> l.closest, health |-> l.health,
                 records |-> [t \in DOMAIN l.records |->
                                Visited(l.records[t], SetWeight(l, t), TtlOf(l, t))],
                 weight |-> [t \in Types |-> IF t \in DOMAIN l.records /\ SetWeight(l, t)
                                             THEN Len(l.records[t]) ELSE l.weight[t]]]
        BY <4>2, VisitedFields DEF IsLabel
      <4>. HIDE DEF d
      <4>4. /\ DOMAIN d.records = {} /\ d.hosts = l.hosts /\ d.closest = l.closest
            /\ d = [ttl |-> d.ttl, hosts |-> d.hosts, closest |-> d.closest, health |-> d.health,
                    records |-> d.records, weight |-> d.weight]
        BY <4>2, <4>3
      <4>5. Bare(d, file)
        BY <4>1, <4>2, <4>4 DEF Bare, IsLabel, NoSlots
      <4>. QED
        BY <3>2, <4>4, <4>5 DEF Finished, d
    <3>. QED
      BY <3>1, <3>2
  <2>7. \A n \in Missing(name) :
           Finished(n, AddLabel, file) /\ "SOA" \notin DOMAIN AddLabel.records
    BY <1>1, <2>3, <2>4, AddedIsBare DEF Finished
  <2>8. PassInv(Labels', todo', file)
    <3>1. todo' \subseteq DOMAIN Labels'
      BY <2>1, <2>2, <2>4
    <3>2. Base(file) \subseteq DOMAIN Labels' /\ DOMAIN Labels' \subseteq Base(file) \cup Above(file)
      BY <2>2, <2>4, <2>5
    <3>3. \A n \in Base(file) \ todo' : Parents(n) \subseteq DOMAIN Labels'
      BY <1>1, <2>1, <2>2, <2>3 DEF PassInv
    <3>4. ASSUME NEW n \in DOMAIN Labels'
          PROVE  IF n \in Base(file) /\ n \in todo'
                 THEN ReadFrom(n, Labels'[n], file)
                 ELSE Finished(n, Labels'[n], file) /\ "SOA" \notin DOMAIN Labels'[n].records
      <4>1. CASE n \in Missing(name)
        <5>1. n \notin Base(file) /\ Labels'[n] = AddLabel
          BY <2>2, <2>3, <2>4, <4>1
        <5>. QED
          BY <2>7, <4>1, <5>1
      <4>2. CASE n = name
        <5>1. n \notin todo' /\ Labels'[n] = SetDefaults(l)
          BY <2>1, <2>2, <2>3, <4>2
        <5>. QED
          BY <2>6, <4>2, <5>1
      <4>3. CASE n \notin Missing(name) /\ n # name
        <5>1. n \in DOMAIN Labels /\ Labels'[n] = Labels[n] /\ (n \in todo' <=> n \in todo)
          BY <2>1, <2>2, <4>3
        <5>. QED
          BY <1>1, <5>1 DEF PassInv
      <4>. QED
        BY <4>1, <4>2, <4>3
    <3>. QED
      BY <3>1, <3>2, <3>3, <3>4 DEF PassInv
  <2>. QED
    BY <1>1, <2>1, <2>8 DEF ZoneDataInv
<1>. QED
  BY <1>2, <1>3

(* The SOA record is a record, not an empty slot.                          *)
LEMMA SOAFacts ==
    ASSUME GivenInv(file, geo)
    PROVE  <<SOA>> \in Seq(Record) /\ \A i \in DOMAIN <<SOA>> : <<SOA>>[i].test # "nil"
<1>1. file.options.ttl \in Int
  BY ZoneDataAssumption, SMTT(60) DEF GivenInv
<1>2. SoaTtl \in Int
  BY ONLY <1>1, SMTT(60) DEF SoaTtl
<1>3. 0 \in Int
  BY ONLY SMTT(60)
<1>4. SOA \in Record /\ SOA.test # "nil"
  BY <1>2, <1>3, ZoneDataAssumption DEF SOA, Record
<1>. QED
  BY ONLY <1>4, SMTT(60)

(* The end of the second loop.                                             *)
LEMMA addSOAStep ==
    ASSUME ZoneDataInv, addSOA
    PROVE  ZoneDataInv'
<1>1. /\ pc = "pass" /\ todo = {} /\ file' = file /\ geo' = geo /\ GivenInv(file, geo)
      /\ PassInv(Labels, todo, file) /\ ReadInv(DOMAIN file.data, HasClosest, file)
  BY DEF addSOA, ZoneDataInv
<1>2. /\ DOMAIN Labels = Base(file) \cup Above(file)
      /\ \A n \in DOMAIN Labels : Finished(n, Labels[n], file)
                                  /\ "SOA" \notin DOMAIN Labels[n].records
  BY <1>1 DEF PassInv, Above
<1>3. CASE /\ <<>> \in DOMAIN Labels /\ "NS" \in DOMAIN Labels[<<>>].records
           /\ Labels[<<>>].records["NS"] = <<>>
  <2>1. pc' = "rejected"
    BY <1>3 DEF addSOA, Reject
  <2>2. <<>> \in Base(file)
    BY <1>1, <1>2, <1>3, NamesOfFile
  <2>3. PICK k \in KeysOf(file, <<>>) : Whole(Labels[<<>>], file.data[k], file)
    BY <1>2, <1>3, <2>2 DEF Finished
  <2>4. "NS" \in DOMAIN file.data[k].records /\ Weighed(Labels[<<>>], file.data[k], file, "NS")
    BY <1>3, <2>3 DEF Whole
  <2>5. k \in DOMAIN file.data /\ ToLower(k) = <<>> /\ file.data[k] \in RawLabels
    BY <1>1 DEF KeysOf, GivenInv
  <2>6. file.data[k].records["NS"] \in Seq(RawRecord)
    BY <2>4, <2>5, ZoneDataAssumption
  <2>7. Len(file.data[k].records["NS"]) = Len(<<>>)
    BY <1>3, <2>4 DEF Weighed, SameRecords
  <2>8. file.data[k].records["NS"] = <<>>
    BY ONLY <2>6, <2>7, SMTT(60)
  <2>9. Invalid(file.data[k], ToLower(k))
    BY <2>4, <2>5, <2>8 DEF Invalid
  <2>10. RejectedInv(file, geo)
    BY <2>5, <2>9 DEF RejectedInv
  <2>. QED
    BY <1>1, <2>1, <2>10 DEF ZoneDataInv
<1>4. CASE ~ (/\ <<>> \in DOMAIN Labels /\ "NS" \in DOMAIN Labels[<<>>].records
              /\ Labels[<<>>].records["NS"] = <<>>)
  <2>. DEFINE root == IF <<>> \in DOMAIN Labels THEN Labels[<<>>] ELSE AddLabel
              R == With(root.records, "SOA", <<SOA>>)
              d == [root EXCEPT !.records = R]
  <2>1. /\ Labels' = With(Labels, <<>>, d)
        /\ pc' = "locations" /\ HasClosest' = HasClosest
    BY <1>4 DEF addSOA
  <2>2. Finished(<<>>, root, file) /\ "SOA" \notin DOMAIN root.records
    <3>1. CASE <<>> \in DOMAIN Labels
      BY <1>2, <3>1
    <3>2. CASE <<>> \notin DOMAIN Labels
      <4>1. <<>> \notin Base(file)
        BY <1>2, <3>2
      <4>2. root = AddLabel
        BY <3>2
      <4>. QED
        BY <1>1, <4>1, <4>2, AddedIsBare DEF Finished
    <3>. QED
      BY <3>1, <3>2
  <2>. HIDE DEF root
  <2>3. IsLabel(root) /\ NoSlots(root)
    BY <2>2, FinishedIsLabel
  <2>4. /\ DOMAIN R = DOMAIN root.records \cup {"SOA"} /\ R["SOA"] = <<SOA>>
        /\ \A t \in DOMAIN root.records : R[t] = root.records[t]
    BY <2>2 DEF With
  <2>. HIDE DEF R
  <2>5. \A t \in DOMAIN R : R[t] \in Seq(Record) /\ \A i \in DOMAIN R[t] : R[t][i].test # "nil"
    <3>. SUFFICES ASSUME NEW t \in DOMAIN R
                  PROVE  R[t] \in Seq(Record) /\ \A i \in DOMAIN R[t] : R[t][i].test # "nil"
      OBVIOUS
    <3>1. CASE t \in DOMAIN root.records
      BY <2>3, <2>4, <3>1 DEF IsLabel, NoSlots
    <3>2. CASE t = "SOA"
      BY <1>1, <2>4, <3>2, SOAFacts
    <3>. QED
      BY <2>4, <3>1, <3>2
  <2>6. Finished(<<>>, d, file)
    <3>1. /\ DOMAIN R \ {"SOA"} = DOMAIN root.records \ {"SOA"}
          /\ \A t \in DOMAIN root.records \ {"SOA"} :
                /\ DOMAIN R[t] = DOMAIN root.records[t]
                /\ \A i \in DOMAIN root.records[t] :
                      /\ R[t][i].weight = root.records[t][i].weight
                      /\ R[t][i].ttl = root.records[t][i].ttl
      BY <2>4
    <3>. QED
      BY ONLY <2>2, <2>3, <2>5, <3>1, StaysFinished, SMTT(60) DEF d
  <2>. HIDE DEF d
  <2>7. /\ DOMAIN Labels' = DOMAIN Labels \cup {<<>>}
        /\ \A n \in DOMAIN Labels' : Labels'[n] = IF n = <<>> THEN d ELSE Labels[n]
    BY <2>1 DEF With
  <2>8. ReadyInv(Labels', file)
    BY <1>2, <2>6, <2>7 DEF ReadyInv
  <2>. QED
    BY <1>1, <2>1, <2>8 DEF ZoneDataInv
<1>. QED
  BY <1>3, <1>4

(* A record that is located.                                               *)
LEMMA LocatedRecord ==
    ASSUME NEW r \in Record, NEW b \in BOOLEAN, NEW s, s = [r EXCEPT !.loc = b]
    PROVE  /\ s \in Record /\ s.weight = r.weight /\ s.ttl = r.ttl /\ s.known = r.known
           /\ s.loc = b /\ s.test = r.test
BY SMTT(60) DEF Record

(* A record that is tested.                                                *)
LEMMA TestedRecord ==
    ASSUME NEW r \in Record, NEW v \in {None, "own", "nil", "address"},
           NEW s, s = [r EXCEPT !.test = v]
    PROVE  /\ s \in Record /\ s.weight = r.weight /\ s.ttl = r.ttl /\ s.known = r.known
           /\ s.loc = r.loc /\ s.test = v
BY SMTT(60) DEF Record

(* The locations leave a label finished.                                   *)
LEMMA LocatedStays ==
    ASSUME NEW l, IsLabel(l), NoSlots(l)
    PROVE  LET d == WithLocations(l) IN
           /\ d.closest = l.closest /\ d.health = l.health
           /\ \A n : Finished(n, l, file) => Finished(n, d, file)
           /\ DOMAIN d.records = DOMAIN l.records
           /\ "A" \in DOMAIN l.records =>
                 /\ DOMAIN d.records["A"] = DOMAIN l.records["A"]
                 /\ \A i \in DOMAIN l.records["A"] :
                       /\ d.records["A"][i].known = l.records["A"][i].known
                       /\ d.records["A"][i].loc <=> Locates(l) /\ l.records["A"][i].known
<1>. DEFINE now(t, i) == t = "A" /\ Locates(l) /\ l.records[t][i].known
            at(t, i) == [l.records[t][i] EXCEPT !.loc = now(t, i)]
            R == [t \in DOMAIN l.records |-> [i \in DOMAIN l.records[t] |-> at(t, i)]]
            d == WithLocations(l)
<1>1. d = [l EXCEPT !.records = R]
  BY DEF WithLocations
<1>2. ASSUME NEW t \in DOMAIN l.records, NEW i \in DOMAIN l.records[t]
      PROVE  /\ at(t, i) \in Record /\ at(t, i).test # "nil"
             /\ at(t, i).weight = l.records[t][i].weight /\ at(t, i).ttl = l.records[t][i].ttl
             /\ at(t, i).known = l.records[t][i].known /\ at(t, i).loc = now(t, i)
  <2>1. l.records[t] \in Seq(Record) /\ l.records[t][i].test # "nil"
    BY <1>2 DEF IsLabel, NoSlots
  <2>2. l.records[t][i] \in Record
    BY <1>2, <2>1, SeqElement
  <2>3. now(t, i) \in BOOLEAN
    OBVIOUS
  <2>4. at(t, i) = [l.records[t][i] EXCEPT !.loc = now(t, i)]
    OBVIOUS
  <2>. HIDE DEF now, at
  <2>. QED
    BY ONLY <2>1, <2>2, <2>3, <2>4, LocatedRecord, SMTT(60)
<1>. HIDE DEF at
<1>3. /\ DOMAIN R = DOMAIN l.records
      /\ \A t \in DOMAIN l.records : /\ DOMAIN R[t] = DOMAIN l.records[t]
                                     /\ \A i \in DOMAIN l.records[t] : R[t][i] = at(t, i)
  OBVIOUS
<1>4. ASSUME NEW t \in DOMAIN l.records PROVE R[t] \in Seq(Record)
  <2>1. l.records[t] \in Seq(Record)
    BY <1>4 DEF IsLabel
  <2>2. R[t] \in [DOMAIN l.records[t] -> Record]
    BY <1>2, <1>4
  <2>. HIDE DEF R
  <2>. QED
    BY <2>1, <2>2, SameDomainSeq
<1>. HIDE DEF R, d
<1>5. /\ \A t \in DOMAIN R : R[t] \in Seq(Record) /\ \A i \in DOMAIN R[t] : R[t][i].test # "nil"
      /\ DOMAIN R \ {"SOA"} = DOMAIN l.records \ {"SOA"}
      /\ \A t \in DOMAIN l.records \ {"SOA"} :
            /\ DOMAIN R[t] = DOMAIN l.records[t]
            /\ \A i \in DOMAIN l.records[t] : /\ R[t][i].weight = l.records[t][i].weight
                                              /\ R[t][i].ttl = l.records[t][i].ttl
  <2>1. \A t \in DOMAIN R : R[t] \in Seq(Record)
    BY <1>3, <1>4
  <2>2. ASSUME NEW t \in DOMAIN R, NEW i \in DOMAIN R[t]
        PROVE  /\ R[t][i].test # "nil" /\ R[t][i].weight = l.records[t][i].weight
               /\ R[t][i].ttl = l.records[t][i].ttl
    <3>1. t \in DOMAIN l.records /\ i \in DOMAIN l.records[t] /\ R[t][i] = at(t, i)
      BY <1>3, <2>2
    <3>. QED
      BY <1>2, <3>1
  <2>. QED
    BY <1>3, <2>1, <2>2
<1>6. /\ d.records = R /\ d.closest = l.closest /\ d.health = l.health
      /\ \A n : Finished(n, l, file) => Finished(n, d, file)
  BY ONLY <1>1, <1>5, IsLabel(l), StaysFinished, SMTT(60)
<1>7. "A" \in DOMAIN l.records =>
         /\ DOMAIN R["A"] = DOMAIN l.records["A"]
         /\ \A i \in DOMAIN l.records["A"] :
               /\ R["A"][i].known = l.records["A"][i].known
               /\ R["A"][i].loc <=> Locates(l) /\ l.records["A"][i].known
  BY <1>2, <1>3
<1>. QED
  BY <1>3, <1>6, <1>7 DEF d

(* The tests leave a label finished and located.                           *)
LEMMA TestedStays ==
    ASSUME NEW l, IsLabel(l), NoSlots(l)
    PROVE  LET d == WithTests(l) IN
           /\ \A n : Finished(n, l, file) => Finished(n, d, file)
           /\ \A g : Located(l, g) => Located(d, g)
           /\ Tested(d)
<1>. DEFINE now(t, i) == TestOf(l, l.records[t][i], t)
            at(t, i) == [l.records[t][i] EXCEPT !.test = now(t, i)]
            R == [t \in DOMAIN l.records |-> [i \in DOMAIN l.records[t] |-> at(t, i)]]
            d == WithTests(l)
<1>1. d = [l EXCEPT !.records = R]
  BY DEF WithTests
<1>2. ASSUME NEW t \in DOMAIN l.records, NEW i \in DOMAIN l.records[t]
      PROVE  /\ at(t, i) \in Record /\ at(t, i).test # "nil"
             /\ at(t, i).weight = l.records[t][i].weight /\ at(t, i).ttl = l.records[t][i].ttl
             /\ at(t, i).known = l.records[t][i].known /\ at(t, i).loc = l.records[t][i].loc
             /\ t = "A" /\ l.health => at(t, i).test # None
  <2>1. l.records[t] \in Seq(Record) /\ l.records[t][i].test # "nil"
    BY <1>2 DEF IsLabel, NoSlots
  <2>2. l.records[t][i] \in Record
    BY <1>2, <2>1, SeqElement
  <2>3. l.records[t][i].test \in {None, "own", "nil", "address"}
    BY <2>2 DEF Record
  <2>4. /\ now(t, i) \in {None, "own", "nil", "address"} /\ now(t, i) # "nil"
        /\ t = "A" /\ l.health => now(t, i) # None
    BY <2>1, <2>3, ZoneDataAssumption DEF TestOf
  <2>5. at(t, i) = [l.records[t][i] EXCEPT !.test = now(t, i)]
    OBVIOUS
  <2>. HIDE DEF now, at
  <2>. QED
    BY ONLY <2>2, <2>4, <2>5, TestedRecord, SMTT(60)
<1>. HIDE DEF at
<1>3. /\ DOMAIN R = DOMAIN l.records
      /\ \A t \in DOMAIN l.records : /\ DOMAIN R[t] = DOMAIN l.records[t]
                                     /\ \A i \in DOMAIN l.records[t] : R[t][i] = at(t, i)
  OBVIOUS
<1>4. ASSUME NEW t \in DOMAIN l.records PROVE R[t] \in Seq(Record)
  <2>1. l.records[t] \in Seq(Record)
    BY <1>4 DEF IsLabel
  <2>2. R[t] \in [DOMAIN l.records[t] -> Record]
    BY <1>2, <1>4
  <2>. HIDE DEF R
  <2>. QED
    BY <2>1, <2>2, SameDomainSeq
<1>. HIDE DEF R, d
<1>5. /\ \A t \in DOMAIN R : R[t] \in Seq(Record) /\ \A i \in DOMAIN R[t] : R[t][i].test # "nil"
      /\ DOMAIN R \ {"SOA"} = DOMAIN l.records \ {"SOA"}
      /\ \A t \in DOMAIN l.records \ {"SOA"} :
            /\ DOMAIN R[t] = DOMAIN l.records[t]
            /\ \A i \in DOMAIN l.records[t] : /\ R[t][i].weight = l.records[t][i].weight
                                              /\ R[t][i].ttl = l.records[t][i].ttl
  <2>1. \A t \in DOMAIN R : R[t] \in Seq(Record)
    BY <1>3, <1>4
  <2>2. ASSUME NEW t \in DOMAIN R, NEW i \in DOMAIN R[t]
        PROVE  /\ R[t][i].test # "nil" /\ R[t][i].weight = l.records[t][i].weight
               /\ R[t][i].ttl = l.records[t][i].ttl
    <3>1. t \in DOMAIN l.records /\ i \in DOMAIN l.records[t] /\ R[t][i] = at(t, i)
      BY <1>3, <2>2
    <3>. QED
      BY <1>2, <3>1
  <2>. QED
    BY <1>3, <2>1, <2>2
<1>6. /\ d.records = R /\ d.closest = l.closest /\ d.health = l.health
      /\ \A n : Finished(n, l, file) => Finished(n, d, file)
  BY ONLY <1>1, <1>5, IsLabel(l), StaysFinished, SMTT(60)
<1>7. ASSUME NEW t \in DOMAIN R, NEW i \in DOMAIN R[t]
      PROVE  /\ t \in DOMAIN l.records /\ i \in DOMAIN l.records[t]
             /\ R[t][i].known = l.records[t][i].known /\ R[t][i].loc = l.records[t][i].loc
             /\ t = "A" /\ l.health => R[t][i].test # None
  <2>1. t \in DOMAIN l.records /\ i \in DOMAIN l.records[t] /\ R[t][i] = at(t, i)
    BY <1>3, <1>7
  <2>. QED
    BY <1>2, <2>1
<1>8. \A g : Located(l, g) => Located(d, g)
  BY <1>6, <1>7 DEF Located
<1>9. Tested(d)
  BY <1>6, <1>7 DEF Tested
<1>. QED
  BY <1>6, <1>8, <1>9 DEF d

(* The locations of the servers.                                           *)
LEMMA SetLocationsStep ==
    ASSUME ZoneDataInv, SetLocations
    PROVE  ZoneDataInv'
<1>. DEFINE Panics == /\ geo = "country"
                      /\ \E n \in DOMAIN Labels : /\ Locates(Labels[n])
                                                 /\ "A" \in DOMAIN Labels[n].records
                                                 /\ Labels[n].records["A"] # <<>>
<1>1. /\ pc = "locations" /\ file' = file /\ geo' = geo /\ GivenInv(file, geo)
      /\ ReadyInv(Labels, file) /\ ReadInv(DOMAIN file.data, HasClosest, file)
  BY DEF SetLocations, ZoneDataInv
<1>2. CASE Panics
  <2>1. pc' = "rejected"
    BY <1>2 DEF SetLocations, Reject
  <2>2. RejectedInv(file, geo)
    BY <1>1, <1>2 DEF RejectedInv, ReadInv, Locates
  <2>. QED
    BY <1>1, <2>1, <2>2 DEF ZoneDataInv
<1>3. CASE ~ Panics
  <2>1. /\ Labels' = [n \in DOMAIN Labels |-> WithLocations(Labels[n])]
        /\ pc' = "tests" /\ HasClosest' = HasClosest
    BY <1>3 DEF SetLocations
  <2>2. DOMAIN Labels' = DOMAIN Labels /\ \A n \in DOMAIN Labels : Labels'[n] = WithLocations(Labels[n])
    BY <2>1
  <2>3. ASSUME NEW n \in DOMAIN Labels
        PROVE  Finished(n, Labels'[n], file) /\ Located(Labels'[n], geo)
    <3>. DEFINE l == Labels[n]
                d == WithLocations(l)
    <3>1. Finished(n, l, file) /\ Labels'[n] = d
      BY <1>1, <2>2, <2>3 DEF ReadyInv
    <3>2. IsLabel(l) /\ NoSlots(l)
      BY <3>1, FinishedIsLabel
    <3>3. "A" \in DOMAIN l.records /\ l.closest => HasClosest
      <4>. SUFFICES ASSUME "A" \in DOMAIN l.records, l.closest PROVE HasClosest
        OBVIOUS
      <4>1. n \in Base(file)
        BY <3>1 DEF Finished, Bare
      <4>2. PICK k \in KeysOf(file, n) : l.closest = Given(file.data[k].closest, file.options.closest)
        BY <3>1, <4>1 DEF Finished, Whole
      <4>3. k \in DOMAIN file.data /\ file.data[k].closest \in {TRUE, FALSE, None}
        BY <1>1, ZoneDataAssumption DEF KeysOf, GivenInv
      <4>4. file.options.closest \/ file.data[k].closest = TRUE
        BY <4>2, <4>3 DEF Given
      <4>. QED
        BY <1>1, <4>3, <4>4 DEF ReadInv
    <3>4. "A" \in DOMAIN l.records /\ geo = "country" =>
             \A i \in DOMAIN l.records["A"] : ~ Locates(l)
      <4>1. DOMAIN <<>> = {}
        BY ONLY SMTT(60)
      <4>. QED
        BY <1>3, <2>3, <4>1
    <3>. HIDE DEF l
    <3>5. /\ d.closest = l.closest /\ Finished(n, d, file)
          /\ DOMAIN d.records = DOMAIN l.records
          /\ "A" \in DOMAIN l.records =>
                /\ DOMAIN d.records["A"] = DOMAIN l.records["A"]
                /\ \A i \in DOMAIN l.records["A"] :
                      /\ d.records["A"][i].known = l.records["A"][i].known
                      /\ d.records["A"][i].loc <=> Locates(l) /\ l.records["A"][i].known
      BY <3>1, <3>2, LocatedStays
    <3>. HIDE DEF d
    <3>6. Located(d, geo)
      <4>. SUFFICES ASSUME "A" \in DOMAIN d.records, NEW i \in DOMAIN d.records["A"]
                    PROVE  d.records["A"][i].loc <=> geo = "city" /\ d.closest /\ d.records["A"][i].known
        BY DEF Located
      <4>1. /\ d.records["A"][i].loc <=> Locates(l) /\ d.records["A"][i].known
            /\ i \in DOMAIN l.records["A"] /\ "A" \in DOMAIN l.records
        BY <3>5
      <4>2. Locates(l) <=> geo = "city" /\ l.closest
        <5>1. geo \in {"none", "country", "city"}
          BY <1>1 DEF GivenInv
        <5>. QED
          BY <3>3, <3>4, <4>1, <5>1 DEF Locates
      <4>. QED
        BY <3>5, <4>1, <4>2
    <3>. QED
      BY <3>1, <3>5, <3>6
  <2>4. ReadyInv(Labels', file) /\ \A n \in DOMAIN Labels' : Located(Labels'[n], geo)
    BY <1>1, <2>2, <2>3 DEF ReadyInv
  <2>. QED
    BY <1>1, <2>1, <2>4 DEF ZoneDataInv
<1>. QED
  BY <1>2, <1>3

(* The health tests.                                                       *)
LEMMA setupHealthTestsStep ==
    ASSUME ZoneDataInv, setupHealthTests
    PROVE  ZoneDataInv'
<1>1. /\ pc = "tests" /\ file' = file /\ geo' = geo /\ GivenInv(file, geo)
      /\ ReadyInv(Labels, file) /\ ReadInv(DOMAIN file.data, HasClosest, file)
      /\ \A n \in DOMAIN Labels : Located(Labels[n], geo)
      /\ pc' = "done" /\ HasClosest' = HasClosest
      /\ DOMAIN Labels' = DOMAIN Labels
      /\ \A n \in DOMAIN Labels : Labels'[n] = WithTests(Labels[n])
  BY DEF setupHealthTests, ZoneDataInv
<1>2. ASSUME NEW n \in DOMAIN Labels
      PROVE  Finished(n, Labels'[n], file) /\ Located(Labels'[n], geo) /\ Tested(Labels'[n])
  <2>1. Finished(n, Labels[n], file) /\ Located(Labels[n], geo) /\ Labels'[n] = WithTests(Labels[n])
    BY <1>1, <1>2 DEF ReadyInv
  <2>2. IsLabel(Labels[n]) /\ NoSlots(Labels[n])
    BY <2>1, FinishedIsLabel
  <2>. QED
    BY <2>1, <2>2, TestedStays
<1>3. ReadyInv(Labels', file)
  BY <1>1, <1>2 DEF ReadyInv
<1>. QED
  BY <1>1, <1>2, <1>3 DEF ZoneDataInv

-----------------------------------------------------------------------------
(* What the reader has made of the file holds at every step, whatever the  *)
(* file has, in whatever order the maps are gone through.                  *)
LEMMA ZoneDataInvariant == Spec => []ZoneDataInv
<1>1. Init => ZoneDataInv
  <2>. SUFFICES ASSUME Init PROVE ZoneDataInv
    OBVIOUS
  <2>1. GivenInv(file, geo)
    <3>1. PICK o \in Options, ks \in SUBSET Keys : \E data \in [ks -> RawLabels] :
             file = [options |-> o, data |-> data]
      BY DEF Init
    <3>2. PICK data \in [ks -> RawLabels] : file = [options |-> o, data |-> data]
      BY <3>1
    <3>3. file.options = o /\ file.data = data
      BY <3>2
    <3>4. geo \in {"none", "country", "city"}
      BY DEF Init
    <3>. QED
      BY <3>2, <3>3, <3>4 DEF GivenInv
  <2>. QED
    BY <2>1 DEF Init, ZoneDataInv
<1>2. ZoneDataInv /\ [Next]_vars => ZoneDataInv'
  <2>. SUFFICES ASSUME ZoneDataInv, [Next]_vars PROVE ZoneDataInv'
    OBVIOUS
  <2>1. CASE ReadOptions
    BY <2>1, ReadOptionsStep
  <2>2. ASSUME NEW k \in Keys, ReadLabel(k) PROVE ZoneDataInv'
    BY <2>2, ReadLabelStep
  <2>3. CASE LabelsRead
    BY <2>3, LabelsReadStep
  <2>4. ASSUME NEW name \in DOMAIN Labels, Visit(name) PROVE ZoneDataInv'
    BY <2>4, VisitStep
  <2>5. CASE addSOA
    BY <2>5, addSOAStep
  <2>6. CASE SetLocations
    BY <2>6, SetLocationsStep
  <2>7. CASE setupHealthTests
    BY <2>7, setupHealthTestsStep
  <2>8. CASE UNCHANGED vars
    BY <2>8 DEF vars, ZoneDataInv
  <2>. QED
    BY <2>1, <2>2, <2>3, <2>4, <2>5, <2>6, <2>7, <2>8 DEF Next
<1>. QED
  BY <1>1, <1>2, PTL DEF Spec

(* The zone that is served is the file: its labels, each as one of those   *)
(* the file gives that name, the names above them and the root, no others. *)
THEOREM ServedZoneIsFile == Spec => []ZoneIsFile
<1>1. ZoneDataInv => ZoneIsFile
  <2>. SUFFICES ASSUME ZoneDataInv, Served PROVE ZoneIsFile
    BY DEF ZoneIsFile
  <2>1. ReadyInv(Labels, file)
    BY DEF ZoneDataInv, Served
  <2>2. DOMAIN Labels = {<<>>} \cup UNION {{ToLower(k)} \cup Parents(ToLower(k)) :
                                            k \in DOMAIN file.data}
    <3>1. UNION {{ToLower(k)} \cup Parents(ToLower(k)) : k \in DOMAIN file.data}
            = Base(file) \cup Above(file)
      <4>1. \A m : m \in Base(file) <=> \E k \in DOMAIN file.data : m = ToLower(k)
        BY DEF Base
      <4>2. \A m : m \in Above(file) <=> \E k \in DOMAIN file.data : m \in Parents(ToLower(k))
        BY DEF Above, Base
      <4>3. \A m : m \in UNION {{ToLower(k)} \cup Parents(ToLower(k)) : k \in DOMAIN file.data}
                    <=> \E k \in DOMAIN file.data : m = ToLower(k) \/ m \in Parents(ToLower(k))
        BY ONLY SMTT(60)
      <4>. QED
        BY <4>1, <4>2, <4>3
    <3>. QED
      BY <2>1, <3>1 DEF ReadyInv
  <2>3. ASSUME NEW n \in DOMAIN Labels, InFile(n) = {}
        PROVE  DOMAIN Labels[n].records \ {"SOA"} = {} /\ Labels[n].hosts = file.options.hosts
    <3>1. n \notin Base(file)
      BY <2>3 DEF InFile, Base
    <3>. QED
      BY <2>1, <2>3, <3>1 DEF ReadyInv, Finished, Bare
  <2>4. ASSUME NEW n \in DOMAIN Labels, InFile(n) # {}
        PROVE  \E k \in InFile(n) : Whole(Labels[n], file.data[k], file)
    <3>1. n \in Base(file)
      BY <2>4 DEF InFile, Base
    <3>2. \E k \in KeysOf(file, n) : Whole(Labels[n], file.data[k], file)
      BY <2>1, <2>4, <3>1 DEF ReadyInv, Finished
    <3>. QED
      BY <3>2 DEF InFile, KeysOf
  <2>5. ASSUME NEW n \in DOMAIN Labels
        PROVE  LET l == Labels[n] own == DOMAIN l.records \ {"SOA"} IN
               IF InFile(n) = {}
               THEN own = {} /\ l.hosts = file.options.hosts
               ELSE \E k \in InFile(n) :
                      LET raw == file.data[k] IN
                      /\ own = DOMAIN raw.records
                      /\ \A t \in own : SameRecords(l.records[t], raw.records[t], t)
                      /\ l.hosts = Given(raw.hosts, file.options.hosts)
                      /\ l.closest = Given(raw.closest, file.options.closest)
                      /\ \A t \in own : \A i \in DOMAIN l.records[t] :
                            l.records[t][i].ttl = IF raw.ttl > 0 THEN raw.ttl
                                                  ELSE IF t = "NS" THEN NsTtl
                                                  ELSE file.options.ttl
    <3>1. CASE InFile(n) = {}
      BY <2>3, <2>5, <3>1
    <3>2. CASE InFile(n) # {}
      <4>1. PICK k \in InFile(n) : Whole(Labels[n], file.data[k], file)
        BY <2>4, <2>5, <3>2
      <4>2. \A t \in DOMAIN file.data[k].records :
               /\ SameRecords(Labels[n].records[t], file.data[k].records[t], t)
               /\ \A i \in DOMAIN Labels[n].records[t] :
                     Labels[n].records[t][i].ttl =
                        IF file.data[k].ttl > 0 THEN file.data[k].ttl
                        ELSE IF t = "NS" THEN NsTtl ELSE file.options.ttl
        BY <4>1 DEF Whole, Weighed
      <4>. QED
        BY <3>2, <4>1, <4>2 DEF Whole
    <3>. QED
      BY <3>1, <3>2
  <2>. QED
    BY <2>2, <2>5 DEF ZoneIsFile
<1>. QED
  BY <1>1, ZoneDataInvariant, PTL

(* What Picker relies on holds of every list of a zone that is served: its *)
(* total is the sum of its weights, and heavier records come first.        *)
THEOREM ServedWeightsConsistent == Spec => []WeightsConsistent
<1>1. ZoneDataInv => WeightsConsistent
  <2>. SUFFICES ASSUME ZoneDataInv, Served,
                       NEW n \in DOMAIN Labels, NEW t \in DOMAIN Labels[n].records \cap Types
                PROVE  \E raw : Weighed(Labels[n], raw, file, t)
    BY DEF WeightsConsistent, Weighed
  <2>1. Finished(n, Labels[n], file)
    BY DEF ZoneDataInv, Served, ReadyInv
  <2>2. t # "SOA"
    BY DEF Types
  <2>3. n \in Base(file)
    BY <2>1, <2>2 DEF Finished, Bare
  <2>4. PICK k \in KeysOf(file, n) : Whole(Labels[n], file.data[k], file)
    BY <2>1, <2>3 DEF Finished
  <2>. QED
    BY <2>2, <2>4 DEF Whole
<1>. QED
  BY <1>1, ZoneDataInvariant, PTL

(* A zone is served whole or not at all, and no valid file is rejected.    *)
THEOREM ZonesAllOrNothing == Spec => []AllOrNothing
<1>1. ZoneDataInv => AllOrNothing
  <2>. SUFFICES ASSUME ZoneDataInv PROVE AllOrNothing
    OBVIOUS
  <2>1. ASSUME Served, NEW n \in DOMAIN Labels PROVE NoSlots(Labels[n])
    <3>1. Finished(n, Labels[n], file)
      BY <2>1 DEF ZoneDataInv, Served, ReadyInv
    <3>. QED
      BY <3>1, FinishedIsLabel
  <2>2. ASSUME Served, NEW k \in DOMAIN file.data PROVE ~ Malformed(file.data[k])
    BY <2>2 DEF ZoneDataInv, Served, ReadInv
  <2>3. ASSUME Served, NEW k \in DOMAIN file.data, NEW t \in DOMAIN file.data[k].records,
               NEW i \in DOMAIN file.data[k].records[t]
        PROVE  file.data[k].records[t][i].kind # "bad"
    BY <2>2, <2>3 DEF Malformed
  <2>4. pc = "rejected" => RejectedInv(file, geo)
    BY DEF ZoneDataInv
  <2>. QED
    BY <2>1, <2>3, <2>4 DEF AllOrNothing, NoSlots, RejectedInv
<1>. QED
  BY <1>1, ZoneDataInvariant, PTL

(* In a zone that is served the servers of 'closest' labels are located    *)
(* and the addresses of labels with a health test are tested.              *)
THEOREM ServedClosestAndTested == Spec => []ClosestAndTested
<1>1. ZoneDataInv => ClosestAndTested
  <2>. SUFFICES ASSUME ZoneDataInv, Served,
                       NEW n \in DOMAIN Labels, "A" \in DOMAIN Labels[n].records,
                       NEW i \in DOMAIN Labels[n].records["A"]
                PROVE  /\ Labels[n].records["A"][i].loc <=>
                             geo = "city" /\ Labels[n].closest /\ Labels[n].records["A"][i].known
                       /\ Labels[n].health => Labels[n].records["A"][i].test # None
    BY DEF ClosestAndTested
  <2>1. Located(Labels[n], geo) /\ Tested(Labels[n])
    BY DEF ZoneDataInv, Served
  <2>. QED
    BY <2>1 DEF Located, Tested
<1>. QED
  BY <1>1, ZoneDataInvariant, PTL

=============================================================================
