------------------------------- MODULE Picker -------------------------------
(***************************************************************************)
(* How the records of an answer are picked (zones/picker.go), from the     *)
(* weights the zone file gives them (setupZoneData in zones/reader.go),    *)
(* the health of the servers, and their distance to the client.            *)
(*                                                                         *)
(* The records of a label and type are numbered in the order of the slice; *)
(* as every filter keeps that order, a slice of them is a set of numbers.  *)
(* Distances are whole numbers of some unit.  One behaviour is one call.   *)
(***************************************************************************)
EXTENDS Integers, Sequences, Sums

CONSTANTS
    Types,          \* the record types asked for
    Weights,        \* the weights a zone file may give
    Distances,      \* the distances a server may have
    MaxDistance,    \* location.MaxDistance()
    MaxServers,     \* bound on the number of records
    MaxHosts        \* the values of label.MaxHosts

ASSUME PickerAssumption ==
    /\ Types \subseteq {"A", "CNAME", "TXT"}
    /\ Weights \subseteq Int
    /\ MaxDistance \in Nat
    /\ Distances \subseteq 0 .. MaxDistance
    /\ MaxServers \in Nat
    /\ MaxHosts \subseteq Int

VARIABLES
    label,      \* the label and the query: fixed during the call
    pc,
    servers,
    sum,
    max,
    choose,
    result

vars == <<label, pc, servers, sum, max, choose, result>>

\* A slot of the result that was never filled.
Nil == 0

AlwaysWeighted == {"A", "CNAME"}

\* The second pass of setupZoneData: an address or a CNAME always has a weight.
SetWeights(type, w) ==
    IF type \in AlwaysWeighted /\ SumOf(w, DOMAIN w) = 0
    THEN [i \in DOMAIN w |-> 1]
    ELSE w

Unsorted(w) == TRUE

\* Records with a positive total weight have been sorted.
SortedByWeight(w) ==
    SumOf(w, DOMAIN w) > 0 => \A i, j \in DOMAIN w : i < j => w[i] >= w[j]

\* Without a location the distances do not matter, nor does health without a
\* test.
IsLabel(l) ==
    \E n \in 0 .. MaxServers, type \in Types, hosts \in MaxHosts, tested \in BOOLEAN :
    \E config \in {w \in [1 .. n -> Weights] : SortedByWeight(w)},
       located \in IF type = "A" THEN BOOLEAN ELSE {FALSE},
       healthy \in IF tested THEN SUBSET (1 .. n) ELSE {1 .. n} :
    \E dist \in IF located THEN [1 .. n -> Distances] ELSE {[i \in 1 .. n |-> 0]} :
        l = [type |-> type, config |-> config, dist |-> dist, located |-> located,
             tested |-> tested, healthy |-> healthy, hosts |-> hosts]

All == DOMAIN label.config
weight == SetWeights(label.type, label.config)
LabelWeight == SumOf(weight, All)

Init ==
    /\ IsLabel(label)
    /\ pc = "start"
    /\ servers = {}
    /\ sum = 0
    /\ max = 0
    /\ choose = {}
    /\ result = <<>>

-----------------------------------------------------------------------------
filterHealthOnly == [servers |-> label.healthy, sum |-> LabelWeight]

filterHealth == [servers |-> label.healthy, sum |-> SumOf(weight, label.healthy)]

Slice(S) == CHOOSE s \in [1 .. Cardinality(S) -> S] :
                \A i, j \in DOMAIN s : i < j => s[i] < s[j]

\* The limit on the length of the answer.
Limit(S) ==
    LET hosts == IF label.type = "CNAME" THEN 1 ELSE label.hosts
    IN  IF hosts > Cardinality(S) THEN Cardinality(S) ELSE hosts

\* Health, and the cases in which all the servers left are returned.  Making a
\* result of a negative length panics.
Start ==
    /\ pc = "start"
    /\ LET kept == IF label.tested
                   THEN filterHealth
                   ELSE [servers |-> All, sum |-> LabelWeight]
       IN  /\ servers' = kept.servers
           /\ sum' = kept.sum
           /\ IF LabelWeight = 0 \/ (label.tested /\ kept.sum = 0)
              THEN /\ result' = Slice(kept.servers)
                   /\ pc' = "done"
                   /\ UNCHANGED max
              ELSE /\ max' = Limit(kept.servers)
                   /\ pc' = IF max' < 0 THEN "panic"
                            ELSE IF label.located /\ max' < Cardinality(kept.servers)
                            THEN "closest" ELSE "draw"
                   /\ UNCHANGED result
    /\ UNCHANGED <<label, choose>>

MinDistance == Min({MaxDistance} \cup {label.dist[i] : i \in servers \ choose})

Within5(d, m) == 100 * d <= 105 * m

StrictlyNearby(i) == 100 * label.dist[i] < 105 * MinDistance

NearbyByFive(i) == label.dist[i] <= MinDistance + 5

\* One round of the loop: all the servers at most 5% farther than the nearest
\* one not yet chosen.
Nearby(i) == Within5(label.dist[i], MinDistance)

ClosestPass ==
    /\ pc = "closest"
    /\ Cardinality(choose) < max
    /\ choose' = choose \cup {i \in servers : Nearby(i)}
    /\ UNCHANGED <<label, pc, servers, sum, max, result>>

KeepChosen ==
    /\ pc = "closest"
    /\ Cardinality(choose) >= max
    /\ servers' = choose
    /\ sum' = SumOf(weight, choose)
    /\ pc' = "draw"
    /\ UNCHANGED <<label, max, choose, result>>

\* The servers at which the running sum of the weights has reached n.
Hits(n) == {i \in servers : SumOf(weight, {j \in servers : j <= i}) >= n}

\* rand.Intn(sum + 1) panics unless sum + 1 is positive.
Draw ==
    /\ pc = "draw"
    /\ Len(result) < max
    /\ \/ /\ sum < 0
          /\ pc' = "panic"
          /\ UNCHANGED <<servers, sum, result>>
       \/ \E n \in 0 .. sum :
             /\ IF Hits(n) = {}
                THEN /\ result' = Append(result, Nil)
                     /\ UNCHANGED <<servers, sum>>
                ELSE LET i == Min(Hits(n))
                     IN  /\ result' = Append(result, i)
                         /\ servers' = servers \ {i}
                         /\ sum' = sum - weight[i]
             /\ UNCHANGED pc
    /\ UNCHANGED <<label, max, choose>>

Return ==
    /\ pc = "draw"
    /\ Len(result) = max
    /\ pc' = "done"
    /\ UNCHANGED <<label, servers, sum, max, choose, result>>

Next == Start \/ ClosestPass \/ KeepChosen \/ Draw \/ Return

Spec == Init /\ [][Next]_vars

\* The call runs in a goroutine the scheduler does not forget.
FairSpec == Spec /\ WF_vars(Next)

-----------------------------------------------------------------------------
Usable == IF label.tested THEN label.healthy ELSE All
Picked == {result[i] : i \in DOMAIN result}
NonNegative == \A i \in All : label.config[i] >= 0

(* An answer names no server twice, no unhealthy server, and no empty slot *)
(* (which serve() would dereference): the draw always lands on a server,   *)
(* because sum is kept equal to the weight of the servers left, through    *)
(* the health filter, the closest filter and every draw.  For the same     *)
(* reason only a negative weight makes the draw panic; a negative number   *)
(* of hosts panics before.                                                 *)
ResultSound ==
    /\ Picked \subseteq Usable
    /\ Cardinality(Picked) = Len(result)
    /\ pc = "panic" => ~ NonNegative \/ label.hosts < 0

(* In each draw the chance of a server is its weight in sum + 1, and that  *)
(* of the first one 1 more: 0 is drawn too, and lands there.  A server of  *)
(* weight 0 is picked only when every server of positive weight that was   *)
(* in the draw has been, as the records are sorted by weight.              *)
DrawProportional ==
    NonNegative /\ pc = "draw" =>
        /\ \A i \in servers :
              Cardinality({n \in 0 .. sum : Hits(n) # {} /\ Min(Hits(n)) = i})
              = weight[i] + IF i = Min(servers) THEN 1 ELSE 0
        /\ \A i \in Picked, j \in servers : weight[i] = 0 => weight[j] = 0

\* The distance of the k-th nearest server of S.
Kth(S, k) ==
    CHOOSE d \in {label.dist[i] : i \in S} :
        /\ Cardinality({i \in S : label.dist[i] < d}) < k
        /\ Cardinality({i \in S : label.dist[i] <= d}) >= k

\* The distances R are those of the nearest servers of successive rounds over
\* S: no server is nearer, or the nearer ones are just those of another round.
AreRounds(R, S, dist) ==
    \A m \in R :
        \/ \A i \in S : m <= dist[i]
        \/ \E k \in R : \A i \in S : dist[i] < m <=> Within5(dist[i], k)

(* The closest filter keeps whole clusters, as few as make max servers: a  *)
(* cluster is a server, the nearest one outside of the clusters before it, *)
(* with all those at most 5% farther.  So it keeps all the servers at      *)
(* least as close as the max'th nearest, and only such as are within 5% of *)
(* that.  It is not all of the latter, though the comment in Picker()      *)
(* promises those "closer to the querier than the max'th furthest server,  *)
(* or within 5% thereof": the 5% are those of the nearest server of the    *)
(* cluster.  With max = 2, the distances 20, 21 and 22 leave out 22.       *)
ClosestCluster ==
    pc \in {"draw", "done"} /\ choose # {} =>
        LET d == Kth(Usable, max) IN
        /\ Picked \subseteq choose
        /\ \E R \in SUBSET {label.dist[i] : i \in Usable} : \E m \in R :
              /\ AreRounds(R, Usable, label.dist)
              /\ choose = {i \in Usable : Within5(label.dist[i], m)}
              /\ Cardinality({i \in Usable : label.dist[i] < m}) < max
              /\ max <= Cardinality(choose)
        /\ \A i \in Usable :
              /\ label.dist[i] <= d => i \in choose
              /\ i \in choose => Within5(label.dist[i], d)

(* Picker() ends: every round of the closest filter chooses a server.      *)
Finishes == <>(pc \in {"done", "panic"})

=============================================================================
