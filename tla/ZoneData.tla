------------------------------ MODULE ZoneData ------------------------------
(***************************************************************************)
(* How a zone file becomes a zone: ReadZoneFile and setupZoneData          *)
(* (zones/reader.go), with AddLabel, addSOA and SetLocations               *)
(* (zones/zone.go) and setupHealthTests, which follows when the zone is    *)
(* registered.                                                             *)
(*                                                                         *)
(* Go goes through the maps of the file and of the zone in any order, and  *)
(* may or may not come across labels it adds on the way.  A name is the    *)
(* sequence of its parts, <<>> for the root; a key of the file is a name   *)
(* and a spelling, as upper and lower case name the same label.  Of a      *)
(* record remain its weight, its health test, whether the geo database     *)
(* knows its address, and whether it is well formed, malformed ("bad", a   *)
(* panic that ReadZoneFile recovers) or a text of length 0 ("empty").      *)
(* A type stands for those treated alike: A for AAAA, TXT for SPF, and for *)
(* SRV, PTR and aliases but that these are never empty.                    *)
(***************************************************************************)
EXTENDS Integers, Sequences, FiniteSets, Functions, Sums

CONSTANTS
    Keys,       \* the keys a file may have: <<name, spelling>>
    RawLabels,  \* what a file may say of a label
    Options,    \* the options a file may have
    None

Types == {"A", "CNAME", "MX", "NS", "TXT"}
AlwaysWeighted == {"A", "CNAME"}
RawRecord == [kind : {"good", "bad", "empty"}, weight : Int, test : {None, "own"}, known : BOOLEAN]

ASSUME ZoneDataAssumption ==
    /\ \A k \in Keys : k[1] \in Seq(STRING)
    /\ Options \subseteq [valid : BOOLEAN, ttl : Int, hosts : Int, closest : BOOLEAN]
    /\ \A raw \in RawLabels :
          /\ raw.ttl \in Int
          /\ raw.hosts \in Int \cup {None}
          /\ raw.closest \in {TRUE, FALSE, None}
          /\ raw.health \in BOOLEAN
          /\ DOMAIN raw.records \subseteq Types
          /\ \A t \in DOMAIN raw.records : raw.records[t] \in Seq(RawRecord)
    /\ None \notin Int \cup BOOLEAN \cup {"nil", "own", "address"}

VARIABLES
    file,
    geo,        \* the geo databases there are
    pc,
    todo,       \* what the current loop has yet to come across
    Labels,
    HasClosest

vars == <<file, geo, pc, todo, Labels, HasClosest>>

ToLower(k) == k[1]
Parents(name) == {SubSeq(name, i, Len(name)) : i \in 2 .. Len(name)}

\* A slot of a list of records that was never filled.
Nil == [weight |-> 0, ttl |-> 0, known |-> FALSE, loc |-> FALSE, test |-> "nil"]

Init ==
    /\ \E keys \in SUBSET Keys : \E o \in Options, data \in [keys -> RawLabels] :
          file = [options |-> o, data |-> data]
    /\ geo \in {"none", "country", "city"}
    /\ pc = "options"
    /\ todo = {}
    /\ Labels = <<>>
    /\ HasClosest = FALSE

-----------------------------------------------------------------------------
\* The assignment f[x] = v to a map.
With(f, x, v) == [y \in DOMAIN f \cup {x} |-> IF y = x THEN v ELSE f[y]]

Total(records) == SumOf([i \in DOMAIN records |-> records[i].weight], DOMAIN records)

Descending(records) ==
    \A i, j \in DOMAIN records : i < j => records[i].weight >= records[j].weight

\* The order of equal weights is left open by the sort.
Sorted(records) ==
    {s \in {[i \in DOMAIN records |-> records[p[i]]] :
               p \in Bijection(DOMAIN records, DOMAIN records)} : Descending(s)}

\* AddLabel: a new label with the options of the zone.
AddLabel == [ttl |-> 0, hosts |-> file.options.hosts, closest |-> file.options.closest,
             health |-> FALSE, records |-> [t \in {} |-> <<>>], weight |-> [t \in Types |-> 0]]

\* What a label says of an option, or else what the zone says.
Given(v, default) == IF v = None THEN default ELSE v

NewRecord(r) ==
    IF r.kind = "empty" THEN Nil
    ELSE [weight |-> r.weight, ttl |-> 0, known |-> r.known, loc |-> FALSE, test |-> r.test]

ListOf(raw) == [i \in DOMAIN raw |-> NewRecord(raw[i])]

InFileOrder(raw) == {ListOf(raw)}

\* What the list of the records of a type may become.
NewRecords(raw) == IF Total(ListOf(raw)) > 0 THEN Sorted(ListOf(raw)) ELSE {ListOf(raw)}

NewLabel(raw, records) ==
    [ttl |-> raw.ttl,
     hosts |-> Given(raw.hosts, AddLabel.hosts),
     closest |-> Given(raw.closest, AddLabel.closest),
     health |-> raw.health,
     records |-> records,
     weight |-> [t \in Types |-> IF t \in DOMAIN records THEN Total(records[t]) ELSE 0]]

\* A malformed record; or a slot without a record, which cannot be sorted.
Malformed(raw) ==
    \E t \in DOMAIN raw.records :
        LET records == raw.records[t] IN
        \/ \E i \in DOMAIN records : records[i].kind = "bad"
        \/ Total(ListOf(records)) > 0 /\ \E i \in DOMAIN records : records[i].kind = "empty"

Reject == pc' = "rejected" /\ UNCHANGED <<todo, Labels, HasClosest>>

\* The file is decoded; the labels are left for last, after all the options.
\* A file that cannot be opened or decoded, or has an option of a wrong type or
\* value (a contact that makes no SOA record included), is not valid.
ReadOptions ==
    /\ pc = "options"
    /\ IF ~ file.options.valid THEN Reject
       ELSE /\ HasClosest' = file.options.closest
            /\ todo' = DOMAIN file.data
            /\ pc' = "data"
            /\ UNCHANGED Labels
    /\ UNCHANGED <<file, geo>>

OwnClosest(raw) == HasClosest

ClosestSoFar(raw) == HasClosest \/ raw.closest = TRUE

\* One round of the loop over the labels of the file.
ReadLabel(k) ==
    /\ pc = "data"
    /\ k \in todo
    /\ LET raw == file.data[k] IN
       IF Malformed(raw) THEN Reject
       ELSE /\ \E records \in [DOMAIN raw.records ->
                                  UNION {NewRecords(raw.records[t]) : t \in DOMAIN raw.records}] :
                /\ \A t \in DOMAIN raw.records : records[t] \in NewRecords(raw.records[t])
                /\ Labels' = With(Labels, ToLower(k), NewLabel(raw, records))
            /\ HasClosest' = ClosestSoFar(raw)
            /\ todo' = todo \ {k}
            /\ UNCHANGED pc
    /\ UNCHANGED <<file, geo>>

LabelsRead ==
    /\ pc = "data"
    /\ todo = {}
    /\ todo' = DOMAIN Labels
    /\ pc' = "pass"
    /\ UNCHANGED <<file, geo, Labels, HasClosest>>

-----------------------------------------------------------------------------
MissingOrNot(name) == Parents(name)

\* The labels to add above a label.
Missing(name) == Parents(name) \ DOMAIN Labels

NsTtl == 86400

TtlOf(l, t) ==
    IF l.ttl > 0 THEN l.ttl ELSE IF t = "NS" THEN NsTtl ELSE file.options.ttl

\* Addresses that have no weight are given one.
SetWeight(l, t) == t \in AlwaysWeighted /\ l.weight[t] = 0

SetDefaults(l) ==
    LET finish(r, t) == [r EXCEPT !.weight = IF SetWeight(l, t) THEN 1 ELSE r.weight,
                                  !.ttl = TtlOf(l, t)]
    IN  [l EXCEPT !.records = [t \in DOMAIN l.records |->
                                 [i \in DOMAIN l.records[t] |-> finish(l.records[t][i], t)]],
                  !.weight = [t \in Types |->
                                 IF t \in DOMAIN l.records /\ SetWeight(l, t)
                                 THEN Len(l.records[t]) ELSE l.weight[t]]]

NoNil(l) == FALSE

HasNil(l) == \E t \in DOMAIN l.records : \E i \in DOMAIN l.records[t] : l.records[t][i] = Nil

\* One round of the loop over the labels of the zone.
Visit(name) ==
    /\ pc = "pass"
    /\ name \in todo
    /\ IF HasNil(Labels[name]) THEN Reject
       ELSE \E seen \in SUBSET Missing(name) :
            /\ todo' = (todo \ {name}) \cup seen
            /\ Labels' = [n \in DOMAIN Labels \cup Missing(name) |->
                            IF n \in Missing(name) THEN AddLabel
                            ELSE IF n = name THEN SetDefaults(Labels[n]) ELSE Labels[n]]
            /\ UNCHANGED <<pc, HasClosest>>
    /\ UNCHANGED <<file, geo>>

SoaTtl ==
    LET ttl == 10 * file.options.ttl
    IN  IF ttl = 0 THEN 600 ELSE IF ttl > 3600 THEN 3600 ELSE ttl

SOA == [weight |-> 0, ttl |-> SoaTtl, known |-> FALSE, loc |-> FALSE, test |-> None]

\* addSOA: the primary name server is the first of the root's.
addSOA ==
    /\ pc = "pass"
    /\ todo = {}
    /\ IF <<>> \in DOMAIN Labels /\ "NS" \in DOMAIN Labels[<<>>].records
          /\ Labels[<<>>].records["NS"] = <<>>
       THEN Reject
       ELSE /\ LET root == IF <<>> \in DOMAIN Labels THEN Labels[<<>>] ELSE AddLabel
               IN  Labels' = With(Labels, <<>>,
                                  [root EXCEPT !.records = With(root.records, "SOA", <<SOA>>)])
            /\ pc' = "locations"
            /\ UNCHANGED <<todo, HasClosest>>
    /\ UNCHANGED <<file, geo>>

\* The labels whose servers are located.
Locates(l) == geo # "none" /\ HasClosest /\ l.closest

WithLocations(l) ==
    [l EXCEPT !.records = [t \in DOMAIN l.records |->
        [i \in DOMAIN l.records[t] |->
            [l.records[t][i] EXCEPT !.loc = t = "A" /\ Locates(l) /\ l.records[t][i].known]]]]

\* Without a city database, looking up the first address panics.
SetLocations ==
    /\ pc = "locations"
    /\ IF /\ geo = "country"
          /\ \E n \in DOMAIN Labels : /\ Locates(Labels[n])
                                     /\ "A" \in DOMAIN Labels[n].records
                                     /\ Labels[n].records["A"] # <<>>
       THEN Reject
       ELSE /\ Labels' = [n \in DOMAIN Labels |-> WithLocations(Labels[n])]
            /\ pc' = "tests"
            /\ UNCHANGED <<todo, HasClosest>>
    /\ UNCHANGED <<file, geo>>

\* The test of a record of a label with tests: its own, or that of its address.
TestOf(l, r, t) ==
    IF l.health /\ r.test = None /\ t \in {"A", "MX"} THEN "address" ELSE r.test

WithTests(l) ==
    [l EXCEPT !.records = [t \in DOMAIN l.records |->
        [i \in DOMAIN l.records[t] |->
            [l.records[t][i] EXCEPT !.test = TestOf(l, l.records[t][i], t)]]]]

setupHealthTests ==
    /\ pc = "tests"
    /\ Labels' = [n \in DOMAIN Labels |-> WithTests(Labels[n])]
    /\ pc' = "done"
    /\ UNCHANGED <<file, geo, todo, HasClosest>>

Next ==
    \/ ReadOptions
    \/ \E k \in Keys : ReadLabel(k)
    \/ LabelsRead
    \/ \E name \in DOMAIN Labels : Visit(name)
    \/ addSOA
    \/ SetLocations
    \/ setupHealthTests

Spec == Init /\ [][Next]_vars

-----------------------------------------------------------------------------
Served == pc = "done"
InFile(name) == {k \in DOMAIN file.data : ToLower(k) = name}
Count(records, w) == Cardinality({i \in DOMAIN records : records[i].weight = w})

\* Records are those a label of the file lists, with the weights it gives them;
\* addresses whose weights add up to 0 weigh 1 each.
SameRecords(records, raw, t) ==
    /\ Len(records) = Len(raw)
    /\ \A w \in {records[i].weight : i \in DOMAIN records} :
          Count(records, w) = IF t \in AlwaysWeighted /\ Total(raw) = 0
                              THEN IF w = 1 THEN Len(raw) ELSE 0
                              ELSE Count(raw, w)

(* Whatever the order in which the maps are gone through, the zone has the *)
(* labels the file has, the names above them and the root, and no others;  *)
(* a label is one of those the file gives that name, whole, with its own   *)
(* options or else the zone's; the names in between are empty.             *)
ZoneIsFile ==
    Served =>
        /\ DOMAIN Labels = {<<>>} \cup UNION {{ToLower(k)} \cup Parents(ToLower(k)) :
                                                k \in DOMAIN file.data}
        /\ \A n \in DOMAIN Labels :
              LET l == Labels[n] own == DOMAIN l.records \ {"SOA"} IN
              IF InFile(n) = {}
              THEN own = {} /\ l.hosts = file.options.hosts
              ELSE \E k \in InFile(n) :
                     LET raw == file.data[k] IN
                     /\ own = DOMAIN raw.records
                     /\ \A t \in own : SameRecords(l.records[t], raw.records[t], t)
                     /\ l.hosts = Given(raw.hosts, file.options.hosts)
                     /\ l.closest = Given(raw.closest, file.options.closest)
                     /\ \A t \in own : \A i \in DOMAIN l.records[t] :
                           l.records[t][i].ttl = IF raw.ttl > 0 THEN raw.ttl
                                                 ELSE IF t = "NS" THEN NsTtl
                                                 ELSE file.options.ttl

(* What Picker relies on: Weight is the sum of the weights of the records, *)
(* addresses never have a total of 0, and records with a positive total    *)
(* come in descending order, though the second loop changes weights.       *)
WeightsConsistent ==
    Served =>
        \A n \in DOMAIN Labels : \A t \in DOMAIN Labels[n].records \cap Types :
            LET records == Labels[n].records[t] total == Labels[n].weight[t] IN
            /\ total = Total(records)
            /\ t \in AlwaysWeighted /\ records # <<>> => total # 0
            /\ total > 0 => Descending(records)

\* What a file may be rejected for.
Invalid(raw, name) ==
    \/ \E t \in DOMAIN raw.records : \E i \in DOMAIN raw.records[t] :
          raw.records[t][i].kind # "good"
    \/ name = <<>> /\ "NS" \in DOMAIN raw.records /\ raw.records["NS"] = <<>>

(* A zone is served whole or not at all: no list of a zone has an empty    *)
(* slot, which a query would trip over, no malformed record is passed over,*)
(* and a file without an invalid record is not rejected, unless it asks    *)
(* for the closest servers and only the city database is missing.          *)
AllOrNothing ==
    /\ Served =>
          /\ \A n \in DOMAIN Labels : \A t \in DOMAIN Labels[n].records :
                \A i \in DOMAIN Labels[n].records[t] : Labels[n].records[t][i].test # "nil"
          /\ \A k \in DOMAIN file.data : \A t \in DOMAIN file.data[k].records :
                \A i \in DOMAIN file.data[k].records[t] : file.data[k].records[t][i].kind # "bad"
    /\ pc = "rejected" =>
          \/ ~ file.options.valid
          \/ \E k \in DOMAIN file.data : Invalid(file.data[k], ToLower(k))
          \/ geo = "country" /\ (file.options.closest
                                   \/ \E k \in DOMAIN file.data : file.data[k].closest = TRUE)

(* The servers of every 'closest' label have their locations, whichever of *)
(* the zone and its labels asked for them, as far as the geo database      *)
(* knows them; and every address of a label with a health test is tested.  *)
ClosestAndTested ==
    Served =>
        \A n \in DOMAIN Labels : "A" \in DOMAIN Labels[n].records =>
            \A i \in DOMAIN Labels[n].records["A"] :
                LET r == Labels[n].records["A"][i] IN
                /\ r.loc <=> geo = "city" /\ Labels[n].closest /\ r.known
                /\ Labels[n].health => r.test # None

=============================================================================
