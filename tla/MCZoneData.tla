----------------------------- MODULE MCZoneData -----------------------------
(* A small instance of ZoneData for TLC: a root, www in two spellings, and *)
(* x.y.www, which has a name in between.                                   *)
EXTENDS ZoneData, TLC

MCKeys == {<<<<>>, "lower">>, <<<<"www">>, "lower">>, <<<<"www">>, "upper">>,
           <<<<"x", "y", "www">>, "lower">>}

good(w) == [kind |-> "good", weight |-> w, test |-> None, known |-> TRUE]
tested(w) == [good(w) EXCEPT !.test = "own"]
unknown(w) == [good(w) EXCEPT !.known = FALSE]
empty == [good(0) EXCEPT !.kind = "empty"]
bad == [good(0) EXCEPT !.kind = "bad"]

label(records) == [ttl |-> 0, hosts |-> None, closest |-> None, health |-> FALSE,
                   records |-> records]

MCRawLabels ==
    {label("A" :> <<unknown(1), tested(2)>> @@ "NS" :> <<good(0)>>),
     [label("A" :> <<good(0), good(0)>> @@ "CNAME" :> <<good(0)>>) EXCEPT !.closest = TRUE, !.ttl = 7],
     [label("A" :> <<good(-1), good(1)>> @@ "NS" :> <<>>) EXCEPT !.hosts = 1, !.closest = FALSE],
     [label("A" :> <<tested(-2), good(1)>> @@ "MX" :> <<good(1), unknown(1)>>) EXCEPT !.health = TRUE],
     label("TXT" :> <<empty, good(1)>>),
     label("TXT" :> <<empty>>),
     label("A" :> <<good(1), bad>>)}

MCOptions ==
    {[valid |-> TRUE, ttl |-> 120, hosts |-> 2, closest |-> FALSE],
     [valid |-> TRUE, ttl |-> 0, hosts |-> 2, closest |-> TRUE],
     [valid |-> FALSE, ttl |-> 120, hosts |-> 2, closest |-> FALSE]}

=============================================================================
