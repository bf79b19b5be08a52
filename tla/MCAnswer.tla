------------------------------ MODULE MCAnswer ------------------------------
(* A small instance of Answer for TLC: many zones for an ordinary client,  *)
(* many clients, options and databases for simple zones, and chains of     *)
(* aliases.                                                                *)
EXTENDS Answer

MCNames == {"www", "alias", "again"}
MCDebug == {"_status", "_country"}
MCQTypes == {"A", "CNAME", "TXT"}

www == {l \in [types : SUBSET {"A", "CNAME"}, mf : {None}, closest : BOOLEAN] :
           l.closest => "A" \in l.types}
alias == [types : SUBSET {"A"}, mf : {None, "www"}, closest : {FALSE}]

ZonesOf(labels, contents) ==
    UNION {{z \in [d -> contents] : \A l \in d : z[l] \in IF l[1] = "www" THEN www ELSE alias} :
           d \in SUBSET labels}

AllDBs == {[provider |-> TRUE, asn |-> TRUE, city |-> TRUE]}
SomeDBs == AllDBs \cup {[provider |-> TRUE, asn |-> FALSE, city |-> FALSE],
                        [provider |-> FALSE, asn |-> FALSE, city |-> FALSE]}

Client(form, exact, net) ==
    [ip |-> form, known |-> [f \in {"v4", "v4net", "v6"} |-> IF f = "v4net" THEN net ELSE exact]]

Everything == {"location", "region", "regiongroup", "country", "continent"}
CountryOnly == {"country", "continent"}

Zones == [zones |-> ZonesOf({"www", "alias"} \X {"country", "@"}, www \cup alias),
          opts |-> {{"@", "country"}},
          closest |-> {FALSE},
          dbs |-> AllDBs,
          clients |-> {Client("v6", Everything, Everything)}]

\* What is known of the network matters for an address that is zeroed only.
Servers == {[types |-> {"A"}, mf |-> None, closest |-> c] : c \in BOOLEAN}
           \cup {[types |-> {"CNAME"}, mf |-> None, closest |-> TRUE]}

Visitors == [zones |-> UNION {[d -> {s}] : d \in SUBSET ({"www"} \X {"ip", "net", "country"}),
                                           s \in Servers},
             opts |-> {{"ip"}, {"@", "regiongroup"}, {"@", "ip", "region", "country"},
                       {"asn", "country", "continent"}, {"@", "ip", "asn", "regiongroup"}},
             closest |-> {FALSE},
             dbs |-> SomeDBs,
             clients |-> {Client("v4", e, n) : e, n \in {Everything, CountryOnly, {}}}
                         \cup {Client(f, k, k) : f \in {"v4net", "v6"},
                                                k \in {Everything, CountryOnly, {}}}]

\* 'closest' by default, and not for the only label.
Defaults == [Visitors EXCEPT !.closest = {TRUE},
                             !.zones = {[l \in {<<"www", "country">>} |->
                                            [types |-> {"A"}, mf |-> None, closest |-> FALSE]]}]

ChainOf(l) ==
    [types |-> IF l[1] = "again" THEN {} ELSE {"A"}, closest |-> FALSE,
     mf |-> IF l[1] = "www" THEN None ELSE IF l[1] = "alias" THEN "www" ELSE "alias"]

Chains == [zones |-> {[l \in d |-> ChainOf(l)] : d \in SUBSET (MCNames \X {"country", "@"})},
           opts |-> {{"@", "country"}},
           closest |-> {FALSE},
           dbs |-> AllDBs,
           clients |-> {Client("v6", CountryOnly, CountryOnly)}]

MCCases == {Zones, Visitors, Defaults, Chains}

=============================================================================
