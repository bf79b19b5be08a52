------------------------------- MODULE Answer -------------------------------
(***************************************************************************)
(* Which label of a zone answers a query: the targets of the client        *)
(* (Targeting), FindLabels (zones/zone.go), and serve() (server/serve.go)  *)
(* going through its matches, while the health of the servers changes      *)
(* under it.                                                               *)
(*                                                                         *)
(* A label is a pair of a name and a target: <<"www", "country">> is www   *)
(* for the client's country and <<"www", "@">> is www.  Of its records     *)
(* only what decides matters: which types it has, and for which of them a  *)
(* server is healthy (live), so that Picker returns something.  Queries    *)
(* for ANY are left out.  The search takes one step for each target of     *)
(* each call of FindLabels, which calls itself on an alias: on aliases     *)
(* that form a loop it does not end.                                       *)
(***************************************************************************)
EXTENDS Naturals, Sequences, Targeting

CONSTANTS
    Cases,      \* zones, with targeting options, databases and clients
    Names,      \* the names that may have labels
    Debug,      \* the names of debug queries
    QTypes,     \* the types asked for
    None,
    MaxFlips    \* bound on the changes of health during the query

RRTypes == {"A", "CNAME", "TXT"}
TargetKinds == TargetOptions \cup {"net"}
Labels == Names \X TargetKinds
LabelType == [types : SUBSET RRTypes, mf : Names \cup {None}, closest : BOOLEAN]
QNames == Names \cup Debug

Match(l, t) == [label |-> l, type |-> t]

ASSUME AnswerAssumption ==
    /\ Debug \subseteq {"_status", "_health", "_country"}
    /\ QTypes \subseteq RRTypes
    /\ MaxFlips \in Nat
    /\ \A c \in Cases : \A z \in c.zones :
          DOMAIN z \subseteq Labels /\ \A l \in DOMAIN z : z[l] \in LabelType

\* None is no value of those it stands for the absence of.
ASSUME NoneAssumption ==
    /\ None \notin Names \cup RRTypes
    /\ None \notin [label : QNames \X TargetKinds, type : RRTypes \cup {None}]
    /\ None \notin Seq(TargetKinds)

VARIABLES
    zone,       \* z.Labels
    opts,       \* z.Options.Targeting
    closest,    \* z.Options.Closest, the default of the labels
    geo,        \* the geo provider, after the zone was loaded
    client,     \* the address asked for, and what is known of it
    query,      \* the question
    live,       \* the labels and types with a healthy server
    steady,     \* history: those that had one all the time
    flips,      \* number of changes of health
    pc,
    ip,         \* the form of the address
    targets,
    stack,      \* the calls of FindLabels under way, the innermost last
    labelMatches,
    called,     \* history: the names FindLabels was called with
    location,   \* a location is given to Picker
    m,          \* the reply
    sent        \* what was written to the client

health == <<live, steady, flips>>
given == <<zone, opts, closest, geo, client, query>>
search == <<stack, labelMatches, called>>
vars == <<given, health, pc, ip, targets, search, location, m, sent>>

NoReply == [rcode |-> "NOERROR", answer |-> None, soa |-> FALSE, near |-> FALSE, shown |-> None]
HasClosest == closest \/ \E l \in DOMAIN zone : zone[l].closest

\* A zone whose servers cannot be located is not loaded (SetLocations, ZoneData).
Loadable ==
    geo.provider /\ ~ geo.cityDB =>
        \A l \in DOMAIN zone : zone[l].closest => "A" \notin zone[l].types

Init ==
    /\ \E c \in Cases :
          /\ zone \in c.zones
          /\ opts \in c.opts
          /\ closest \in c.closest
          /\ client \in c.clients
          /\ \E db \in c.dbs, before \in BOOLEAN : geo = LoadZone(opts, HasClosest, db, before)
    /\ Loadable
    /\ query \in [name : Names \cup Debug, type : QTypes, permitDebug : BOOLEAN]
    /\ query.permitDebug => query.name \in Debug
    /\ live = UNION {{Match(l, t) : t \in zone[l].types} : l \in DOMAIN zone}
    /\ steady = live
    /\ flips = 0
    /\ pc = "targets"
    /\ ip = client.ip
    /\ targets = <<>>
    /\ stack = <<>>
    /\ labelMatches = <<>>
    /\ called = {}
    /\ location = FALSE
    /\ m = NoReply
    /\ sent = None

\* The health status of the servers of one label changes; FindLabels looks at
\* none, so a change while it searches is made before or after.
SetHealth(x) ==
    /\ flips < MaxFlips
    /\ pc \notin {"find", "done", "panic"}
    /\ live' = IF x \in live THEN live \ {x} ELSE live \cup {x}
    /\ steady' = steady \cap live'
    /\ flips' = flips + 1
    /\ UNCHANGED <<given, pc, ip, targets, search, location, m, sent>>

-----------------------------------------------------------------------------
\* A call of FindLabels(s): the target it is at, whether the alias of that
\* target was followed, and the number of matches there were before the call.
Call(s, base) == [s |-> s, i |-> 1, aliased |-> FALSE, base |-> base]

\* The targets of the client; a panic ends the server.
FindTargets ==
    /\ pc = "targets"
    /\ ip' = Zeroed(opts, ip)
    /\ IF LocationPanics(opts, HasClosest, geo)
       THEN pc' = "panic" /\ UNCHANGED <<targets, stack, called, location>>
       ELSE /\ targets' = GetTargets(opts, HasClosest, geo, client, ip)
            /\ location' = HasLocation(opts, HasClosest, geo, client, ip)
            /\ stack' = <<Call(query.name, 0)>>
            /\ called' = {query.name}
            /\ pc' = "find"
    /\ UNCHANGED <<given, health, labelMatches, m, sent>>

top == stack[Len(stack)]
label == <<top.s, targets[top.i]>>

\* The alias of a label is followed before its own records are looked at.
FollowAlias ==
    /\ pc = "find"
    /\ top.i <= Len(targets)
    /\ ~ top.aliased
    /\ label \in DOMAIN zone
    /\ zone[label].mf # None
    /\ stack' = Append([stack EXCEPT ![Len(stack)] = [@ EXCEPT !.aliased = TRUE]],
                       Call(zone[label].mf, Len(labelMatches)))
    /\ called' = called \cup {zone[label].mf}
    /\ UNCHANGED <<given, health, pc, ip, targets, labelMatches, location, m, sent>>

\* The match of a label, with the target of the queried name that led to it
\* (history).
Found(l, t) == [match |-> Match(l, t), at |-> stack[1].i]

ofType(l, qtype) == IF qtype \in zone[l].types THEN <<Found(l, qtype)>> ELSE <<>>

byType(l) ==
    IF l \in DOMAIN zone THEN ofType(l, "CNAME") \o ofType(l, query.type) ELSE <<>>

LastFirst(matches) == matches \o labelMatches

\* The matches found, in the order of the targets.
Added(matches) == labelMatches \o matches

FirstFound(matches) == IF matches # <<>> THEN Len(targets) + 1 ELSE top.i + 1

\* Every target is looked at.
NextTarget(matches) == top.i + 1

MatchTypes ==
    /\ pc = "find"
    /\ top.i <= Len(targets)
    /\ label \in DOMAIN zone /\ zone[label].mf # None => top.aliased
    /\ labelMatches' = Added(byType(label))
    /\ stack' = [stack EXCEPT ![Len(stack)] =
                     [@ EXCEPT !.i = NextTarget(byType(label)), !.aliased = FALSE]]
    /\ UNCHANGED <<given, health, pc, ip, targets, called, location, m, sent>>

OnlyMatches(s, base) == <<>>

\* A name that exists gets NOERROR, not NXDOMAIN.
OrNoError(s, base) ==
    IF Len(labelMatches) = base /\ <<s, "@">> \in DOMAIN zone
    THEN <<Found(<<s, "@">>, None)>>
    ELSE <<>>

DebugQuery ==
    query.name = "_country" \/ (query.permitDebug /\ query.name \in {"_status", "_health"})

\* The reply when no label matches.  _country shows the targets, found again.
NoMatch ==
    IF DebugQuery
    THEN IF query.type = "TXT"
         THEN [NoReply EXCEPT !.answer = Match(<<query.name, "@">>, "TXT"),
                              !.shown = IF query.name = "_country"
                                        THEN GetTargets(opts, HasClosest, geo, client, ip)
                                        ELSE None]
         ELSE [NoReply EXCEPT !.soa = TRUE]
    ELSE [NoReply EXCEPT !.rcode = "NXDOMAIN", !.soa = TRUE]

\* FindLabels returns, to itself or to serve().
Return ==
    /\ pc = "find"
    /\ top.i > Len(targets)
    /\ labelMatches' = labelMatches \o OrNoError(top.s, top.base)
    /\ stack' = SubSeq(stack, 1, Len(stack) - 1)
    /\ IF stack' # <<>>
       THEN UNCHANGED <<m, pc>>
       ELSE IF labelMatches' = <<>>
            THEN m' = NoMatch /\ pc' = "reply"
            ELSE UNCHANGED m /\ pc' = "try"
    /\ UNCHANGED <<given, health, ip, targets, called, location, sent>>

\* A label that is not 'closest' forgets the location, also for those after it.
NearFor(l) == location /\ zone[l].closest

\* One match: Picker reads the health of its servers now.
TryMatch ==
    /\ pc = "try"
    /\ labelMatches # <<>>
    /\ LET match == Head(labelMatches).match
       IN  /\ location' = NearFor(match.label)
           /\ IF match \in live
              THEN /\ m' = [m EXCEPT !.answer = match, !.near = location']
                   /\ pc' = "write"
              ELSE UNCHANGED <<m, pc>>
    /\ labelMatches' = Tail(labelMatches)
    /\ UNCHANGED <<given, health, ip, targets, stack, called, sent>>

NothingFound ==
    /\ pc = "try"
    /\ labelMatches = <<>>
    /\ m' = [m EXCEPT !.soa = TRUE]
    /\ pc' = "write"
    /\ UNCHANGED <<given, health, ip, targets, search, location, sent>>

\* A reply without a match: an error of the write is ignored.
WriteReply ==
    /\ pc = "reply"
    /\ sent' \in {m, None}
    /\ pc' = "done"
    /\ UNCHANGED <<given, health, ip, targets, search, location, m>>

\* A reply that cannot be packed is replaced by SERVFAIL.
WriteMsg ==
    /\ pc = "write"
    /\ sent' \in {m, [NoReply EXCEPT !.rcode = "SERVFAIL"]}
    /\ pc' = "done"
    /\ UNCHANGED <<given, health, ip, targets, search, location, m>>

Next ==
    \/ FindTargets
    \/ FollowAlias
    \/ MatchTypes
    \/ Return
    \/ TryMatch
    \/ NothingFound
    \/ WriteReply
    \/ WriteMsg
    \/ \E l \in DOMAIN zone : \E t \in zone[l].types : SetHealth(Match(l, t))

Spec == Init /\ [][Next]_vars

-----------------------------------------------------------------------------
Matches == {Match(l, t) : l \in DOMAIN zone, t \in RRTypes \cup {None}}
Replied == sent # None /\ sent.rcode # "SERVFAIL"

\* The labels for the targets; the names that a name is an alias of for them,
\* by any number of steps; the labels the queried name leads to.
ForTargets == {l \in DOMAIN zone : \E i \in DOMAIN targets : targets[i] = l[2]}
Closed(S) == \A l \in ForTargets : l[1] \in S /\ zone[l].mf # None => zone[l].mf \in S
Via(s) == {n \in QNames : \A S \in SUBSET QNames : s \in S /\ Closed(S) => n \in S}
Reached == {l \in ForTargets : l[1] \in Via(query.name)}
Own(i) == <<query.name, targets[i]>>

\* Records that answer the query and had a healthy server all along.
Dependable(labels) == {x \in steady : x.label \in labels /\ x.type \in {"CNAME", query.type}}

(* While some label the query may be answered from, for any of the targets *)
(* or through an alias, keeps a healthy server, the query gets an answer,  *)
(* whatever happens to the others meanwhile ("so health check filtering    *)
(* won't filter out the 'best' results leaving no others", FindLabels).    *)
SteadyServersAnswer == Replied /\ Dependable(Reached) # {} => sent.answer # None

(* No label is passed over for a less specific one while it keeps a        *)
(* healthy server: the answer was found, itself or through aliases, at a   *)
(* target with no such label of the name for the targets before it.        *)
(* Servers are picked by distance only from a 'closest' label.             *)
MostSpecificFirst ==
    Replied /\ sent.answer \in Matches =>
        /\ sent.near => zone[sent.answer.label].closest
        /\ \E i \in DOMAIN targets :
            /\ Own(i) \in DOMAIN zone
            /\ \/ sent.answer.label = Own(i)
               \/ zone[Own(i)].mf # None /\ sent.answer.label[1] \in Via(zone[Own(i)].mf)
            /\ \A j \in 1..(i - 1) : Dependable({Own(j)}) = {}

\* What FindLabels can find: a label of the name itself, or of one it is an
\* alias of; or, for one of the targets, a record of the type asked for or a
\* CNAME.
Findable ==
    \/ \E n \in Via(query.name) : <<n, "@">> \in DOMAIN zone
    \/ \E l \in Reached : zone[l].types \cap {"CNAME", query.type} # {}

(* A query gets NXDOMAIN exactly when FindLabels can find nothing and it   *)
(* is no debug query, whatever the aliases and the health of the servers;  *)
(* and every empty answer carries the SOA record that lets it be cached.   *)
(* So a name with a label of its own always exists ("to make sure we       *)
(* return 'noerror' instead of 'nxdomain' when appropriate", FindLabels).  *)
(* A name that has labels for targets only is looked up by type: of        *)
(* www.us, with an A record and no www beside it, a TXT query for www from *)
(* there is told that www does not exist, and one for A is answered.       *)
NegativeSound ==
    Replied =>
        /\ sent.rcode = "NXDOMAIN" <=> ~ Findable /\ ~ DebugQuery
        /\ sent.soa <=> sent.answer = None

(* Only a city database that was missing when the zone was loaded can make *)
(* a query panic: whatever targeting needs a location, loading the zone    *)
(* has opened the database (GetLocation does not).                         *)
PanicsOnlyWithoutDB == pc = "panic" => ~ geo.cityDB

(* The targets a _country query shows, found with an address the first     *)
(* call has changed, are those used to find an answer, in that order: only *)
(* that of the whole IPv4 address, the first, may be missing.              *)
ShowsTargets ==
    sent # None /\ sent.shown # None =>
        \/ sent.shown = targets
        \/ client.ip = "v4" /\ targets = <<"ip">> \o sent.shown

=============================================================================
