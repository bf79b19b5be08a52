---------------------------- MODULE ZoneServing -----------------------------
(***************************************************************************)
(* Queries being served (server/server.go, server/serve.go) while the zone *)
(* manager reloads and removes zones (ZoneReload).                         *)
(*                                                                         *)
(* The DNS library runs the handler of each query in a goroutine of its    *)
(* own.  The mux hands the query to the handler registered at that moment, *)
(* a closure over one zone object, and serve() keeps using that object:    *)
(* it counts the query in the zone's two rings of statistics and answers   *)
(* from its labels.  A ring that Close() has emptied has no slot to write  *)
(* to: the next add() indexes out of range.  Nothing recovers the panic,   *)
(* which ends the process.                                                 *)
(***************************************************************************)
EXTENDS ZoneReload

CONSTANT Queries    \* goroutines serving a query, each one query at a time

ASSUME QueriesAssumption == None \notin Queries

VARIABLES
    at,         \* where the goroutine is in serve()
    handling,   \* the zone its query is for
    object,     \* the zone object its handler was registered with
    panicked    \* the process has ended

queryVars == <<at, handling, object, panicked>>
servingVars == <<vars, queryVars>>

ServingInit ==
    /\ Init
    /\ at = [q \in Queries |-> "idle"]
    /\ handling = [q \in Queries |-> None]
    /\ object = [q \in Queries |-> NoZone]
    /\ panicked = FALSE

\* ServeMux.ServeDNS finds the handler of the zone under its read lock.  An
\* address in the name of the query (z.ParseIP) is answered without counting.
Match(q, z) ==
    /\ up
    /\ at[q] = "idle"
    /\ mux[z] # NoZone
    /\ \E first \in {"label", "answer"} : at' = [at EXCEPT ![q] = first]
    /\ handling' = [handling EXCEPT ![q] = z]
    /\ object' = [object EXCEPT ![q] = mux[z]]
    /\ UNCHANGED <<panicked, vars>>

IsClosed(q) == object[q].stats <= closed[handling[q]]

\* z.Metrics.LabelStats.Add, then z.Metrics.ClientStats.Add.
CountIn(q, ring, next) ==
    /\ at[q] = ring
    /\ IF IsClosed(q)
       THEN panicked' = TRUE /\ UNCHANGED at
       ELSE at' = [at EXCEPT ![q] = next] /\ UNCHANGED panicked
    /\ UNCHANGED <<handling, object, vars>>

CountLabel(q) == CountIn(q, "label", "client")
CountClient(q) == CountIn(q, "client", "answer")

\* The rest of serve() reads only the zone object.
Answer(q) ==
    /\ at[q] = "answer"
    /\ at' = [at EXCEPT ![q] = "idle"]
    /\ handling' = [handling EXCEPT ![q] = None]
    /\ object' = [object EXCEPT ![q] = NoZone]
    /\ UNCHANGED <<panicked, vars>>

Serve(q) ==
    \/ \E z \in Zones : Match(q, z)
    \/ CountLabel(q)
    \/ CountClient(q)
    \/ Answer(q)

ServingNext ==
    \/ ~ panicked /\ \E q \in Queries : Serve(q)
    \/ ~ panicked /\ Next /\ UNCHANGED queryVars

ServingSpec == ServingInit /\ [][ServingNext]_servingVars

-----------------------------------------------------------------------------
ServingTypeOK ==
    /\ at \in [Queries -> {"idle", "label", "client", "answer"}]
    /\ handling \in [Queries -> Zones \cup {None}]
    /\ \A q \in Queries : at[q] # "idle" => handling[q] \in Zones
    /\ object \in [Queries -> ZoneObjects]
    /\ panicked \in BOOLEAN

(* A query that is being served counts in the ring of the zone registered  *)
(* now, however often the zone has been reloaded since the query was       *)
(* matched, unless that ring has been closed: SetupMetrics hands the rings *)
(* of a zone over to its replacement, so a reload neither closes a ring in *)
(* use nor loses counts in an orphaned one.                                *)
InFlightSharesStats ==
    \A q \in Queries :
        at[q] # "idle" =>
            \/ object[q].stats = mux[handling[q]].stats
            \/ IsClosed(q)

(* Serving never ends the process.  This holds for as long as no zone file *)
(* is removed, and fails when one is: reload() closes the zone before it   *)
(* deregisters it, and waits for no query (CHANGES: "De-configure zones    *)
(* when the .json file is removed").                                       *)
NeverPanics == ~ panicked

=============================================================================
