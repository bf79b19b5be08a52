----------------------------- MODULE QueryStats -----------------------------
(***************************************************************************)
(* How a query is accounted for: serve() (server/serve.go) adds its label  *)
(* to the zone's ring of recent labels (LabelStats) when it arrives, and   *)
(* writes an entry to the query log (querylog/querylog.go) when it         *)
(* returns; geodns-logs counts the entries (LogProcessor).  Queries are    *)
(* served in goroutines of their own, so the order of the log need not be  *)
(* that of the ring.  A line that would make the log too large first has   *)
(* the file renamed and a new one created (lumberjack); what is too large  *)
(* is left open.                                                           *)
(***************************************************************************)
EXTENDS LabelStats, LogProcessor

CONSTANTS
    MaxServing, \* bound on the queries served at a time
    MaxLines,   \* bound on the lines of the log
    MaxFiles    \* bound on its files

ASSUME QueryStatsAssumption ==
    MaxServing \in Nat /\ MaxLines \in Nat /\ MaxFiles \in Nat

VARIABLES
    logging,    \* srv.queryLogger is set
    serving,    \* number of goroutines that serve a query
    replied     \* history: the replies with answers that were logged, by key

queryVars == <<logVars, logging, serving, replied>>
allVars == <<vars, statsVars, queryVars>>

QueryStatsInit ==
    /\ NewZoneLabelStats
    /\ LogProcessorInit
    /\ logging \in BOOLEAN
    /\ serving = 0
    /\ replied = [k \in Keys |-> 0]

\* A new entry if there is a log, and LabelStats.Add.
Arrive(l) ==
    /\ serving < MaxServing
    /\ serving + Len(lines) < MaxLines
    /\ add(l)
    /\ serving' = serving + 1
    /\ UNCHANGED <<logVars, logging, replied, statsVars>>

\* The entry is written before its result is set.
LoggedBefore(k, r) == [key |-> k, result |-> "none"]

\* The deferred calls run last one first: Rcode and Answers are set from the
\* reply, then the entry is written.
Logged(k, r) == [key |-> k, result |-> r]

\* serve() returns, having replied with r to a query counted under k.
Return(k, r) ==
    /\ serving > 0
    /\ serving' = serving - 1
    /\ IF logging
       THEN /\ path # NoFile
            /\ lines' = Append(lines, Logged(k, r))
            /\ replied' = [replied EXCEPT ![k] = IF r = "answers" THEN @ + 1 ELSE @]
       ELSE UNCHANGED <<lines, replied>>
    /\ UNCHANGED <<vars, statsVars, starts, path, logging>>

\* The line is not written, or not whole, as when the disk is full.
WriteFails ==
    /\ serving > 0
    /\ logging
    /\ serving' = serving - 1
    /\ \/ UNCHANGED lines
       \/ path # NoFile /\ lines' = Append(lines, Garbled)
    /\ UNCHANGED <<vars, statsVars, starts, path, logging, replied>>

\* Writing an entry, the server moves a file that is too large out of the way.
RenameLog ==
    /\ serving > 0
    /\ logging
    /\ path # NoFile
    /\ path < Len(lines)
    /\ Cardinality(starts) < MaxFiles
    /\ path' = NoFile
    /\ UNCHANGED <<vars, statsVars, lines, starts, logging, serving, replied>>

\* It creates the file it writes to.
CreateLog ==
    /\ serving > 0
    /\ logging
    /\ path = NoFile
    /\ path' = Len(lines)
    /\ starts' = starts \cup {path'}
    /\ UNCHANGED <<vars, statsVars, lines, logging, serving, replied>>

CountLog == ProcessLog /\ UNCHANGED <<vars, logging, serving, replied>>

QueryStatsNext ==
    \/ \E l \in Labels : Arrive(l)
    \/ \E k \in Keys, r \in Results : Return(k, r)
    \/ WriteFails \/ RenameLog \/ CreateLog
    \/ (Reset \/ Close) /\ UNCHANGED <<statsVars, queryVars>>
    \/ CountLog
    \/ Truncated /\ UNCHANGED <<vars, queryVars>>

QueryStatsSpec == QueryStatsInit /\ [][QueryStatsNext]_allVars

\* geodns-logs runs on.  Whether a file is ever taken for truncated is open.
FairQueryStatsSpec == QueryStatsSpec /\ WF_allVars(CountLog)

-----------------------------------------------------------------------------
\* All lines of the file at the path have been counted.
UpToDate ==
    /\ \A i \in path + 1 .. Len(lines) : \E j \in DOMAIN handed : handed[j] = i
    /\ consumer = "range"

(* Unless a line of the log is garbled, and as long as the log is not      *)
(* rotated, every query that was answered and logged ends up counted, once *)
(* and under its key, when the log is followed; and reading a file to its  *)
(* end comes to an end.  The entries are written when the reply is known,  *)
(* by goroutines in any order.                                             *)
(*                                                                         *)
(* Rotation may lose lines: those of the old file written after its end    *)
(* was last reached; and those of the new one for as long as the watcher,  *)
(* started after the rotation, waits for that file to change while the old *)
(* one is open.  geodns-logs ends if it looks for the path between the     *)
(* renaming and the creation.  Otherwise all lines of the file that is now *)
(* at the path end up counted.                                             *)
LogCounted ==
    <>[](Legible =>
           IF follow
           THEN /\ starts = {} \/ path = 0 => Map = replied
                /\ \/ path = NoFile \/ producer = "ended"
                   \/ watched = path /\ opened # path
                   \/ UpToDate
           ELSE producer = "done")

=============================================================================
