---------------------------- MODULE LogProcessor ----------------------------
(***************************************************************************)
(* geodns-logs (geodns-logs/process-stats.go, stats.go): the program that  *)
(* counts the queries of a query log, following a log that grows and is    *)
(* rotated (main) or reading one file to its end (processFile).  What      *)
(* reads the file hands line after line to the goroutine that counts       *)
(* (processChan) over an unbuffered channel.                               *)
(*                                                                         *)
(* The log is one sequence of lines, cut into files: a file is known by    *)
(* the number of lines written before it.  To follow the log is to tail    *)
(* its path (hpcloud/tail, with ReOpen and Poll): at the end of the open   *)
(* file a watcher compares what is at the path with what it found there    *)
(* when it was started.  The only error modelled is a missing file.        *)
(*                                                                         *)
(* Of an entry, key stands for what Stats.Key makes of it, and result for  *)
(* its Rcode and its number of answers.  Garbled is a line that is not an  *)
(* entry.                                                                  *)
(***************************************************************************)
EXTENDS Integers, Sequences, FiniteSets

CONSTANTS
    Keys,       \* what is counted apart
    Garbled

Results == {"answers", "none", "error"}
Entries == [key : Keys, result : Results]

ASSUME LogAssumption == Garbled \notin Entries

NoFile == -1

VARIABLES
    lines,      \* all lines written to the query log
    starts,     \* its files
    path,       \* the file at its path, or NoFile
    follow,     \* the program follows the log
    opened,     \* the file it has open
    read,       \* number of the line read last
    watched,    \* the file the watcher found at the path; NoFile without one
    handed,     \* history: the numbers of the lines handed over
    producer,   \* where tail and main, or processFile, are
    consumer,   \* where processChan is
    e,          \* the line being handled
    Count,      \* stats.Count
    Map         \* stats.Map, by key

logVars == <<lines, starts, path>>
tailVars == <<opened, read, watched, handed>>
countVars == <<consumer, e, Count, Map>>
statsVars == <<follow, tailVars, producer, countVars>>

LogProcessorInit ==
    /\ lines = <<>>
    /\ starts = {}
    /\ path = NoFile
    /\ follow \in BOOLEAN
    /\ opened = NoFile
    /\ read = 0
    /\ watched = NoFile
    /\ handed = <<>>
    /\ producer = "open"
    /\ consumer = "range"
    /\ e = Garbled
    /\ Count = 0
    /\ Map = [k \in Keys |-> 0]

\* The file is opened, and read from its start; tail waits for it to exist.
Open ==
    /\ producer = "open"
    /\ path # NoFile
    /\ opened' = path
    /\ read' = path
    /\ producer' = "lines"
    /\ UNCHANGED <<follow, watched, handed, countVars>>

\* processFile returns the error.
OpenFails ==
    /\ ~ follow
    /\ producer = "open"
    /\ path = NoFile
    /\ producer' = "done"
    /\ UNCHANGED <<follow, tailVars, countVars>>

\* The open file has another line.
HasLine == read < Len(lines) /\ read \notin starts \ {opened}

\* in <- line: both sides meet.
HandOver ==
    /\ producer = "lines"
    /\ consumer = "range"
    /\ HasLine
    /\ read' = read + 1
    /\ handed' = Append(handed, read')
    /\ e' = lines[read']
    /\ consumer' = "line"
    /\ UNCHANGED <<follow, opened, watched, producer, Count, Map>>

\* processFile has come to the end of the file: close(in), then wg.Wait().
EndOfFile ==
    /\ ~ follow
    /\ producer = "lines"
    /\ ~ HasLine
    /\ producer' = "wait"
    /\ UNCHANGED <<follow, tailVars, countVars>>

\* tail has come to the end of the file, and starts a watcher unless there is
\* one.  If the path is missing just then (ChangeEvents), tail gives up, and
\* main returns.
Watch ==
    /\ follow
    /\ producer = "lines"
    /\ ~ HasLine
    /\ watched' = IF watched = NoFile THEN path ELSE watched
    /\ producer' = IF watched' = NoFile THEN "ended" ELSE "watch"
    /\ UNCHANGED <<follow, opened, read, handed, countVars>>

\* The file has grown, and the watcher said so.
Modified ==
    /\ producer = "watch"
    /\ HasLine
    /\ producer' = "lines"
    /\ UNCHANGED <<follow, tailVars, countVars>>

\* Another file, or none, is at the path: the open one is closed, whether or
\* not it has lines that were not read.
Deleted ==
    /\ producer = "watch"
    /\ path # watched
    /\ watched' = NoFile
    /\ producer' = "open"
    /\ UNCHANGED <<follow, opened, read, handed, countVars>>

\* The watcher was started on another file than the open one, and takes it for
\* a truncated one if it is shorter.  It goes on watching.
Truncated ==
    /\ producer = "watch"
    /\ path = watched
    /\ opened # watched
    /\ producer' = "open"
    /\ UNCHANGED <<follow, tailVars, countVars>>

AddAll(x) ==
    /\ Count' = Count + 1
    /\ Map' = [Map EXCEPT ![x.key] = @ + 1]

\* Stats.Add: errors and empty answers are not counted.
Add(x) ==
    IF x.result = "answers"
    THEN /\ Count' = Count + 1
         /\ Map' = [Map EXCEPT ![x.key] = @ + 1]
    ELSE UNCHANGED <<Count, Map>>

\* A line that cannot be decoded ends processChan; wg.Done() is not called.  The
\* end of main ends it as well.
ProcessLine ==
    /\ consumer = "line"
    /\ producer # "ended"
    /\ IF e = Garbled
       THEN consumer' = "gone" /\ UNCHANGED <<Count, Map>>
       ELSE consumer' = "range" /\ Add(e)
    /\ UNCHANGED <<follow, tailVars, producer, e>>

\* The channel is closed and empty: wg.Done(), and processFile returns.
ChannelClosed ==
    /\ producer = "wait"
    /\ consumer = "range"
    /\ consumer' = "done"
    /\ producer' = "done"
    /\ UNCHANGED <<follow, tailVars, e, Count, Map>>

ProcessLog ==
    /\ \/ Open \/ OpenFails \/ HandOver \/ EndOfFile
       \/ Watch \/ Modified \/ Deleted
       \/ ProcessLine \/ ChannelClosed
    /\ UNCHANGED logVars

-----------------------------------------------------------------------------
ProcessorTypeOK ==
    /\ lines \in Seq(Entries \cup {Garbled})
    /\ starts \subseteq 0 .. Len(lines)
    /\ path \in starts \cup {NoFile}
    /\ follow \in BOOLEAN
    /\ opened \in starts \cup {NoFile}
    /\ read \in 0 .. Len(lines)
    /\ watched \in starts \cup {NoFile}
    /\ handed \in Seq(1 .. Len(lines))
    /\ producer \in {"open", "lines", "watch", "wait", "done", "ended"}
    /\ consumer \in {"range", "line", "gone", "done"}
    /\ e \in Entries \cup {Garbled}
    /\ Count \in Nat
    /\ Map \in [Keys -> Nat]

\* The number of lines processChan is done with.
Handled == IF consumer \in {"line", "gone"} THEN Len(handed) - 1 ELSE Len(handed)

\* Those of the first n lines handed over that are counted, and those counted
\* under k.
Line(i) == lines[handed[i]]
Answered(n) == {i \in 1 .. n : Line(i) # Garbled /\ Line(i).result = "answers"}
AnsweredFor(k, n) == {i \in Answered(n) : Line(i).key = k}

(* At every moment the counts are those of the entries with answers among  *)
(* the lines handled, each counted once: Add() neither counts an error nor *)
(* an empty answer, and the line that is handed over next is not counted   *)
(* before it is decoded.  The line that cannot be decoded is the last one  *)
(* taken; no line after it is ever counted.  And each file is read from    *)
(* its start, line by line: rotation may cost the last lines of a file,    *)
(* and never one between two of its lines that are counted.                *)
CountsLines ==
    /\ Count = Cardinality(Answered(Handled))
    /\ \A k \in Keys : Map[k] = Cardinality(AnsweredFor(k, Handled))
    /\ \A i \in 1 .. Handled : Line(i) # Garbled
    /\ \A i \in 1 .. Len(handed) :
          handed[i] - 1 \in starts \/ (i > 1 /\ handed[i] = handed[i - 1] + 1)

Legible == \A i \in DOMAIN lines : lines[i] # Garbled

=============================================================================
