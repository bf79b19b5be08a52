------------------------------- MODULE AppLog -------------------------------
(***************************************************************************)
(* The log file of the server (applog/log.go).  main() opens it, a monitor *)
(* goroutine looks every five seconds whether the file has been rotated    *)
(* away (it is missing, or empty) and then opens it anew, and main() has   *)
(* the monitor close it when the server is told to stop.  All the other    *)
(* goroutines go on logging meanwhile: each line goes to whatever is the   *)
(* output of the standard logger at that moment.                           *)
(*                                                                         *)
(* Files and descriptors are numbered as they are made; a file keeps its   *)
(* number when it is renamed.  Of the size of a file it matters whether it *)
(* is zero.  The standard logger writes a line, and changes its output,    *)
(* under a lock of its own: each is a step.                                *)
(***************************************************************************)
EXTENDS Naturals, Sequences

NoFile == 0     \* no file at the path of the log
Stderr == 0     \* the output when no log file is open

VARIABLES
    path,       \* the file at ltf.fn
    made,       \* number of files made
    written,    \* the files that are not empty
    opened,     \* opened[d]: the file that descriptor d was opened on
    openFds,    \* the descriptors that are open
    output,     \* the output of the standard logger
    ltfFile,    \* ltf.file
    newFile,    \* f, in the monitor
    monitor,    \* where logToFileMonitor is
    closing     \* where FileClose is

logFiles == <<path, made, written>>
logVars == <<logFiles, opened, openFds, output, ltfFile, newFile, monitor, closing>>

LogInit ==
    /\ \E n \in {0, 1} : path = n /\ made = n
    /\ \E w \in SUBSET {1} : written = w \cap {path}
    /\ opened = <<>>
    /\ openFds = {}
    /\ output = Stderr
    /\ ltfFile = Stderr
    /\ newFile = Stderr
    /\ monitor = "none"
    /\ closing = "no"

-----------------------------------------------------------------------------
(* Log rotation, by another program.                                       *)

rotated == UNCHANGED <<opened, openFds, output, ltfFile, newFile, monitor, closing>>

\* The file is renamed or removed.
RenameLog ==
    /\ path # NoFile
    /\ path' = NoFile
    /\ rotated
    /\ UNCHANGED <<made, written>>

\* The file is renamed and an empty one takes its place.
RecreateLog ==
    /\ path # NoFile
    /\ made' = made + 1
    /\ path' = made'
    /\ rotated
    /\ UNCHANGED written

\* The file is copied and truncated.
TruncateLog ==
    /\ path # NoFile
    /\ written' = written \ {path}
    /\ rotated
    /\ UNCHANGED <<path, made>>

RotateLog == RenameLog \/ RecreateLog \/ TruncateLog

-----------------------------------------------------------------------------
\* A line goes to an output: the file behind it is not empty any more.
WriteLine(out) ==
    written' = IF out \in openFds THEN written \cup {opened[out]} ELSE written

\* os.OpenFile(fn, O_RDWR|O_CREATE|O_APPEND): makes the file if there is none.
OpenFile ==
    /\ made' = IF path = NoFile THEN made + 1 ELSE made
    /\ path' = IF path = NoFile THEN made' ELSE path
    /\ opened' = Append(opened, path')
    /\ openFds' = openFds \cup {Len(opened')}

\* An error ends the process (log.Fatalf).
FileOpen ==
    /\ monitor = "none"
    /\ OpenFile
    /\ output' = Len(opened')
    /\ ltfFile' = Len(opened')
    /\ written' = written \cup {path'}
    /\ monitor' = "select"
    /\ UNCHANGED <<newFile, closing>>

\* log.Printf, by any goroutine.
Printf ==
    /\ WriteLine(output)
    /\ UNCHANGED <<path, made, opened, openFds, output, ltfFile, newFile, monitor, closing>>

\* An empty file is taken for the one in use.
RotatedIfMissing == path = NoFile

\* os.Stat fails, or the size is 0: "it has rotated".
Rotated == path \notin written

\* Five seconds have passed.
StatLog ==
    /\ monitor = "select"
    /\ monitor' = IF Rotated THEN "open" ELSE "select"
    /\ UNCHANGED <<logFiles, opened, openFds, output, ltfFile, newFile, closing>>

OpenNewFile ==
    /\ monitor = "open"
    /\ OpenFile
    /\ newFile' = Len(opened')
    /\ monitor' = "opened"
    /\ UNCHANGED <<written, output, ltfFile, closing>>

\* The monitor returns when it cannot open the file.
OpenFailsForGood ==
    /\ monitor = "open"
    /\ WriteLine(output)
    /\ monitor' = "done"
    /\ UNCHANGED <<path, made, opened, openFds, output, ltfFile, newFile, closing>>

\* The error is logged to the file in use.
OpenFails ==
    /\ monitor = "open"
    /\ WriteLine(output)
    /\ monitor' = "select"
    /\ UNCHANGED <<path, made, opened, openFds, output, ltfFile, newFile, closing>>

\* The old file is closed while it is still the output.
CloseThenSetOutput ==
    /\ monitor = "opened"
    /\ openFds' = openFds \ {ltfFile}
    /\ monitor' = "set"
    /\ UNCHANGED <<logFiles, opened, output, ltfFile, newFile, closing>>

SetOutput ==
    /\ monitor = "opened"
    /\ output' = newFile
    /\ monitor' = "set"
    /\ UNCHANGED <<logFiles, opened, openFds, ltfFile, newFile, closing>>

\* "Rotating log file", then the old file is closed.
CloseOldFile ==
    /\ monitor = "set"
    /\ WriteLine(output)
    /\ openFds' = openFds \ {ltfFile}
    /\ ltfFile' = newFile
    /\ monitor' = "select"
    /\ UNCHANGED <<path, made, opened, output, newFile, closing>>

\* FileClose: "Closing log file", then the monitor is asked to close it.
FileClose ==
    /\ monitor # "none"
    /\ closing = "no"
    /\ WriteLine(output)
    /\ closing' = "asked"
    /\ UNCHANGED <<path, made, opened, openFds, output, ltfFile, newFile, monitor>>

\* The monitor takes the request: the output is stderr again.
CloseRequested ==
    /\ monitor = "select"
    /\ closing = "asked"
    /\ output' = Stderr
    /\ monitor' = "closing"
    /\ UNCHANGED <<logFiles, opened, openFds, ltfFile, newFile, closing>>

\* The file is closed, FileClose is answered, the monitor returns.
CloseLogFile ==
    /\ monitor = "closing"
    /\ openFds' = openFds \ {ltfFile}
    /\ ltfFile' = Stderr
    /\ monitor' = "done"
    /\ closing' = "done"
    /\ UNCHANGED <<logFiles, opened, output, newFile>>

Monitor ==
    \/ StatLog \/ OpenNewFile \/ OpenFails \/ SetOutput \/ CloseOldFile
    \/ CloseRequested \/ CloseLogFile

LogStep == FileOpen \/ Printf \/ FileClose \/ Monitor

LogNext == RotateLog \/ LogStep

LogSpec == LogInit /\ [][LogNext]_logVars

-----------------------------------------------------------------------------
LogTypeOK ==
    /\ made \in Nat
    /\ path \in 0 .. made
    /\ written \subseteq 1 .. made
    /\ opened \in Seq(1 .. made)
    /\ openFds \subseteq DOMAIN opened
    /\ output \in 0 .. Len(opened)
    /\ ltfFile \in 0 .. Len(opened)
    /\ newFile \in 0 .. Len(opened)
    /\ monitor \in {"none", "select", "open", "opened", "set", "closing", "done"}
    /\ closing \in {"no", "asked", "done"}

(* No line is lost and no descriptor leaked: at every moment the output of *)
(* the logger is an open file, or stderr, though the file is reopened and  *)
(* closed while other goroutines log; between two looks of the monitor the *)
(* only open descriptor is that of the output, and none is open once       *)
(* FileClose has returned, however rotations, failed opens and the close   *)
(* interleave.                                                             *)
OutputOpen ==
    /\ output \in openFds \cup {Stderr}
    /\ monitor = "select" => openFds = {output}
    /\ closing = "done" => openFds = {} /\ output = Stderr

(* When rotations stop, the lines end up in the file at the path of the    *)
(* log (unless it cannot be opened), or in stderr after FileClose.         *)
LogFollowsPath == <>[](output # Stderr => opened[output] = path)

=============================================================================
