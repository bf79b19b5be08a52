------------------------------- MODULE Daemon -------------------------------
(***************************************************************************)
(* main() of the server (geodns.go) from the opening of its log file to    *)
(* the signal that stops it, with the goroutines it starts for the log     *)
(* (AppLog) and for the configuration (ConfigWatcher), and HTTP requests.  *)
(* The process ends with main(), wherever the others are.                  *)
(***************************************************************************)
EXTENDS AppLog, ConfigWatcher

CONSTANT MaxEdits   \* bound on rotations and changes of the configuration

ASSUME DaemonAssumption == MaxEdits \in Nat

VARIABLES
    main,       \* where main() is
    edits       \* number of rotations and changes

daemonVars == <<logVars, configVars, main, edits>>

DaemonInit ==
    /\ LogInit
    /\ ConfigInit
    /\ main = "log"
    /\ edits = 0

\* A log file is optional.
OpenLog ==
    /\ main = "log"
    /\ FileOpen \/ UNCHANGED logVars
    /\ main' = "config"
    /\ UNCHANGED <<configVars, edits>>

\* configReader has returned to main(); the watcher, the DNS servers and the
\* HTTP server are started.
Serve ==
    /\ main = "config"
    /\ watching \/ reader \in {"start", "gone"}
    /\ main' = "serve"
    /\ UNCHANGED <<logVars, configVars, edits>>

\* <-terminate, and applog.FileClose() if there is a log file.
Terminate ==
    /\ main = "serve"
    /\ IF monitor = "none" THEN UNCHANGED logVars ELSE FileClose
    /\ main' = "stop"
    /\ UNCHANGED <<configVars, edits>>

\* FileClose has been answered, and main() returns.
Exit ==
    /\ main = "stop"
    /\ monitor # "none" => closing = "done"
    /\ main' = "exit"
    /\ UNCHANGED <<logVars, configVars, edits>>

Running == main \notin {"log", "exit"}

LogFile == Running /\ (Printf \/ Monitor) /\ UNCHANGED <<configVars, main, edits>>

Configure == Running /\ (ReadConfig \/ DropEvent) /\ UNCHANGED <<logVars, main, edits>>

HTTP ==
    /\ main \in {"serve", "stop"}
    /\ \E r \in Requests : ReadUser(r) \/ ReadPassword(r)
    /\ UNCHANGED <<logVars, main, edits>>

Edit ==
    /\ main # "exit"
    /\ edits < MaxEdits
    /\ edits' = edits + 1
    /\ \/ RotateLog /\ UNCHANGED configVars
       \/ EditConf /\ UNCHANGED logVars
    /\ UNCHANGED main

\* The process has ended.
Ended == main = "exit" /\ UNCHANGED daemonVars

DaemonNext ==
    \/ OpenLog \/ Serve \/ Terminate \/ Exit
    \/ LogFile \/ Configure \/ HTTP \/ Edit \/ Ended

DaemonSpec == DaemonInit /\ [][DaemonNext]_daemonVars

-----------------------------------------------------------------------------
Do(A) == Running /\ A /\ UNCHANGED <<configVars, main, edits>>

\* Goroutines run on; no signal need come.  Go's select chooses at random among
\* the cases that are ready, and a log file that is missing can be opened in the
\* end: these are the strong ones.
FairDaemonSpec ==
    /\ DaemonSpec
    /\ WF_daemonVars(OpenLog)
    /\ WF_daemonVars(Serve)
    /\ WF_daemonVars(Exit)
    /\ WF_daemonVars(Configure)
    /\ \A r \in Requests :
          WF_daemonVars(Running /\ ReadPassword(r) /\ UNCHANGED <<logVars, main, edits>>)
    /\ WF_daemonVars(Do(StatLog /\ Rotated))
    /\ SF_daemonVars(Do(OpenNewFile))
    /\ WF_daemonVars(Do(SetOutput))
    /\ WF_daemonVars(Do(CloseOldFile))
    /\ SF_daemonVars(Do(CloseRequested))
    /\ WF_daemonVars(Do(CloseLogFile))

(* The configuration is reloaded at runtime (the repository's README.md    *)
(* says that it "is not"): when the file stops changing after a direct     *)
(* write or a touch ("Write = when the file is updated directly", "Chmod = *)
(* for `touch`", config.go), its content is in use for as long as the      *)
(* server runs, whatever events were dropped or came while it was read.    *)
(* Nothing is said of a file renamed into place, though the same comment   *)
(* has "Rename = when it's updated atomicly": that is the event of a file  *)
(* moved away, and the new one's event, Create, is ignored.  Nor of a      *)
(* change in the tick of the last reading, or before the watch is set up.  *)
ConfigFollows == <>[](main = "exit" \/ InUse)

(* A signal stops the server: FileClose hands its request to the monitor,  *)
(* which may be rotating the log at that moment, and is answered.          *)
Stops == main = "stop" ~> main = "exit"

=============================================================================
