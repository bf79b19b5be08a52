--------------------------- MODULE ConfigWatcher ----------------------------
(***************************************************************************)
(* The configuration geodns.conf (config.go).  main() reads it once; then  *)
(* a goroutine watches its directory (fsnotify), and reads the file again  *)
(* 200 ms after an event that may mean an update.  HTTP requests read the  *)
(* user and the password from it (http.go).                                *)
(*                                                                         *)
(* configReader() compares the file's modification time with the time of   *)
(* its own last reading, takes the time, and only then reads the file: the *)
(* file may change between any two of these.  The modification times have  *)
(* the resolution of a tick, and a tick may see several changes.           *)
(* The fields of the configuration are represented by two of them, which   *)
(* the copy into Config sets one after the other.                          *)
(***************************************************************************)
EXTENDS Naturals, Sequences

CONSTANTS
    Configs,    \* what the file may contain
    Parsable,   \* the contents gcfg accepts
    NoConfig,   \* no file; and the configuration before any was read
    Requests    \* the goroutines of HTTP requests

ASSUME ConfigAssumption == Parsable \subseteq Configs /\ NoConfig \notin Configs

VARIABLES
    conf,           \* the file
    confClock,      \* the time, in ticks
    had,            \* history: the contents the file has had
    heard,          \* history: its last change is one configWatcher hears of
    events,         \* what the watcher has yet to hand over
    watching,
    reader,         \* where configWatcher, or main() before it, is
    lastReadConfig,
    cfg,            \* the configuration just parsed
    Config,
    auth            \* the requests: where they are, and what they read

fileVars == <<conf, confClock, had, heard, events>>
configVars == <<fileVars, watching, reader, lastReadConfig, cfg, Config, auth>>

ConfigInit ==
    /\ \E c \in Configs \cup {NoConfig} :
          /\ conf = [content |-> c, mtime |-> 1]
          /\ had = {c, NoConfig}
    /\ confClock = 1
    /\ heard = TRUE
    /\ events = <<>>
    /\ watching = FALSE
    /\ reader = "stat"
    /\ lastReadConfig = 0
    /\ cfg = NoConfig
    /\ Config = [user |-> NoConfig, password |-> NoConfig]
    /\ auth = [r \in Requests |-> [at |-> "idle", user |-> NoConfig, password |-> NoConfig]]

\* The events that make configWatcher call configReader.
Relevant(op) == op \in {"Write", "Rename", "Chmod"}

-----------------------------------------------------------------------------
(* What is done to the file, and the events that reach the watcher.        *)

\* The change is made in the current tick, or in a later one.
ChangeConf(c, op, t) ==
    /\ confClock' \in {confClock, confClock + 1}
    /\ conf' = [content |-> c, mtime |-> IF t = "now" THEN confClock' ELSE conf.mtime]
    /\ had' = had \cup {c}
    /\ events' = IF watching THEN Append(events, op) ELSE events
    /\ UNCHANGED <<watching, reader, lastReadConfig, cfg, Config, auth>>

\* Updated directly: the file gets longer or shorter step by step.
WriteConf(c) ==
    /\ conf.content # NoConfig
    /\ ChangeConf(c, "Write", "now")
    /\ heard' = (watching /\ conf'.mtime > lastReadConfig)

\* touch: an event of the attributes.
TouchConf ==
    /\ conf.content # NoConfig
    /\ ChangeConf(conf.content, "Chmod", "now")
    /\ heard' = (heard \/ (watching /\ conf'.mtime > lastReadConfig))

\* Another file, new or of the age of this one, gets its name: an event that
\* configWatcher ignores, so that the file is read only when it looks at it
\* because of another one.
ReplaceConf(c, t) ==
    /\ ChangeConf(c, "Create", t)
    /\ heard' = FALSE

\* The file is renamed to another name, as an editor does before it writes a
\* new one.
MoveConf ==
    /\ conf.content # NoConfig
    /\ ChangeConf(NoConfig, "Rename", "then")
    /\ UNCHANGED heard

EditConf ==
    \/ TouchConf \/ MoveConf
    \/ \E c \in Configs : WriteConf(c) \/ \E t \in {"now", "then"} : ReplaceConf(c, t)

-----------------------------------------------------------------------------
\* fsnotify drops the event of a file that is gone, unless it is the rename.
DropEvent ==
    /\ events # <<>>
    /\ Head(events) # "Rename"
    /\ conf.content = NoConfig
    /\ events' = Tail(events)
    /\ UNCHANGED <<conf, confClock, had, heard, watching, reader, lastReadConfig, cfg, Config, auth>>

\* An event of the file; 200 ms later configReader is called.
TakeEvent ==
    /\ watching /\ reader = "select"
    /\ events # <<>>
    /\ events' = Tail(events)
    /\ reader' = IF Relevant(Head(events)) THEN "stat" ELSE "select"
    /\ UNCHANGED <<conf, confClock, had, heard, watching, lastReadConfig, cfg, Config, auth>>

\* configReader returns: to the watcher's loop, or to main(), which starts it.
Returned == IF watching THEN "select" ELSE "start"

\* Adding the watch may fail, and ends the goroutine.
StartWatcher ==
    /\ reader = "start"
    /\ \/ watching' = TRUE /\ reader' = "select"
       \/ watching' = FALSE /\ reader' = "gone"
    /\ UNCHANGED <<fileVars, lastReadConfig, cfg, Config, auth>>

Newer == conf.content # NoConfig /\ conf.mtime > lastReadConfig

StatConf ==
    /\ reader = "stat"
    /\ reader' = IF Newer THEN "stamp" ELSE Returned
    /\ UNCHANGED <<fileVars, watching, lastReadConfig, cfg, Config, auth>>

\* lastReadConfig = time.Now()
StampConf ==
    /\ reader = "stamp"
    /\ lastReadConfig' = confClock
    /\ reader' = "parse"
    /\ UNCHANGED <<fileVars, watching, cfg, Config, auth>>

ParseConf ==
    /\ reader = "parse"
    /\ IF conf.content \in Parsable
       THEN cfg' = conf.content /\ reader' = "lock"
       ELSE UNCHANGED cfg /\ reader' = Returned
    /\ UNCHANGED <<fileVars, watching, lastReadConfig, Config, auth>>

NoLock == TRUE

\* cfgMutex.Lock() waits for the readers; a waiting writer keeps new ones out.
CanLock == \A r \in Requests : auth[r].at = "idle"

\* *Config = *cfg
CopyUser ==
    /\ reader = "lock"
    /\ CanLock
    /\ Config' = [Config EXCEPT !.user = cfg]
    /\ reader' = "copy"
    /\ UNCHANGED <<fileVars, watching, lastReadConfig, cfg, auth>>

\* The time is taken when the reading is over.
CopyAndStamp ==
    /\ reader = "copy"
    /\ Config' = [Config EXCEPT !.password = cfg]
    /\ lastReadConfig' = confClock
    /\ reader' = Returned
    /\ UNCHANGED <<fileVars, watching, cfg, auth>>

CopyPassword ==
    /\ reader = "copy"
    /\ Config' = [Config EXCEPT !.password = cfg]
    /\ reader' = Returned
    /\ UNCHANGED <<fileVars, watching, lastReadConfig, cfg, auth>>

\* basicauth.ServeHTTP: both are read under cfgMutex.RLock().
ReadUser(r) ==
    /\ reader \notin {"lock", "copy"}
    /\ auth[r].at = "idle"
    /\ auth' = [auth EXCEPT ![r] = [@ EXCEPT !.at = "user", !.user = Config.user]]
    /\ UNCHANGED <<fileVars, watching, reader, lastReadConfig, cfg, Config>>

ReadPassword(r) ==
    /\ auth[r].at = "user"
    /\ auth' = [auth EXCEPT ![r] = [@ EXCEPT !.at = "idle", !.password = Config.password]]
    /\ UNCHANGED <<fileVars, watching, reader, lastReadConfig, cfg, Config>>

ReadConfig ==
    \/ TakeEvent \/ StartWatcher \/ StatConf \/ StampConf \/ ParseConf
    \/ CopyUser \/ CopyPassword

ConfigStep ==
    \/ ReadConfig \/ DropEvent
    \/ \E r \in Requests : ReadUser(r) \/ ReadPassword(r)

ConfigNext == EditConf \/ ConfigStep

ConfigSpec == ConfigInit /\ [][ConfigNext]_configVars

-----------------------------------------------------------------------------
ReaderSteps == {"start", "select", "stat", "stamp", "parse", "lock", "copy", "gone"}
AnyConfig == Configs \cup {NoConfig}

ConfigTypeOK ==
    /\ conf \in [content : AnyConfig, mtime : Nat]
    /\ confClock \in Nat
    /\ had \subseteq AnyConfig
    /\ heard \in BOOLEAN
    /\ events \in Seq({"Write", "Chmod", "Create", "Rename"})
    /\ watching \in BOOLEAN
    /\ reader \in ReaderSteps
    /\ lastReadConfig \in Nat
    /\ cfg \in AnyConfig
    /\ Config \in [user : AnyConfig, password : AnyConfig]
    /\ auth \in [Requests -> [at : {"idle", "user"}, user : AnyConfig, password : AnyConfig]]

(* The user and the password a request is checked against come from one    *)
(* version of the file, one that could be parsed, though the file is read  *)
(* again meanwhile: never the user of one and the password of another.     *)
CredentialsPaired ==
    \A r \in Requests :
        auth[r].at = "idle" =>
            /\ auth[r].user = auth[r].password
            /\ auth[r].user \in (Parsable \cap had) \cup {NoConfig}

\* The content of the file is in use, if it can be parsed and was there at the
\* start, or was then written directly or touched, while the directory was
\* watched and with a time after that of the last reading.
InUse ==
    conf.content \in Parsable /\ heard
        => Config = [user |-> conf.content, password |-> conf.content]

=============================================================================
