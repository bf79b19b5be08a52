-------------------------- MODULE BackgroundProofs --------------------------
(***************************************************************************)
(* Proofs about what the server does beside answering queries, for any     *)
(* number of rotations, edits, requests, hosts and files: its log file and *)
(* its configuration, each by itself and then the server as an             *)
(* implementation of both; and the tester that takes the health of hosts   *)
(* from a file.                                                            *)
(***************************************************************************)
EXTENDS Daemon, HealthTesters, TLAPS

\* Most leaves are first-order reasoning; those with arithmetic cite SMTT(60).
USE ZenonT(60)

(* Which descriptors are open, at each place of the monitor: one, but two  *)
(* from the opening of the new file to the closing of the old one.         *)
FdsOpen ==
    /\ monitor = "none" => openFds = {} /\ output = Stderr /\ closing = "no"
    /\ monitor \in {"select", "open"} =>
          ltfFile = output /\ output # Stderr /\ openFds = {output}
    /\ monitor = "opened" =>
          /\ ltfFile = output /\ output # Stderr
          /\ newFile # Stderr /\ newFile # output
          /\ openFds = {output, newFile}
    /\ monitor = "set" =>
          /\ output = newFile /\ newFile # Stderr /\ ltfFile # newFile
          /\ openFds = {ltfFile, newFile}
    /\ monitor = "closing" => output = Stderr /\ openFds = {ltfFile}
    /\ monitor = "done" => output = Stderr /\ openFds = {}
    /\ closing = "done" => monitor = "done"

LogInv == LogTypeOK /\ FdsOpen

(* The invariant holds before the log file is opened.                      *)
LEMMA LogStart == LogInit => LogInv
BY SMTT(60) DEF LogInit, LogInv, LogTypeOK, FdsOpen, Stderr

(* OpenFile makes one descriptor, different from all the others.           *)
LEMMA OpenFileType ==
    ASSUME LogTypeOK, OpenFile
    PROVE  /\ made' \in Nat /\ path' \in 1 .. made' /\ made <= made'
           /\ opened' \in Seq(1 .. made') /\ Len(opened') = Len(opened) + 1
           /\ openFds' = openFds \cup {Len(opened')}
           /\ openFds' \subseteq DOMAIN opened'
           /\ Len(opened') \notin openFds
<1>1. made' \in Nat /\ path' \in 1 .. made' /\ made <= made'
  BY SMTT(60) DEF LogTypeOK, OpenFile, NoFile
<1>2. opened \in Seq(1 .. made')
  BY <1>1, SMTT(60) DEF LogTypeOK
<1>3. opened' = Append(opened, path') /\ openFds' = openFds \cup {Len(opened')}
  BY DEF OpenFile
<1>4. opened' \in Seq(1 .. made') /\ Len(opened') = Len(opened) + 1
  BY <1>1, <1>2, <1>3, SMTT(60)
<1>5. DOMAIN opened = 1 .. Len(opened) /\ DOMAIN opened' = 1 .. Len(opened')
      /\ Len(opened) \in Nat
  BY <1>2, <1>4, SMTT(60)
<1> QED
  BY <1>1, <1>3, <1>4, <1>5, SMTT(60) DEF LogTypeOK

(* Every rotation and every step of main(), the monitor and the goroutines *)
(* that log keeps the invariant.                                           *)
LEMMA LogInvStep == LogInv /\ [LogNext]_logVars => LogInv'
<1> SUFFICES ASSUME LogInv, [LogNext]_logVars PROVE LogInv'
  OBVIOUS
<1>t. LogTypeOK /\ FdsOpen /\ Len(opened) \in Nat /\ DOMAIN opened = 1 .. Len(opened)
  BY SMTT(60) DEF LogInv, LogTypeOK
<1>w. ASSUME NEW out \in 0 .. Len(opened), WriteLine(out) PROVE written' \subseteq 1 .. made
  <2>1. CASE out \in openFds
    <3>1. opened[out] \in 1 .. made
      BY <1>t, <2>1, SMTT(60) DEF LogTypeOK
    <3> QED
      BY <1>t, <1>w, <2>1, <3>1 DEF LogTypeOK, WriteLine
  <2>2. CASE out \notin openFds
    BY <1>t, <1>w, <2>2 DEF LogTypeOK, WriteLine
  <2> QED
    BY <2>1, <2>2
<1>1. CASE RenameLog
  BY <1>1, <1>t, SMTT(60) DEF RenameLog, rotated, NoFile, LogInv, LogTypeOK, FdsOpen
<1>2. CASE RecreateLog
  <2>1. opened \in Seq(1 .. made')
    BY <1>2, <1>t, SMTT(60) DEF RecreateLog, LogTypeOK
  <2> QED
    BY <1>2, <1>t, <2>1, SMTT(60) DEF RecreateLog, rotated, NoFile, LogInv, LogTypeOK, FdsOpen
<1>3. CASE TruncateLog
  BY <1>3, <1>t DEF TruncateLog, rotated, LogInv, LogTypeOK, FdsOpen
<1>4. CASE FileOpen
  <2>1. OpenFile
    BY <1>4 DEF FileOpen
  <2>2. LogTypeOK'
    <3>1. /\ made' \in Nat /\ path' \in 1 .. made' /\ made <= made'
          /\ opened' \in Seq(1 .. made') /\ Len(opened') = Len(opened) + 1
          /\ openFds' \subseteq DOMAIN opened'
      BY <1>t, <2>1, OpenFileType
    <3>2. written' \subseteq 1 .. made'
      BY <1>4, <1>t, <3>1, SMTT(60) DEF FileOpen, LogTypeOK
    <3> QED
      BY <1>4, <1>t, <3>1, <3>2, SMTT(60) DEF FileOpen, LogTypeOK
  <2>3. FdsOpen'
    BY <1>4, <1>t, <2>1, OpenFileType, SMTT(60) DEF FileOpen, FdsOpen, Stderr
  <2> QED
    BY <2>2, <2>3 DEF LogInv
<1>5. CASE Printf
  BY <1>5, <1>t, <1>w DEF Printf, LogInv, LogTypeOK, FdsOpen
<1>6. CASE FileClose
  BY <1>6, <1>t, <1>w DEF FileClose, LogInv, LogTypeOK, FdsOpen
<1>7. CASE StatLog
  BY <1>7, <1>t DEF StatLog, logFiles, LogInv, LogTypeOK, FdsOpen
<1>8. CASE OpenNewFile
  <2>1. OpenFile
    BY <1>8 DEF OpenNewFile
  <2>2. LogTypeOK'
    BY <1>8, <1>t, <2>1, OpenFileType, SMTT(60) DEF OpenNewFile, LogTypeOK
  <2>3. FdsOpen'
    BY <1>8, <1>t, <2>1, OpenFileType, SMTT(60) DEF OpenNewFile, FdsOpen, Stderr
  <2> QED
    BY <2>2, <2>3 DEF LogInv
<1>9. CASE OpenFails
  BY <1>9, <1>t, <1>w DEF OpenFails, LogInv, LogTypeOK, FdsOpen
<1>10. CASE SetOutput
  BY <1>10, <1>t DEF SetOutput, logFiles, LogInv, LogTypeOK, FdsOpen
<1>11. CASE CloseOldFile
  <2>1. LogTypeOK'
    BY <1>11, <1>t, <1>w DEF CloseOldFile, LogTypeOK
  <2>2. FdsOpen'
    BY <1>11, <1>t DEF CloseOldFile, FdsOpen
  <2> QED
    BY <2>1, <2>2 DEF LogInv
<1>12. CASE CloseRequested
  BY <1>12, <1>t, SMTT(60) DEF CloseRequested, logFiles, LogInv, LogTypeOK, FdsOpen, Stderr
<1>13. CASE CloseLogFile
  BY <1>13, <1>t DEF CloseLogFile, logFiles, LogInv, LogTypeOK, FdsOpen, Stderr
<1>14. CASE UNCHANGED logVars
  BY <1>14, <1>t DEF logVars, logFiles, LogInv, LogTypeOK, FdsOpen
<1> QED
  BY <1>1, <1>2, <1>3, <1>4, <1>5, <1>6, <1>7, <1>8, <1>9, <1>10, <1>11, <1>12, <1>13,
     <1>14 DEF LogNext, RotateLog, LogStep, Monitor

(* The log file by itself: no line is lost, no descriptor is leaked.       *)
THEOREM LogOutputOpen == LogSpec => [](LogTypeOK /\ OutputOpen)
<1>1. LogInv => LogTypeOK /\ OutputOpen
  BY DEF LogInv, LogTypeOK, FdsOpen, OutputOpen
<1> QED
  BY <1>1, LogStart, LogInvStep, PTL DEF LogSpec

-----------------------------------------------------------------------------
Known == (Parsable \cap had) \cup {NoConfig}

(* Where the configuration and its copies come from: outside the two steps *)
(* of the copy both fields are of one known version, during it no request  *)
(* is between its two reads, and a request that is has read the user of    *)
(* the configuration in use.                                               *)
ConfigPaired ==
    /\ conf.content \in had
    /\ reader \in {"lock", "copy"} => cfg \in Parsable \cap had
    /\ Config.user \in Known /\ Config.password \in Known
    /\ reader # "copy" => Config.user = Config.password
    /\ reader = "copy" => Config.user = cfg
    /\ \A r \in Requests : auth[r].at = "user" =>
          reader # "copy" /\ auth[r].user = Config.user

ConfigInv == ConfigTypeOK /\ ConfigPaired /\ CredentialsPaired

(* The invariant holds before the configuration is read.                   *)
LEMMA ConfigStart == ConfigInit => ConfigInv
<1> SUFFICES ASSUME ConfigInit PROVE ConfigInv
  OBVIOUS
<1>1. PICK c \in Configs \cup {NoConfig} :
          conf = [content |-> c, mtime |-> 1] /\ had = {c, NoConfig}
  BY DEF ConfigInit
<1>2. events \in Seq({"Write", "Chmod", "Create", "Rename"})
  BY SMTT(60) DEF ConfigInit
<1>3. ConfigTypeOK
  BY <1>1, <1>2 DEF ConfigInit, ConfigTypeOK, AnyConfig, ReaderSteps
<1>4. ConfigPaired /\ CredentialsPaired
  BY <1>1 DEF ConfigInit, ConfigPaired, CredentialsPaired, Known
<1> QED
  BY <1>3, <1>4 DEF ConfigInv

(* A change of the file keeps the invariant, whatever it changes.          *)
LEMMA ChangeKeeps ==
    ASSUME ConfigInv, NEW c \in AnyConfig, NEW t,
           NEW op \in {"Write", "Chmod", "Create", "Rename"},
           ChangeConf(c, op, t), heard' \in BOOLEAN
    PROVE  ConfigInv'
<1>1. /\ conf' \in [content : AnyConfig, mtime : Nat] /\ conf'.content = c
      /\ confClock' \in Nat
      /\ had' = had \cup {c}
      /\ UNCHANGED <<watching, reader, lastReadConfig, cfg, Config, auth>>
  BY SMTT(60) DEF ChangeConf, ConfigInv, ConfigTypeOK
<1>2. events' \in Seq({"Write", "Chmod", "Create", "Rename"})
  BY SMTT(60) DEF ChangeConf, ConfigInv, ConfigTypeOK
<1>3. ConfigTypeOK'
  BY <1>1, <1>2 DEF ConfigInv, ConfigTypeOK
<1>4. ConfigPaired'
  BY <1>1 DEF ConfigInv, ConfigPaired, Known
<1>5. CredentialsPaired'
  BY <1>1 DEF ConfigInv, CredentialsPaired
<1> QED
  BY <1>3, <1>4, <1>5 DEF ConfigInv

(* Every change of the file and every step of the watcher and of the       *)
(* requests keeps the invariant.                                           *)
LEMMA ConfigInvStep == ConfigInv /\ [ConfigNext]_configVars => ConfigInv'
<1> SUFFICES ASSUME ConfigInv, [ConfigNext]_configVars PROVE ConfigInv'
  OBVIOUS
<1> USE DEF ConfigInv
<1>n. NoConfig \in AnyConfig /\ conf.content \in AnyConfig
  BY DEF ConfigTypeOK, AnyConfig
<1>1. CASE EditConf
  <2>1. ASSUME NEW c \in Configs, WriteConf(c) PROVE ConfigInv'
    BY <2>1, ChangeKeeps DEF WriteConf, AnyConfig
  <2>2. CASE TouchConf
    BY <2>2, <1>n, ChangeKeeps DEF TouchConf
  <2>3. ASSUME NEW c \in Configs, NEW t \in {"now", "then"}, ReplaceConf(c, t)
        PROVE  ConfigInv'
    BY <2>3, ChangeKeeps DEF ReplaceConf, AnyConfig
  <2>4. CASE MoveConf
    BY <2>4, <1>n, ChangeKeeps DEF MoveConf, ConfigTypeOK
  <2> QED
    BY <1>1, <2>1, <2>2, <2>3, <2>4 DEF EditConf
<1>2. CASE DropEvent \/ TakeEvent
  <2>1. events' \in Seq({"Write", "Chmod", "Create", "Rename"})
    <3>1. events # <<>> /\ events' = Tail(events)
      BY <1>2 DEF DropEvent, TakeEvent
    <3>2. events \in Seq({"Write", "Chmod", "Create", "Rename"})
      BY DEF ConfigTypeOK
    <3> QED
      BY <3>1, <3>2, SMTT(60)
  <2>2. ConfigTypeOK'
    BY <1>2, <2>1 DEF DropEvent, TakeEvent, ConfigTypeOK, ReaderSteps
  <2> QED
    BY <1>2, <2>2 DEF DropEvent, TakeEvent, ConfigPaired, CredentialsPaired, Known
<1>3. CASE StartWatcher
  BY <1>3 DEF StartWatcher, fileVars, ConfigTypeOK, ReaderSteps, ConfigPaired,
              CredentialsPaired, Known
<1>4. CASE StatConf
  BY <1>4 DEF StatConf, Returned, fileVars, ConfigTypeOK, ReaderSteps, ConfigPaired,
              CredentialsPaired, Known
<1>5. CASE StampConf
  BY <1>5 DEF StampConf, fileVars, ConfigTypeOK, ReaderSteps, ConfigPaired,
              CredentialsPaired, Known
<1>6. CASE ParseConf
  BY <1>6 DEF ParseConf, Returned, fileVars, ConfigTypeOK, ReaderSteps, ConfigPaired,
              CredentialsPaired, Known
<1>7. CASE CopyUser
  <2>1. Config'.user = cfg /\ Config'.password = Config.password
    BY <1>7 DEF CopyUser, ConfigTypeOK
  <2> QED
    BY <1>7, <2>1 DEF CopyUser, CanLock, fileVars, ConfigTypeOK, ReaderSteps, ConfigPaired,
                      CredentialsPaired, Known
<1>8. CASE CopyPassword
  <2>1. Config'.user = Config.user /\ Config'.password = cfg
    BY <1>8 DEF CopyPassword, ConfigTypeOK
  <2> QED
    BY <1>8, <2>1 DEF CopyPassword, Returned, fileVars, ConfigTypeOK, ReaderSteps,
                      ConfigPaired, CredentialsPaired, Known
<1>9. ASSUME NEW r \in Requests, ReadUser(r) PROVE ConfigInv'
  <2> DEFINE a == [auth[r] EXCEPT !.at = "user", !.user = Config.user]
  <2>1. /\ a \in [at : {"idle", "user"}, user : AnyConfig, password : AnyConfig]
        /\ a.at = "user" /\ a.user = Config.user
    BY DEF ConfigTypeOK
  <2>2. auth' = [auth EXCEPT ![r] = a]
    BY <1>9 DEF ReadUser
  <2> HIDE DEF a
  <2>3. ConfigTypeOK'
    BY <1>9, <2>1, <2>2 DEF ReadUser, fileVars, ConfigTypeOK
  <2>4. ConfigPaired' /\ CredentialsPaired'
    BY <1>9, <2>1, <2>2 DEF ReadUser, fileVars, ConfigTypeOK, ConfigPaired,
                            CredentialsPaired, Known
  <2> QED
    BY <2>3, <2>4
<1>10. ASSUME NEW r \in Requests, ReadPassword(r) PROVE ConfigInv'
  <2> DEFINE a == [auth[r] EXCEPT !.at = "idle", !.password = Config.password]
  <2>1. /\ a \in [at : {"idle", "user"}, user : AnyConfig, password : AnyConfig]
        /\ a.at = "idle" /\ a.user = auth[r].user /\ a.password = Config.password
    BY DEF ConfigTypeOK
  <2>2. auth' = [auth EXCEPT ![r] = a]
    BY <1>10 DEF ReadPassword
  <2> HIDE DEF a
  <2>3. ConfigTypeOK'
    BY <1>10, <2>1, <2>2, SMTT(60) DEF ReadPassword, fileVars, ConfigTypeOK
  <2>4. ConfigPaired' /\ CredentialsPaired'
    BY <1>10, <2>1, <2>2, SMTT(60) DEF ReadPassword, fileVars, ConfigTypeOK, ConfigPaired,
                             CredentialsPaired, Known
  <2> QED
    BY <2>3, <2>4
<1>11. CASE UNCHANGED configVars
  BY <1>11 DEF configVars, fileVars, ConfigTypeOK, ConfigPaired, CredentialsPaired, Known
<1> QED
  BY <1>1, <1>2, <1>3, <1>4, <1>5, <1>6, <1>7, <1>8, <1>9, <1>10, <1>11
     DEF ConfigNext, ConfigStep, ReadConfig

(* The configuration by itself: a request never sees half an update.       *)
THEOREM CredentialsArePaired == ConfigSpec => [](ConfigTypeOK /\ CredentialsPaired)
BY ConfigStart, ConfigInvStep, PTL DEF ConfigSpec, ConfigInv

-----------------------------------------------------------------------------
(* The server does to its log file only what AppLog allows.                *)
THEOREM DaemonImplementsLog == DaemonSpec => LogSpec
<1>1. DaemonInit => LogInit
  BY DEF DaemonInit
<1>2. [DaemonNext]_daemonVars => [LogNext]_logVars
  BY DEF DaemonNext, daemonVars, OpenLog, Serve, Terminate, Exit, LogFile, Configure, HTTP,
         Edit, Ended, LogNext, LogStep
<1> QED
  BY <1>1, <1>2, PTL DEF DaemonSpec, LogSpec

(* The server does to its configuration only what ConfigWatcher allows.    *)
THEOREM DaemonImplementsConfig == DaemonSpec => ConfigSpec
<1>1. DaemonInit => ConfigInit
  BY DEF DaemonInit
<1>2. [DaemonNext]_daemonVars => [ConfigNext]_configVars
  BY DEF DaemonNext, daemonVars, OpenLog, Serve, Terminate, Exit, LogFile, Configure, HTTP,
         Edit, Ended, ConfigNext, ConfigStep
<1> QED
  BY <1>1, <1>2, PTL DEF DaemonSpec, ConfigSpec

(* The whole server loses no line, leaks no descriptor, and checks every   *)
(* request against one version of its configuration.                       *)
THEOREM DaemonSafe == DaemonSpec => [](OutputOpen /\ CredentialsPaired)
BY DaemonImplementsLog, DaemonImplementsConfig, LogOutputOpen, CredentialsArePaired, PTL

-----------------------------------------------------------------------------
(* The file tester.                                                        *)

Reading ==
    [at : {"read"}, modTime : Nat, content : FileContents \ {None}, same : BOOLEAN]

(* What the tester remembers.  A read that is under way and whose time is  *)
(* that of the file has the file's content; so has the hash when the time  *)
(* remembered is that of the file; and the running test has the map of the *)
(* hash, or, started with a used tester, none.                             *)
FileInv ==
    kind = "file" =>
        /\ poll[None] \in {Idle} \cup Reading
        /\ ~ unnoticed /\ poll[None] # Idle /\ poll[None].modTime = file.mtime
              => poll[None].content = file.content
        /\ ~ unnoticed /\ lastReadTime = file.mtime /\ file.content \in FileMaps
              => lastHash = file.content
        /\ None \in entries /\ lastHash \in FileMaps
              => globalMap = lastHash \/ (reused /\ globalMap = NoMap)

(* A map of some of the hosts is a global map.                             *)
LEMMA MapOfHosts ==
    ASSUME NEW D \in SUBSET Hosts, NEW f \in [D -> BOOLEAN]
    PROVE  f \in GlobalMaps
BY DEF GlobalMaps

(* The empty map and what the two APIs answer are global maps.             *)
LEMMA StatesAreMaps ==
    NoMap \in GlobalMaps /\ NodepingState \in GlobalMaps /\ PingdomState \in GlobalMaps
<1>1. NoMap \in [{} -> BOOLEAN]
  BY DEF NoMap
<1>2. NodepingState \in [{g \in Hosts : status[g] # "up"} -> BOOLEAN]
  BY DEF NodepingState
<1>3. PingdomState \in [{g \in Hosts : status[g] # "unconfirmed_down"} -> BOOLEAN]
  BY DEF PingdomState
<1> QED
  BY <1>1, <1>2, <1>3 DEF GlobalMaps

(* The tests, and the polls by where they are.                             *)
LEMMA TestKeys ==
    /\ None \in Tests
    /\ \A h \in Hosts : h \in Tests /\ h # None /\ Key(h) \in Tests
    /\ Idle \in Polls /\ Idle.at = "idle" /\ Hung \in Polls
    /\ \A b \in BOOLEAN : [at |-> "tested", ok |-> b] \in Polls
    /\ \A p \in Polls : p.at = "tested" => p.ok \in BOOLEAN
    /\ \A p \in Polls : p.at = "read" => p \in Reading
    /\ \A p \in Reading : p \in Polls /\ p.at = "read" /\ p # Idle
BY TestersAssumption, SMTT(60) DEF Tests, Key, Polls, Idle, Hung, Reading

(* The end of a poll keeps the types.                                      *)
LEMMA TestedType ==
    ASSUME TypeOK, NEW k \in Tests, NEW ok \in BOOLEAN, Tested(k, ok)
    PROVE  entryHealthy' \in [Tests -> BOOLEAN] /\ poll' \in [Tests -> Polls]
<1>1. poll' \in [Tests -> Polls]
  BY TestKeys DEF TypeOK, Tested
<1>2. entryHealthy' \in [Tests -> BOOLEAN]
  BY DEF TypeOK, Tested
<1> QED
  BY <1>1, <1>2

(* The variables have their types at the start.                            *)
LEMMA TestersInit == Init => TypeOK /\ FileInv
<1> SUFFICES ASSUME Init PROVE TypeOK /\ FileInv
  OBVIOUS
<1>1. file \in [content : FileContents, mtime : Nat]
  BY SMTT(60) DEF Init, FileContents
<1>2. globalMap \in GlobalMaps
  BY StatesAreMaps DEF Init
<1>3. poll \in [Tests -> Polls] /\ poll[None] = Idle
  BY TestKeys DEF Init
<1>4. entryHealthy \in [Tests -> BOOLEAN] /\ healthy \in [Hosts -> BOOLEAN]
  BY DEF Init
<1>5. TypeOK
  BY <1>1, <1>2, <1>3, <1>4 DEF Init, TypeOK, FileContents
<1>6. FileInv
  BY <1>3, TestersAssumption, SMTT(60) DEF Init, FileInv
<1> QED
  BY <1>5, <1>6

(* A change of the file: the read under way either sees it or goes on with *)
(* the old file, and a time that is known already makes it unnoticed.         *)
LEMMA FileChangeStep ==
    ASSUME TypeOK, FileInv, kind = "file", Change,
           NEW c \in FileContents, NEW t \in Nat, clock' \in Nat,
           file' = [content |-> c, mtime |-> t],
           unnoticed' = (t \in KnownTimes),
           UNCHANGED <<reachable, status>>,
           \/ UNCHANGED poll
           \/ /\ poll[None].at = "read" /\ poll[None].same
              /\ c # None
              /\ poll' = [poll EXCEPT ![None].content = c]
           \/ /\ poll[None].at = "read"
              /\ poll' = [poll EXCEPT ![None].same = FALSE]
    PROVE  TypeOK' /\ FileInv'
<1>1. poll[None] \in Polls
  BY TestKeys DEF TypeOK
<1>2. /\ poll' \in [Tests -> Polls]
      /\ poll[None] = Idle => poll'[None] = Idle
      /\ poll[None] # Idle => /\ poll[None] \in Reading /\ poll'[None] \in Reading
                              /\ poll'[None].modTime = poll[None].modTime
  <2>1. CASE UNCHANGED poll
    BY <2>1, <1>1, TestKeys DEF FileInv, TypeOK
  <2>2. CASE poll[None].at = "read" /\ c # None /\ poll' = [poll EXCEPT ![None].content = c]
    <3>1. poll[None] \in Reading /\ poll[None] # Idle
      BY <2>2, <1>1, TestKeys
    <3>2. /\ [poll[None] EXCEPT !.content = c] \in Reading
          /\ [poll[None] EXCEPT !.content = c].modTime = poll[None].modTime
      BY <2>2, <3>1 DEF Reading
    <3>3. poll' = [poll EXCEPT ![None] = [poll[None] EXCEPT !.content = c]]
      BY <2>2, TestKeys DEF TypeOK
    <3> QED
      BY <3>1, <3>2, <3>3, TestKeys DEF TypeOK
  <2>3. CASE poll[None].at = "read" /\ poll' = [poll EXCEPT ![None].same = FALSE]
    <3>1. poll[None] \in Reading /\ poll[None] # Idle
      BY <2>3, <1>1, TestKeys
    <3>2. /\ [poll[None] EXCEPT !.same = FALSE] \in Reading
          /\ [poll[None] EXCEPT !.same = FALSE].modTime = poll[None].modTime
      BY <3>1 DEF Reading
    <3>3. poll' = [poll EXCEPT ![None] = [poll[None] EXCEPT !.same = FALSE]]
      BY <2>3, TestKeys DEF TypeOK
    <3> QED
      BY <3>1, <3>2, <3>3, TestKeys DEF TypeOK
  <2> QED
    BY <2>1, <2>2, <2>3
<1>3. poll[None] # Idle => poll[None].at = "read"
  BY <1>2, TestKeys
<1>4. ~ unnoticed' => t # lastReadTime /\ (poll[None] # Idle => t # poll[None].modTime)
  BY <1>3 DEF KnownTimes
<1>5. unnoticed' \in BOOLEAN
  BY SMTT(60)
<1>6. file' \in [content : FileContents, mtime : Nat] /\ file'.mtime = t
  OBVIOUS
<1>7. UNCHANGED <<kind, initially, lastReadTime, lastHash, ops, references, entries, stopping,
                  reused, healthy, removed, entryHealthy, globalMap>>
  BY DEF Change, testerVars, clientVars
<1>8. TypeOK'
  <2>1. changes' \in Nat
    BY SMTT(60) DEF Change, TypeOK
  <2> QED
    BY <1>2, <1>5, <1>6, <1>7, <2>1 DEF TypeOK, Statuses
<1>9. FileInv'
  BY <1>2, <1>4, <1>6, <1>7 DEF FileInv
<1> QED
  BY <1>8, <1>9

(* What happens to the hosts, the API and the file keeps the invariant.    *)
LEMMA WorldStep == TypeOK /\ FileInv /\ World => TypeOK' /\ FileInv'
<1> SUFFICES ASSUME TypeOK, FileInv, World PROVE TypeOK' /\ FileInv'
  OBVIOUS
<1>1. ASSUME NEW h \in Hosts, HostChanges(h) PROVE TypeOK' /\ FileInv'
  <2>1. /\ status' \in [Hosts -> Statuses] /\ changes' \in Nat
        /\ UNCHANGED <<kind, initially, testerVars, clientVars, entryHealthy, globalMap,
                       reachable, file, clock, unnoticed, poll>>
    BY <1>1, SMTT(60) DEF HostChanges, Change, TypeOK
  <2> QED
    BY <2>1 DEF TypeOK, FileInv, Statuses, testerVars, clientVars
<1>2. CASE Outage
  <2>1. /\ reachable' \in BOOLEAN /\ changes' \in Nat
        /\ UNCHANGED <<kind, initially, testerVars, clientVars, entryHealthy, globalMap,
                       status, file, clock, unnoticed, poll>>
    BY <1>2, SMTT(60) DEF Outage, Change, TypeOK
  <2> QED
    BY <2>1 DEF TypeOK, FileInv, Statuses, testerVars, clientVars
<1>3. ASSUME NEW c \in FileContents, FileChanges(c) PROVE clock' \in Nat
  BY <1>3, SMTT(60) DEF FileChanges, TypeOK
<1>4. ASSUME NEW c \in FileContents \ {None}, WriteFile(c) PROVE TypeOK' /\ FileInv'
  BY <1>3, <1>4, FileChangeStep DEF WriteFile, FileChanges
<1>5. ASSUME NEW c \in FileContents, ReplaceFile(c) PROVE TypeOK' /\ FileInv'
  BY <1>3, <1>5, FileChangeStep DEF ReplaceFile, FileChanges
<1>6. ASSUME NEW c \in FileContents, RestoreFile(c) PROVE TypeOK' /\ FileInv'
  <2>1. file.mtime - 1 \in Nat /\ clock' \in Nat
    BY <1>6, SMTT(60) DEF RestoreFile, TypeOK
  <2> QED
    BY <1>6, <2>1, FileChangeStep DEF RestoreFile
<1> QED
  BY <1>1, <1>2, <1>4, <1>5, <1>6, TestersAssumption DEF World, FileContents

(* Adding and removing tests keeps the invariant: a test that is started   *)
(* has no map yet, and the tester has read a file before or not.           *)
LEMMA ClientStep ==
    ASSUME TypeOK, FileInv, NEW h \in Hosts, addTest(h) \/ removeTest(h)
    PROVE  TypeOK' /\ FileInv'
<1>k. Key(h) \in Tests
  BY TestKeys
<1>1. CASE addTest(h)
  <2>1. /\ ops' \in Nat /\ references' \subseteq Hosts
        /\ entries' = entries \cup {Key(h)} /\ entries' \subseteq Tests
        /\ UNCHANGED <<kind, initially, worldVars, testerVars, stopping, poll, healthy, removed>>
    BY <1>1, <1>k, SMTT(60) DEF addTest, Operation, TypeOK
  <2>2. entryHealthy' \in [Tests -> BOOLEAN]
    BY <1>1 DEF addTest, TypeOK
  <2>3. reused' \in BOOLEAN /\ globalMap' \in GlobalMaps
    BY <1>1, StatesAreMaps DEF addTest, TypeOK
  <2>4. TypeOK'
    BY <2>1, <2>2, <2>3 DEF TypeOK, Statuses, worldVars, testerVars
  <2>5. FileInv'
    <3>1. CASE Key(h) \in entries
      BY <1>1, <2>1, <3>1, SMTT(60) DEF addTest, FileInv, worldVars, testerVars
    <3>2. CASE Key(h) \notin entries
      <4>1. globalMap' = NoMap /\ (lastHash # None => reused')
        BY <1>1, <3>2 DEF addTest
      <4>2. lastHash \in FileMaps => lastHash # None
        BY TestersAssumption
      <4> QED
        BY <2>1, <4>1, <4>2 DEF FileInv, worldVars, testerVars
    <3> QED
      BY <3>1, <3>2
  <2> QED
    BY <2>4, <2>5
<1>2. CASE removeTest(h)
  <2>1. healthy' \in [Hosts -> BOOLEAN]
    BY <1>2, <1>k DEF removeTest, TypeOK
  <2>2. /\ ops' \in Nat /\ references' \subseteq Hosts /\ removed' \subseteq Hosts
        /\ stopping' \subseteq entries
        /\ UNCHANGED <<kind, initially, worldVars, testerVars, entries, reused,
                       entryHealthy, globalMap, poll>>
    BY <1>2, SMTT(60) DEF removeTest, Operation, TypeOK
  <2> QED
    BY <2>1, <2>2 DEF TypeOK, FileInv, Statuses, worldVars, testerVars
<1> QED
  BY <1>1, <1>2

(* The polls keep the invariant.                                           *)
LEMMA PollStep ==
    ASSUME TypeOK, FileInv,
           \/ PollGlobal \/ ReadFails
           \/ \E h \in Hosts : TestLocal(h) \/ LocalResult(h)
           \/ \E k \in Tests : TestHangs(k)
    PROVE  TypeOK' /\ FileInv'
<1>n. None \in Tests /\ poll[None] \in Polls
  BY TestKeys DEF TypeOK
<1>0. ASSUME NEW k \in Tests, NEW ok \in BOOLEAN, Tested(k, ok)
      PROVE  /\ poll'[k] = Idle /\ (k # None => poll'[None] = poll[None])
             /\ entryHealthy' \in [Tests -> BOOLEAN] /\ poll' \in [Tests -> Polls]
  <2>1. poll'[k] = Idle /\ (k # None => poll'[None] = poll[None])
    BY <1>0, <1>n DEF Tested, TypeOK
  <2> QED
    BY <1>0, <2>1, TestedType
<1>1. ASSUME NEW h \in Hosts, TestLocal(h) PROVE TypeOK' /\ FileInv'
  <2>1. PICK ok \in BOOLEAN : poll' = [poll EXCEPT ![h] = [at |-> "tested", ok |-> ok]]
    BY <1>1 DEF TestLocal, NtpTest
  <2>2. h \in Tests /\ h # None /\ [at |-> "tested", ok |-> ok] \in Polls
    BY TestKeys
  <2>3. poll'[None] = poll[None] /\ poll' \in [Tests -> Polls]
    BY <1>n, <2>1, <2>2 DEF TypeOK
  <2> QED
    BY <1>1, <2>3 DEF TestLocal, TypeOK, FileInv, Statuses, worldVars, testerVars, clientVars
<1>7. ASSUME NEW h \in Hosts, LocalResult(h) PROVE TypeOK' /\ FileInv'
  <2>1. h \in Tests /\ h # None /\ poll[h].ok \in BOOLEAN
    BY <1>7, TestKeys DEF LocalResult, TypeOK
  <2>2. /\ poll'[None] = poll[None]
        /\ entryHealthy' \in [Tests -> BOOLEAN] /\ poll' \in [Tests -> Polls]
    BY <1>0, <1>7, <2>1 DEF LocalResult
  <2> QED
    BY <1>7, <2>2 DEF LocalResult, TypeOK, FileInv, Statuses, worldVars, testerVars, clientVars
<1>8. ASSUME NEW k \in Tests, TestHangs(k) PROVE TypeOK' /\ FileInv'
  <2>1. poll' \in [Tests -> Polls] /\ kind # "file"
    BY <1>8, TestKeys DEF TestHangs, TypeOK
  <2> QED
    BY <1>8, <2>1 DEF TestHangs, TypeOK, FileInv, Statuses, worldVars, testerVars, clientVars
<1>2. CASE Request
  <2>1. entryHealthy' \in [Tests -> BOOLEAN] /\ poll' \in [Tests -> Polls]
    <3> DEFINE s == IF ~ reachable THEN NoMap
                    ELSE IF kind = "nodeping" THEN NodepingState ELSE PingdomState
               p == [at |-> "answer", error |-> ~ reachable, state |-> s]
    <3>1. CASE poll' = [poll EXCEPT ![None] = p] /\ UNCHANGED entryHealthy
      <4>1. s \in GlobalMaps /\ (~ reachable) \in BOOLEAN
        BY StatesAreMaps
      <4> HIDE DEF s
      <4>2. p \in Polls
        BY <4>1 DEF Polls
      <4> HIDE DEF p
      <4> QED
        BY <3>1, <4>2 DEF TypeOK
    <3>2. CASE Tested(None, FALSE)
      BY <1>0, <1>n, <3>2
    <3> QED
      BY <1>2, <3>1, <3>2 DEF Request
  <2> QED
    BY <1>2, <2>1 DEF Request, TypeOK, FileInv, Statuses, worldVars, testerVars, clientVars
<1>3. CASE Answer
  <2>1. globalMap' \in GlobalMaps
    <3>1. poll[None].at = "answer" /\ globalMap' = poll[None].state
      BY <1>3 DEF Answer
    <3> QED
      BY ONLY <1>n, <3>1, SMTT(60) DEF Polls, Idle, Hung
  <2>2. entryHealthy' \in [Tests -> BOOLEAN] /\ poll' \in [Tests -> Polls]
    BY <1>0, <1>3, <1>n DEF Answer
  <2>3. kind # "file"
    BY <1>3, TestKeys DEF Answer, FileInv
  <2> QED
    BY <1>3, <2>1, <2>2, <2>3 DEF Answer, TypeOK, FileInv, Statuses, worldVars, testerVars,
                                  clientVars
<1>4. CASE StatFile
  <2> DEFINE p == [at |-> "read", modTime |-> file.mtime, content |-> file.content,
                   same |-> TRUE]
  <2>1. p.content = file.content /\ (file.content # None => p \in Reading)
    BY DEF Reading, TypeOK
  <2>2. /\ entryHealthy' \in [Tests -> BOOLEAN] /\ poll' \in [Tests -> Polls]
        /\ poll'[None] = Idle \/ (poll'[None] = p /\ p \in Reading)
    <3>1. CASE file.content # None /\ ~ Unmodified
      <4>1. poll' = [poll EXCEPT ![None] = p] /\ UNCHANGED entryHealthy /\ p \in Reading
        BY <1>4, <2>1, <3>1 DEF StatFile
      <4> HIDE DEF p
      <4> QED
        BY <1>n, <4>1, TestKeys DEF TypeOK
    <3>2. CASE ~ (file.content # None /\ ~ Unmodified)
      <4>1. Tested(None, file.content # None)
        BY <1>4, <3>2 DEF StatFile
      <4> QED
        BY <1>0, <1>n, <4>1
    <3> QED
      BY <3>1, <3>2
  <2>3. UNCHANGED <<kind, initially, worldVars, testerVars, clientVars, globalMap>>
    BY <1>4 DEF StatFile
  <2> HIDE DEF p
  <2> QED
    BY <2>1, <2>2, <2>3 DEF TypeOK, FileInv, Statuses, worldVars, testerVars, clientVars
<1>5. CASE ReadFails
  <2>1. /\ entryHealthy' \in [Tests -> BOOLEAN] /\ poll' \in [Tests -> Polls]
        /\ poll'[None] = Idle
    BY <1>0, <1>5, <1>n DEF ReadFails
  <2> QED
    BY <1>5, <2>1 DEF ReadFails, TypeOK, FileInv, Statuses, worldVars, testerVars, clientVars
<1>6. CASE ReadFile
  <2>1. poll[None] \in Reading /\ poll[None] # Idle
    BY <1>6, <1>n, TestKeys DEF ReadFile
  <2>2. /\ entryHealthy' \in [Tests -> BOOLEAN] /\ poll' \in [Tests -> Polls]
        /\ poll'[None] = Idle
    BY <1>0, <1>6, <1>n DEF ReadFile
  <2>3. /\ lastReadTime' = poll[None].modTime /\ lastHash' = poll[None].content
        /\ lastReadTime' \in Nat /\ lastHash' \in FileContents \ {None}
    BY <1>6, <2>1 DEF ReadFile, Reading
  <2>4. UNCHANGED <<kind, initially, worldVars, clientVars>>
    BY <1>6 DEF ReadFile
  <2>5. globalMap' = IF lastHash' # lastHash /\ lastHash' # Broken THEN lastHash' ELSE globalMap
    BY <1>6 DEF ReadFile
  <2>6. globalMap' \in GlobalMaps
    BY <2>3, <2>5, TestersAssumption DEF TypeOK, FileContents
  <2>7. TypeOK'
    BY <2>2, <2>3, <2>4, <2>6 DEF TypeOK, Statuses, worldVars, clientVars
  <2>8. FileInv'
    BY <2>1, <2>2, <2>3, <2>4, <2>5, TestersAssumption DEF FileInv, worldVars, clientVars
  <2> QED
    BY <2>7, <2>8
<1> QED
  BY <1>1, <1>2, <1>3, <1>4, <1>5, <1>6, <1>7, <1>8 DEF PollGlobal

(* Every step keeps the types and what the tester remembers.               *)
LEMMA TestersStep == TypeOK /\ FileInv /\ [Next]_vars => TypeOK' /\ FileInv'
<1> SUFFICES ASSUME TypeOK, FileInv, [Next]_vars PROVE TypeOK' /\ FileInv'
  OBVIOUS
<1>1. CASE Stop
  BY <1>1 DEF Stop, TypeOK, FileInv, Statuses, worldVars, testerVars
<1>2. CASE UNCHANGED vars
  BY <1>2 DEF vars, TypeOK, FileInv, Statuses, worldVars, testerVars, clientVars
<1> QED
  BY <1>1, <1>2, WorldStep, ClientStep, PollStep DEF Next

(* The testers keep their types.                                           *)
THEOREM TestersTypeCorrect == Spec => []TypeOK
BY TestersInit, TestersStep, PTL DEF Spec

(* The file tester never skips a file whose map the running test lacks, if *)
(* it was started with a new tester: what it remembers of the file it      *)
(* remembers only when it has read all of it.                              *)
THEOREM FileTesterSkips == Spec => []SkipsOnlyWhatItRead
<1>1. TypeOK /\ FileInv => SkipsOnlyWhatItRead
  BY DEF FileInv, SkipsOnlyWhatItRead, Unmodified
<1> QED
  BY <1>1, TestersInit, TestersStep, PTL DEF Spec

-----------------------------------------------------------------------------
(* The test of a host in use runs, and nobody waits for it to stop.        *)
InUseInv == \A h \in references : Key(h) \in entries \ stopping

(* Every step keeps the tests of the hosts in use running.                 *)
LEMMA InUseStep == TypeOK /\ InUseInv /\ [Next]_vars => InUseInv'
<1> SUFFICES ASSUME TypeOK, InUseInv, [Next]_vars PROVE InUseInv'
  OBVIOUS
<1>1. ASSUME NEW h \in Hosts, addTest(h) PROVE InUseInv'
  BY <1>1 DEF addTest, Operation, InUseInv, Key
<1>2. ASSUME NEW h \in Hosts, removeTest(h) PROVE InUseInv'
  BY <1>2 DEF removeTest, Operation, InUseInv, Key
<1>3. CASE Stop
  BY <1>3 DEF Stop, InUseInv, Key
<1>4. CASE UNCHANGED <<kind, clientVars>>
  BY <1>4 DEF clientVars, InUseInv, Key
<1>5. World => UNCHANGED <<kind, clientVars>>
  BY DEF World, HostChanges, Outage, WriteFile, ReplaceFile, FileChanges, RestoreFile, Change
<1>6. PollGlobal \/ ReadFails => UNCHANGED <<kind, clientVars>>
  BY DEF PollGlobal, Request, Answer, StatFile, ReadFile, ReadFails
<1>8. ASSUME NEW h, TestLocal(h) \/ LocalResult(h) \/ TestHangs(h)
      PROVE  UNCHANGED <<kind, clientVars>>
  BY <1>8 DEF TestLocal, LocalResult, TestHangs
<1>7. UNCHANGED vars => UNCHANGED <<kind, clientVars>>
  BY DEF vars
<1> QED
  BY <1>1, <1>2, <1>3, <1>4, <1>5, <1>6, <1>7, <1>8 DEF Next

\* Nodeping says only which hosts are down, and its error reply nothing.
ApiInv ==
    /\ kind = "nodeping" =>
          /\ \A h \in DOMAIN globalMap : ~ globalMap[h]
          /\ poll[None].at = "answer" =>
                \A h \in DOMAIN poll[None].state : ~ poll[None].state[h]
          /\ poll[None].at # "read"
    /\ poll[None].at = "answer" /\ poll[None].error =>
          kind = "nodeping" /\ poll[None].state = NoMap

(* The maps of Nodeping come from its answers only.                        *)
LEMMA ApiStep == TypeOK /\ ApiInv /\ [Next]_vars => ApiInv'
<1> SUFFICES ASSUME TypeOK, ApiInv, [Next]_vars PROVE ApiInv'
  OBVIOUS
<1>n. None \in Tests /\ (\A h \in Hosts : h # None) /\ Idle.at = "idle" /\ Hung.at = "hung"
  BY TestKeys DEF Hung
<1>m. \A h \in DOMAIN NoMap : ~ NoMap[h]
  BY DEF NoMap
<1>1. ASSUME UNCHANGED <<kind, globalMap>>, poll'[None] = poll[None] PROVE ApiInv'
  BY <1>1 DEF ApiInv
<1>2. ASSUME UNCHANGED <<kind, globalMap>>, poll'[None].at \notin {"answer", "read"}
      PROVE  ApiInv'
  BY <1>2 DEF ApiInv
<1>3. ASSUME NEW k \in Tests, NEW ok, Tested(k, ok)
      PROVE  poll'[k] = Idle /\ (k # None => poll'[None] = poll[None])
  BY <1>3, <1>n DEF Tested, TypeOK
<1>4. ASSUME NEW h \in Hosts, addTest(h) PROVE ApiInv'
  <2>1. UNCHANGED <<kind, poll>> /\ (globalMap' = globalMap \/ globalMap' = NoMap)
    BY <1>4 DEF addTest
  <2> QED
    BY <1>m, <2>1 DEF ApiInv
<1>5. ASSUME NEW h \in Hosts, removeTest(h) \/ TestLocal(h) \/ LocalResult(h) PROVE ApiInv'
  <2>1. UNCHANGED <<kind, globalMap>>
    BY <1>5 DEF removeTest, TestLocal, LocalResult
  <2>2. poll'[None] = poll[None]
    BY <1>3, <1>5, <1>n, TestKeys DEF removeTest, TestLocal, LocalResult, TypeOK
  <2> QED
    BY <1>1, <2>1, <2>2
<1>6. ASSUME NEW k \in Tests, TestHangs(k) PROVE ApiInv'
  <2>1. UNCHANGED <<kind, globalMap>>
    BY <1>6 DEF TestHangs
  <2>2. poll'[None] = poll[None] \/ poll'[None] = Hung
    BY <1>6, <1>n DEF TestHangs, TypeOK
  <2> QED
    BY <1>1, <1>2, <1>n, <2>1, <2>2
<1>7. CASE Request
  <2>1. UNCHANGED <<kind, globalMap>> /\ kind \in {"nodeping", "pingdom"}
    BY <1>7 DEF Request
  <2> DEFINE s == IF ~ reachable THEN NoMap
                  ELSE IF kind = "nodeping" THEN NodepingState ELSE PingdomState
             p == [at |-> "answer", error |-> ~ reachable, state |-> s]
  <2>2. CASE Tested(None, FALSE)
    BY <1>2, <1>3, <1>n, <2>1, <2>2
  <2>3. CASE (reachable \/ kind = "nodeping") /\ poll' = [poll EXCEPT ![None] = p]
    <3>1. poll'[None] = p
      BY <1>n, <2>3 DEF TypeOK
    <3>2. kind = "nodeping" => \A h \in DOMAIN s : ~ s[h]
      BY <1>m DEF NodepingState
    <3>3. p.at = "answer" /\ p.state = s /\ (p.error => ~ reachable) /\ (~ reachable => s = NoMap)
      OBVIOUS
    <3> HIDE DEF s, p
    <3> QED
      BY <2>1, <2>3, <3>1, <3>2, <3>3 DEF ApiInv
  <2> QED
    BY <1>7, <2>2, <2>3 DEF Request
<1>8. CASE Answer
  <2>1. poll[None].at = "answer" /\ globalMap' = poll[None].state /\ kind' = kind
    BY <1>8 DEF Answer
  <2>2. poll'[None] = Idle
    BY <1>3, <1>8, <1>n DEF Answer
  <2> QED
    BY <1>n, <2>1, <2>2 DEF ApiInv
<1>9. CASE StatFile \/ ReadFails \/ ReadFile
  <2>1. kind' = kind /\ kind # "nodeping"
    BY <1>9 DEF StatFile, ReadFails, ReadFile, ApiInv
  <2> DEFINE p == [at |-> "read", modTime |-> file.mtime, content |-> file.content,
                   same |-> TRUE]
  <2>2. p.at = "read"
    OBVIOUS
  <2>3. poll'[None] = Idle \/ poll'[None] = p
    BY <1>3, <1>9, <1>n DEF StatFile, ReadFails, ReadFile, TypeOK
  <2> HIDE DEF p
  <2>4. poll'[None].at # "answer"
    BY <1>n, <2>2, <2>3
  <2> QED
    BY <2>1, <2>4 DEF ApiInv
<1>10. CASE World
  <2>1. UNCHANGED <<kind, globalMap>>
    BY <1>10 DEF World, HostChanges, Outage, WriteFile, ReplaceFile, FileChanges, RestoreFile,
                 Change
  <2>2. CASE UNCHANGED poll
    BY <1>1, <2>1, <2>2
  <2>3. CASE kind = "file" /\ poll[None].at = "read" /\ poll'[None].at = "read"
    BY <2>1, <2>3 DEF ApiInv
  <2>4. ASSUME NEW c, WriteFile(c) \/ ReplaceFile(c) \/ RestoreFile(c), poll' # poll
        PROVE  kind = "file" /\ poll[None].at = "read" /\ poll'[None].at = "read"
    <3>1. kind = "file" /\ poll[None].at = "read"
      BY <2>4 DEF WriteFile, ReplaceFile, RestoreFile, FileChanges
    <3>2. poll[None] \in Reading
      BY <1>n, <3>1, TestKeys DEF TypeOK
    <3>3. \/ poll' = [poll EXCEPT ![None] = [poll[None] EXCEPT !.content = c]]
          \/ poll' = [poll EXCEPT ![None] = [poll[None] EXCEPT !.same = FALSE]]
      BY <2>4, <3>1 DEF WriteFile, ReplaceFile, RestoreFile
    <3>4. \/ poll'[None] = [poll[None] EXCEPT !.content = c]
          \/ poll'[None] = [poll[None] EXCEPT !.same = FALSE]
      BY <1>n, <3>3 DEF TypeOK
    <3>5. poll'[None].at = "read"
      BY ONLY <3>2, <3>4, SMTT(60) DEF Reading
    <3> QED
      BY <3>1, <3>5
  <2>5. (\E h \in Hosts : HostChanges(h)) \/ Outage => UNCHANGED poll
    BY DEF HostChanges, Outage
  <2> QED
    BY <1>10, <2>2, <2>3, <2>4, <2>5 DEF World
<1>11. CASE Stop \/ UNCHANGED vars
  BY <1>1, <1>11 DEF Stop, vars
<1> QED
  BY <1>4, <1>5, <1>6, <1>7, <1>8, <1>9, <1>10, <1>11 DEF Next, PollGlobal

\* What a step may do to the health of a host in use.
KeepStep ==
    \A h \in references \cap references' :
        isHealthy(h)' # isHealthy(h) =>
            \/ poll[h].at = "tested" /\ isHealthy(h)' = poll[h].ok
            \/ poll[None].at = "read" /\ globalMap' = poll[None].content
            \/ poll[None].at = "answer" /\ globalMap' = poll[None].state
               /\ (poll[None].error => kind = "nodeping" /\ isHealthy(h)')

(* The health of a host in use changes only by the result of its own test, *)
(* or through the map that was read or answered.                           *)
LEMMA HostsKept == TypeOK /\ ApiInv /\ InUseInv /\ InUseInv' /\ [Next]_vars => KeepStep
<1> SUFFICES ASSUME TypeOK, ApiInv, InUseInv, InUseInv', [Next]_vars,
                    NEW h \in references \cap references', isHealthy(h)' # isHealthy(h)
             PROVE  \/ poll[h].at = "tested" /\ isHealthy(h)' = poll[h].ok
                    \/ poll[None].at = "read" /\ globalMap' = poll[None].content
                    \/ poll[None].at = "answer" /\ globalMap' = poll[None].state
                       /\ (poll[None].error => kind = "nodeping" /\ isHealthy(h)')
  BY DEF KeepStep
<1>1. h \in Hosts /\ Key(h) \in entries
  BY DEF TypeOK, InUseInv
<1>2. kind' = kind
  BY DEF Next, vars, World, HostChanges, Outage, WriteFile, ReplaceFile, FileChanges,
         RestoreFile, Change, Stop, PollGlobal, Request, Answer, StatFile, ReadFile, ReadFails,
         addTest, removeTest, TestLocal, LocalResult, TestHangs
<1>3. Key(h)' \in entries'
  BY DEF InUseInv
<1>4. healthy'[h] = healthy[h]
  <2>1. CASE UNCHANGED healthy
    BY <2>1
  <2>2. ASSUME NEW g \in Hosts, removeTest(g) PROVE healthy'[h] = healthy[h]
    <3>1. g # h
      BY <2>2 DEF removeTest
    <3> QED
      BY <2>2, <3>1 DEF removeTest, TypeOK
  <2> QED
    BY <2>1, <2>2 DEF Next, vars, World, HostChanges, Outage, WriteFile, ReplaceFile,
         FileChanges, RestoreFile, Change, Stop, PollGlobal, Request, Answer, StatFile,
         ReadFile, ReadFails, addTest, TestLocal, LocalResult, TestHangs, clientVars
<1>5. CASE kind \in Locals
  <2>1. isHealthy(h) = entryHealthy[h] /\ isHealthy(h)' = entryHealthy'[h] /\ Key(h) = h
    BY <1>1, <1>2, <1>3, <1>5 DEF isHealthy, Key, Locals, Globals
  <2>2. h \in Tests /\ h # None
    BY <1>1, TestKeys
  <2>3. ASSUME NEW k \in Tests, NEW ok, Tested(k, ok) PROVE k = h /\ entryHealthy'[h] = ok
    BY <2>1, <2>2, <2>3 DEF Tested, TypeOK
  <2>4. entryHealthy' # entryHealthy
    BY <2>1
  <2>5. ASSUME NEW g \in Hosts, addTest(g) PROVE FALSE
    <3>1. g \notin entries /\ entryHealthy' = [entryHealthy EXCEPT ![g] = healthy[g]]
      BY <1>5, <2>4, <2>5 DEF addTest, Key, Locals, Globals
    <3>2. g # h
      BY <1>1, <2>1, <3>1
    <3> QED
      BY <2>1, <2>2, <3>1, <3>2 DEF TypeOK
  <2>6. ASSUME NEW g \in Hosts, LocalResult(g)
        PROVE  poll[h].at = "tested" /\ isHealthy(h)' = poll[h].ok
    <3>1. g \in Tests /\ poll[g].at = "tested" /\ Tested(g, poll[g].ok)
      BY <2>6, TestKeys DEF LocalResult
    <3>2. g = h /\ entryHealthy'[h] = poll[g].ok
      BY <2>3, <3>1
    <3> QED
      BY <2>1, <3>1, <3>2
  <2>7. None \in Tests
    BY TestKeys
  <2>8. CASE PollGlobal \/ ReadFails
    BY <2>2, <2>3, <2>4, <2>7, <2>8
    DEF PollGlobal, Request, Answer, StatFile, ReadFile, ReadFails
  <2>9. ~ (World \/ Stop \/ UNCHANGED vars)
    BY <2>4 DEF World, HostChanges, Outage, WriteFile, ReplaceFile, FileChanges, RestoreFile,
                Change, Stop, vars
  <2>10. \A g : ~ (removeTest(g) \/ TestLocal(g) \/ TestHangs(g))
    BY <2>4 DEF removeTest, TestLocal, TestHangs
  <2> QED
    BY <2>5, <2>6, <2>8, <2>9, <2>10 DEF Next
<1>6. CASE kind \notin Locals
  <2>1. kind \in Globals /\ Key(h) = None
    BY <1>6 DEF TypeOK, Key
  <2>2. /\ isHealthy(h) = IF h \in DOMAIN globalMap THEN globalMap[h] ELSE healthy[h]
        /\ isHealthy(h)' = IF h \in DOMAIN globalMap' THEN globalMap'[h] ELSE healthy[h]
    BY <1>1, <1>2, <1>3, <1>4, <1>6 DEF isHealthy
  <2>3. globalMap' # globalMap
    BY <2>2
  <2>4. CASE ReadFile
    BY <2>3, <2>4 DEF ReadFile
  <2>5. CASE Answer
    <3>1. poll[None].at = "answer" /\ globalMap' = poll[None].state
      BY <2>5 DEF Answer
    <3>2. ASSUME poll[None].error PROVE kind = "nodeping" /\ isHealthy(h)'
      <4>1. kind = "nodeping" /\ globalMap' = NoMap
        BY <3>1, <3>2 DEF ApiInv
      <4>2. isHealthy(h)' = healthy[h]
        BY <2>2, <4>1 DEF NoMap
      <4>3. ~ isHealthy(h)
        BY <2>2, <4>1, <4>2 DEF ApiInv
      <4>4. healthy[h] \in BOOLEAN /\ isHealthy(h) \in BOOLEAN
        <5>1. healthy[h] \in BOOLEAN
          BY <1>1 DEF TypeOK
        <5>2. h \in DOMAIN globalMap => globalMap[h] \in BOOLEAN
          BY DEF TypeOK, GlobalMaps
        <5> QED
          BY <2>2, <5>1, <5>2
      <4> QED
        BY <4>1, <4>2, <4>3, <4>4
    <3> QED
      BY <3>1, <3>2
  <2>6. ASSUME NEW g \in Hosts, addTest(g) PROVE FALSE
    BY <1>1, <2>1, <2>3, <2>6 DEF addTest, Key
  <2>7. ~ (World \/ Stop \/ UNCHANGED vars)
    BY <2>3 DEF World, HostChanges, Outage, WriteFile, ReplaceFile, FileChanges, RestoreFile,
                Change, Stop, vars
  <2>8. ~ (Request \/ StatFile \/ ReadFails)
    BY <2>3 DEF Request, StatFile, ReadFails
  <2>9. \A g : ~ (removeTest(g) \/ TestLocal(g) \/ LocalResult(g) \/ TestHangs(g))
    BY <2>3 DEF removeTest, TestLocal, LocalResult, TestHangs
  <2> QED
    BY <2>4, <2>5, <2>6, <2>7, <2>8, <2>9 DEF Next, PollGlobal
<1> QED
  BY <1>5, <1>6

(* Neither outages nor the tests of other hosts take a host down: its      *)
(* health follows its own test, the file that was read, or the answer.     *)
THEOREM OutagesKeepHosts == Spec => OutageKeepsHosts
<1>1. Init => InUseInv
  BY DEF Init, InUseInv
<1>2. Init => ApiInv
  <2>1. Init => poll[None] = Idle /\ Idle.at = "idle"
    BY TestKeys DEF Init
  <2> QED
    BY <2>1 DEF Init, ApiInv, NoMap
<1> QED
  BY <1>1, <1>2, TestersInit, TestersStep, ApiStep, InUseStep, HostsKept, PTL
     DEF Spec, OutageKeepsHosts, KeepStep

=============================================================================
