--------------------------- MODULE HealthTesters ----------------------------
(***************************************************************************)
(* The built-in health testers (health/healthtest/healthtesters.go) and    *)
(* what the lookups of a zone (isHealthy, healthtest.go) make of them.     *)
(* tcp, ntp and exec test one host.  file, nodeping and pingdom are        *)
(* global: one test, shared by all the hosts, fetches a map of hosts.      *)
(*                                                                         *)
(* Each host has one HealthTest, made by copy(), so that all of them and   *)
(* the running test share the tester, and what it remembers of its file.   *)
(* HealthTestRunner has the details of the polling; here a test that fails *)
(* may or may not be the last of its retries.                              *)
(***************************************************************************)
EXTENDS Naturals, FiniteSets

CONSTANTS
    Hosts,
    FileMaps,       \* maps the JSON file may hold
    Broken,         \* a file that cannot be parsed
    None,           \* no file, no hash, no test
    Strata,         \* what an NTP server may say
    MaxStratum,     \* max_stratum
    MaxOps,         \* bound on adding and removing tests
    MaxChanges      \* bound on what happens to hosts, file and API

FileContents == FileMaps \cup {Broken, None}
GlobalMaps == UNION {[D -> BOOLEAN] : D \in SUBSET Hosts}

ASSUME TestersAssumption ==
    /\ FileMaps \subseteq GlobalMaps
    /\ None \notin Hosts \cup FileMaps
    /\ Broken \notin FileMaps \cup {None}
    /\ MaxStratum \in 0 .. 255
    /\ MaxOps \in Nat
    /\ MaxChanges \in Nat

Locals == {"tcp", "ntp", "exec"}
Globals == {"file", "nodeping", "pingdom"}
NoMap == [h \in {} |-> FALSE]

VARIABLES
    kind,           \* the type of the test
    initially,      \* healthyInitially
    ops, changes,
    reachable,      \* the API answers
    status,         \* the hosts, as the test or the API sees them
    file,           \* the JSON file, and its modification time
    clock,
    unnoticed,         \* history: its time does not tell it from what was read
    lastReadTime, lastHash,     \* the FileHealthTester
    references,     \* the hosts whose HealthTest is added
    entries,        \* the tests that run: a host, or None for the global one
    stopping,       \* the test that removeTest waits for
    entryHealthy,   \* entryHealthy[k]: t.healthy
    globalMap,      \* t.globalMap of the global test
    reused,         \* history: it was started with a tester used before
    poll,           \* where a poll is, and what it has got so far
    healthy,        \* healthy[h]: the health in the host's own HealthTest
    removed         \* history: hosts whose HealthTest was removed

worldVars == <<changes, reachable, status, file, clock, unnoticed>>
testerVars == <<lastReadTime, lastHash>>
clientVars == <<ops, references, entries, stopping, reused, healthy, removed>>
vars == <<kind, initially, worldVars, testerVars, clientVars, entryHealthy, globalMap, poll>>

\* "down" also stands for Pingdom's "paused".
Statuses == IF kind = "ntp" THEN Strata
            ELSE IF kind = "pingdom" THEN {"up", "down", "unconfirmed_down"}
            ELSE {"up", "down"}

Key(h) == IF kind \in Globals THEN None ELSE h
Tests == Hosts \cup {None}
Idle == [at |-> "idle"]
Hung == [at |-> "hung"]

Init ==
    /\ kind \in Locals \cup Globals
    /\ initially \in BOOLEAN
    /\ ops = 0
    /\ changes = 0
    /\ reachable = TRUE
    /\ status \in [Hosts -> Statuses]
    /\ kind = "file" => status = [h \in Hosts |-> "up"]    \* not looked at
    /\ \E c \in FileMaps \cup {None} : file = [content |-> c, mtime |-> 1]
    /\ kind # "file" => file.content = None
    /\ clock = 1
    /\ unnoticed = FALSE
    /\ lastReadTime = 0
    /\ lastHash = None
    /\ references = {}
    /\ entries = {}
    /\ stopping = {}
    /\ entryHealthy = [k \in Tests |-> initially]
    /\ globalMap = NoMap
    /\ reused = FALSE
    /\ poll = [k \in Tests |-> Idle]
    /\ healthy = [h \in Hosts |-> initially]
    /\ removed = {}

-----------------------------------------------------------------------------
(* What happens outside.                                                   *)

Change ==
    /\ changes < MaxChanges
    /\ changes' = changes + 1
    /\ UNCHANGED <<kind, initially, testerVars, clientVars, entryHealthy, globalMap>>

HostChanges(h) ==
    /\ kind # "file"
    /\ Change
    /\ \E s \in Statuses : status' = [status EXCEPT ![h] = s]
    /\ UNCHANGED <<reachable, file, clock, unnoticed, poll>>

Outage ==
    /\ kind \in {"nodeping", "pingdom"}
    /\ Change
    /\ reachable' = ~ reachable
    /\ UNCHANGED <<status, file, clock, unnoticed, poll>>

\* The modification times a poll under way, or the next one, takes for known.
KnownTimes ==
    {lastReadTime} \cup (IF poll[None].at = "read" THEN {poll[None].modTime} ELSE {})

FileChanges(c) ==
    /\ kind = "file"
    /\ Change
    /\ clock' \in {clock, clock + 1}
    /\ file' = [content |-> c, mtime |-> clock']
    /\ unnoticed' = (file'.mtime \in KnownTimes)
    /\ UNCHANGED <<reachable, status>>

\* In place, in several steps: a poll that has the file open reads the new
\* content.
WriteFile(c) ==
    /\ file.content # None
    /\ FileChanges(c)
    /\ poll' = IF poll[None].at = "read" /\ poll[None].same
               THEN [poll EXCEPT ![None].content = c] ELSE poll

\* Another file is renamed to it, or it is removed: a poll goes on reading the
\* old one.
ReplaceFile(c) ==
    /\ FileChanges(c)
    /\ poll' = IF poll[None].at = "read" THEN [poll EXCEPT ![None].same = FALSE] ELSE poll

\* An older copy of the file, with its time, is put back.
RestoreFile(c) ==
    /\ kind = "file"
    /\ Change
    /\ file.mtime > 1
    /\ file' = [content |-> c, mtime |-> file.mtime - 1]
    /\ unnoticed' = (file'.mtime \in KnownTimes)
    /\ poll' = IF poll[None].at = "read" THEN [poll EXCEPT ![None].same = FALSE] ELSE poll
    /\ UNCHANGED <<reachable, status, clock>>

World ==
    \/ \E h \in Hosts : HostChanges(h)
    \/ Outage
    \/ \E c \in FileMaps \cup {Broken} : WriteFile(c) \/ ReplaceFile(c) \/ RestoreFile(c)
    \/ ReplaceFile(None)

-----------------------------------------------------------------------------
(* Adding and removing, with entryMutex held.                              *)

Operation ==
    /\ stopping = {}
    /\ ops < MaxOps
    /\ ops' = ops + 1

\* The test is copied with the health of the HealthTest, and an empty map.
addTest(h) ==
    /\ Operation
    /\ references' = references \cup {h}
    /\ entries' = entries \cup {Key(h)}
    /\ IF Key(h) \in entries
       THEN UNCHANGED <<entryHealthy, globalMap, reused>>
       ELSE /\ entryHealthy' = [entryHealthy EXCEPT ![Key(h)] = healthy[h]]
            /\ globalMap' = NoMap
            /\ reused' = (lastHash # None)
    /\ UNCHANGED <<kind, initially, worldVars, testerVars, stopping, poll, healthy, removed>>

removeTest(h) ==
    /\ Operation
    /\ Key(h) \in entries
    /\ references' = references \ {h}
    /\ healthy' = [healthy EXCEPT ![h] = entryHealthy[Key(h)]]
    /\ removed' = removed \cup {h}
    /\ stopping' = {k \in {Key(h)} : \A g \in references' : Key(g) # k}
    /\ UNCHANGED <<kind, initially, worldVars, testerVars, entries, reused,
                   entryHealthy, globalMap, poll>>

\* Stop() waits for the poll under way.
Stop ==
    /\ stopping # {}
    /\ \A k \in stopping : poll[k] = Idle
    /\ entries' = entries \ stopping
    /\ stopping' = {}
    /\ UNCHANGED <<kind, initially, worldVars, testerVars, ops, references, reused, healthy,
                   removed, entryHealthy, globalMap, poll>>

-----------------------------------------------------------------------------
(* The polls.                                                              *)

\* The poll of k is over.
Tested(k, ok) ==
    /\ poll' = [poll EXCEPT ![k] = Idle]
    /\ \/ entryHealthy' = [entryHealthy EXCEPT ![k] = ok]
       \/ ~ ok /\ UNCHANGED entryHealthy

NtpTestBelow(stratum) == ~ (stratum = 0 \/ stratum >= MaxStratum % 256)

\* NtpHealthTester: an answer of stratum 0 is no answer.
NtpTest(stratum) == ~ (stratum = 0 \/ stratum > MaxStratum % 256)

\* The host is tested; tcp and ntp give up after a timeout, with the result
\* that it is down.
TestLocal(h) ==
    /\ h \in entries
    /\ poll[h] = Idle
    /\ poll' = [poll EXCEPT ![h] =
                  [at |-> "tested",
                   ok |-> IF kind = "ntp" THEN NtpTest(status[h]) ELSE status[h] = "up"]]
    /\ UNCHANGED <<kind, initially, worldVars, testerVars, clientVars, entryHealthy, globalMap>>

LocalResult(h) ==
    /\ poll[h].at = "tested"
    /\ Tested(h, poll[h].ok)
    /\ UNCHANGED <<kind, initially, worldVars, testerVars, clientVars, globalMap>>

\* The command does not end, or the API does not answer: neither has a timeout.
TestHangs(k) ==
    /\ kind \in {"exec", "nodeping", "pingdom"}
    /\ k \in entries
    /\ poll[k] = Idle
    /\ poll' = [poll EXCEPT ![k] = Hung]
    /\ UNCHANGED <<kind, initially, worldVars, testerVars, clientVars, entryHealthy, globalMap>>

NodepingState == [h \in {g \in Hosts : status[g] # "up"} |-> FALSE]

\* defaultPingdomStateMap: other states are left out.
PingdomState == [h \in {g \in Hosts : status[g] # "unconfirmed_down"} |-> status[h] = "up"]

\* The API answers, or the request fails.  Nodeping's status code is not looked
\* at: a JSON error is taken for an answer that mentions no host, and recorded
\* as an error only here.
Request ==
    /\ kind \in {"nodeping", "pingdom"}
    /\ None \in entries
    /\ poll[None] = Idle
    /\ \/ /\ reachable \/ kind = "nodeping"
          /\ poll' = [poll EXCEPT ![None] =
                        [at |-> "answer",
                         error |-> ~ reachable,
                         state |-> IF ~ reachable THEN NoMap
                                   ELSE IF kind = "nodeping" THEN NodepingState
                                   ELSE PingdomState]]
          /\ UNCHANGED entryHealthy
       \/ /\ ~ reachable
          /\ Tested(None, FALSE)
    /\ UNCHANGED <<kind, initially, worldVars, testerVars, clientVars, globalMap>>

Answer ==
    /\ poll[None].at = "answer"
    /\ globalMap' = poll[None].state
    /\ Tested(None, TRUE)
    /\ UNCHANGED <<kind, initially, worldVars, testerVars, clientVars>>

Unmodified == file.mtime = lastReadTime

StatFile ==
    /\ kind = "file"
    /\ None \in entries
    /\ poll[None] = Idle
    /\ IF file.content # None /\ ~ Unmodified
       THEN /\ poll' = [poll EXCEPT ![None] =
                          [at |-> "read", modTime |-> file.mtime,
                           content |-> file.content, same |-> TRUE]]
            /\ UNCHANGED entryHealthy
       ELSE Tested(None, file.content # None)
    /\ UNCHANGED <<kind, initially, worldVars, testerVars, clientVars, globalMap>>

\* The time is kept though nothing was read.
ReadFailsLate ==
    /\ poll[None].at = "read"
    /\ lastReadTime' = poll[None].modTime
    /\ Tested(None, FALSE)
    /\ UNCHANGED <<kind, initially, worldVars, lastHash, clientVars, globalMap>>

ReadFails ==
    /\ poll[None].at = "read"
    /\ Tested(None, FALSE)
    /\ UNCHANGED <<kind, initially, worldVars, testerVars, clientVars, globalMap>>

ReadFile ==
    /\ poll[None].at = "read"
    /\ lastReadTime' = poll[None].modTime
    /\ lastHash' = poll[None].content
    /\ IF lastHash' # lastHash /\ lastHash' # Broken
       THEN globalMap' = lastHash'
       ELSE UNCHANGED globalMap
    /\ Tested(None, lastHash' = lastHash \/ lastHash' # Broken)
    /\ UNCHANGED <<kind, initially, worldVars, clientVars>>

PollGlobal == Request \/ Answer \/ StatFile \/ ReadFile

Next ==
    \/ World
    \/ Stop
    \/ PollGlobal \/ ReadFails
    \/ \E h \in Hosts : addTest(h) \/ removeTest(h) \/ TestLocal(h) \/ LocalResult(h)
    \/ \E k \in Tests : TestHangs(k)

Spec == Init /\ [][Next]_vars

\* A result after which the test has it for its health: of the results that
\* keep coming in, the last of the retries is one.
LastResult(h) == LocalResult(h) /\ entryHealthy'[h] = poll[h].ok

\* Tests are polled again and again until one hangs, and a file can be read in
\* the end.
FairSpec ==
    /\ Spec
    /\ WF_vars(Stop)
    /\ WF_vars(Request)
    /\ WF_vars(Answer)
    /\ WF_vars(StatFile)
    /\ SF_vars(ReadFile)
    /\ \A h \in Hosts : WF_vars(TestLocal(h)) /\ SF_vars(LastResult(h))

-----------------------------------------------------------------------------
\* A lookup that falls back on the test instead of the host's HealthTest.
isHealthyOfEntry(h) ==
    IF Key(h) \notin entries THEN healthy[h]
    ELSE IF kind \in Globals /\ h \in DOMAIN globalMap THEN globalMap[h]
    ELSE entryHealthy[Key(h)]

\* HealthTestRunner.isHealthy
isHealthy(h) ==
    IF Key(h) \notin entries THEN healthy[h]
    ELSE IF kind \in Locals THEN entryHealthy[h]
    ELSE IF h \in DOMAIN globalMap THEN globalMap[h]
    ELSE healthy[h]

Polls ==
    {Idle, Hung}
           \cup [at : {"tested"}, ok : BOOLEAN]
           \cup [at : {"answer"}, error : BOOLEAN, state : GlobalMaps]
           \cup [at : {"read"}, modTime : Nat, content : FileContents \ {None},
                 same : BOOLEAN]

TypeOK ==
    /\ kind \in Locals \cup Globals
    /\ initially \in BOOLEAN
    /\ ops \in Nat /\ changes \in Nat
    /\ reachable \in BOOLEAN
    /\ status \in [Hosts -> Statuses]
    /\ file \in [content : FileContents, mtime : Nat]
    /\ clock \in Nat
    /\ unnoticed \in BOOLEAN
    /\ lastReadTime \in Nat
    /\ lastHash \in FileContents
    /\ references \subseteq Hosts
    /\ entries \subseteq Tests /\ stopping \subseteq entries
    /\ entryHealthy \in [Tests -> BOOLEAN]
    /\ globalMap \in GlobalMaps
    /\ reused \in BOOLEAN
    /\ poll \in [Tests -> Polls]
    /\ healthy \in [Hosts -> BOOLEAN]
    /\ removed \subseteq Hosts

(* The file tester skips a file only when the running test has its map: if *)
(* the modification time is the one remembered, the file parses and was    *)
(* not changed within the resolution of that time, then the map in use is  *)
(* the file's, although reads fail and the file is rewritten or replaced   *)
(* while it is being read.  A test started with a tester used before may   *)
(* have no map at all.                                                     *)
SkipsOnlyWhatItRead ==
    kind = "file" /\ None \in entries /\ file.content \in FileMaps /\ ~ unnoticed
        /\ poll[None] = Idle /\ Unmodified
        => globalMap = file.content \/ (reused /\ globalMap = NoMap)

(* What a host in use is taken for changes only to what a test of the host *)
(* itself found, or because the file that was read or the answer of the    *)
(* API says so: a file that is missing, unreadable or broken, a request    *)
(* that fails or hangs, and adding or removing the tests of other hosts    *)
(* change nothing, however often the global test fails.  The exception is  *)
(* Nodeping's error reply, which is taken for the answer that no host is   *)
(* down: it may bring hosts back up, and takes none down.                  *)
OutageKeepsHosts ==
    [][\A h \in references \cap references' :
          isHealthy(h)' # isHealthy(h) =>
              \/ poll[h].at = "tested" /\ isHealthy(h)' = poll[h].ok
              \/ poll[None].at = "read" /\ globalMap' = poll[None].content
              \/ poll[None].at = "answer" /\ globalMap' = poll[None].state
                 /\ (poll[None].error => kind = "nodeping" /\ isHealthy(h)')]_vars

\* What the source of a global test says.
Said == IF kind = "file" THEN file.content
        ELSE IF kind = "nodeping" THEN NodepingState ELSE PingdomState

\* The source can be consulted, and shows that it has changed.
Available ==
    IF kind = "file"
    THEN file.content \in FileMaps /\ ~ unnoticed /\ ~ (reused /\ globalMap = NoMap)
    ELSE reachable

Agrees(h) ==
    IF kind \in Locals
    THEN isHealthy(h) = IF kind = "ntp" THEN status[h] \in 1 .. MaxStratum ELSE status[h] = "up"
    ELSE IF h \in DOMAIN Said THEN isHealthy(h) = Said[h]
    ELSE h \notin removed => isHealthy(h) = initially

(* When nothing changes any more, every host in use ends up with the       *)
(* health its test, the file or the API gives it, and a host that is not   *)
(* mentioned with the default of its test, unless its HealthTest was       *)
(* removed before: removeTest() overwrites the default of a global test    *)
(* with the health of the test itself.  A host whose test hangs (exec,     *)
(* Nodeping and Pingdom have no timeout) keeps the health it had.          *)
HostsFollow ==
    <>[](Available => \A h \in references : poll[Key(h)] = Hung \/ Agrees(h))

=============================================================================
