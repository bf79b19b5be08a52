# A verification of geodns in TLA+

geodns is an authoritative DNS server that answers according to where the
client is. It reads zones from JSON files, reloads them while it runs, and for
each query picks a label by the client's targets (country, continent, AS
number, address), then some of the label's records by weight, health and
distance. This directory holds TLA+ models of the parts of it whose correctness
depends on order, concurrency or arithmetic, the TLC configurations that check
them on small instances, and TLAPS proofs of the most important properties for
all instances.

## The system

| Part | Source | State | Operations |
|---|---|---|---|
| zone manager | `zones/muxmanager.go` | `lastRead`, `zonelist`, the mux | `reload` every 2 s: list, compare times, hash, parse, register, remove |
| DNS server | `server/server.go`, `server/serve.go` | the mux, a goroutine per query | `ServeDNS`, `serve` |
| label lookup | `zones/zone.go` | `z.Labels`, immutable once registered | `FindLabels` |
| record picker | `zones/picker.go` | local to a call | `Picker`, `filterHealth` |
| zone statistics | `zones/zone_stats.go` | ring of labels, `pos`, `rotated` | `Add`, `Reset`, `Close`, `Counts`, `TopCounts` |
| zone file reader | `zones/reader.go`, `zones/zone.go` | the zone being built | `ReadZoneFile`, `setupZoneData`, `addSOA`, `SetLocations`, `setupHealthTests` |
| health test runner | `health/healthtest` | `entries`, references, two goroutines per test | `addTest`, `removeTest`, `refAllGlobalHealthChecks`, `run`, `poll`, `Stop` |
| health status | `health/status.go`, `status_file.go` | registry of status maps | `DirectoryReader`, `Load`, `GetStatus` |
| health testers | `health/healthtest/healthtesters.go` | what the file tester remembers, the map of a global test | `Test` of six testers, `isHealthy` |
| targeting | `targeting/...` | lazily opened databases | `GetTargets`, `getGeoTargets`, `HasLocation`, `GetLocation` |
| query log | `querylog/querylog.go`, `server/serve.go` | the entry of a query, the log's files | `Write`, deferred by `serve`; rotation by lumberjack |
| log processor | `geodns-logs` | counters, channels, the file being tailed | `processFile`, `processChan`, `Stats.Add`; following the file by hpcloud/tail |
| configuration watcher | `config.go`, `http.go` | the configuration, time of the last read | `configWatcher`, `configReader`; `basicauth` reads it |
| application log | `applog/log.go` | file, channels | `FileOpen`, `logToFileMonitor`, `FileClose` |
| main | `geodns.go` | where it is | opens the log, starts the others, waits for the signal, closes the log |

How they interact: `main` loads the zones once (`NewMuxManager`), starts the
polling goroutine (`Run`) and then listens. The manager registers a closure over
a zone object with the server's mux; a query keeps the object it was matched
with, while the manager may replace or close it. Successive objects of a zone
share their statistics. `serve` goes through the labels `FindLabels` returns and
calls `Picker` on each until one gives records; `Picker` reads the health status,
which other goroutines change: `DirectoryReader` reloads the registry of statuses
from files every second. Every query is added to the ring of its zone when it
comes and to the query log when it goes; `geodns-logs`, a program of its own,
counts the log. `main` also starts the monitor of the application log and the
watcher of the configuration, which run until the process ends.

What makes it hard: the two reads of a file in one pass (`sha256File`, then
`ReadZoneFile`) with a directory that changes between them; zones closed and
replaced under running queries; rings shared between generations of zones; the
arithmetic of the weighted draw; health that changes between the labels of one
query; tests that are stopped while a poll is under way, with a mutex held;
status objects that are reloaded or closed between being found and being asked;
a zone built by loops over maps whose order Go leaves open, one of which adds to
the map it goes through; a log file that is swapped while all goroutines write to
it; a configuration whose changes are told by events that may be dropped, merged
or of a kind that is ignored, and by times with the resolution of a tick; testers
that remember what they read for a test that is gone, or that never return; a log
that is rotated by one program while another follows it; an address that is
changed in place by its first use.
`PROJECT.json` lists the hazards with their lines.

## The modules

| Module | Models | Actions |
|---|---|---|
| `ZoneReload` | `MuxManager` and the files it polls | the editors' `WriteFile`, `TouchFile`, `RevertFile`, `BackdateFile`, `RemoveFile`, `ChmodFile`; the manager's `ReadDir`, `ReadDirFails`, `CheckFile`, `ParseFile`, `FilesDone`, `CloseZone`, `RemoveZone`, `PassDone` |
| `ZoneServing` | queries in flight, on top of `ZoneReload` | `Match`, `CountLabel`, `CountClient`, `Answer` |
| `RecentLabels` | what a ring promises: the last `Size` labels | `Record`, `Clear` |
| `LabelStats` | the ring, which implements `RecentLabels` | `add`, `Reset`, `Close`; `Counts` and `TopCounts` as operators |
| `Sums` | sums of weights and of counts, as `SumOf` | operators only |
| `LogProcessor` | `geodns-logs`: the goroutine that reads and the one that counts | `Open`, `OpenFails`, `HandOver`, `EndOfFile`; `Watch`, `Modified`, `Deleted`, `Truncated`; `ProcessLine`, `ChannelClosed` |
| `QueryStats` | queries, the ring and the query log, composed of `LabelStats` and `LogProcessor` | `Arrive`, `Return`, `WriteFails`, `RenameLog`, `CreateLog`, `CountLog` |
| `Picker` | one call of `Picker`, and the weights of `setupZoneData` | `Start`, `ClosestPass`, `KeepChosen`, `Draw`, `Return` |
| `Targeting` | the targets of a client, and the databases they come from | operators only |
| `Answer` | `serve`: targets, `FindLabels` and the loop over its matches, with health changing | `FindTargets`, `FollowAlias`, `MatchTypes`, `Return`, `TryMatch`, `NothingFound`, `WriteReply`, `WriteMsg`, `SetHealth` |
| `HealthTestRunner` | health tests shared by zones, with their goroutines | `addTest`, `removeTest`, `refAllGlobal`, `unrefAllGlobal`, `Dereference`, `StopRun`, `CloseChannels`, `Unlock`, `StartPoll`, `TestServer`, `TestHangs`, `Result`, `Flip` |
| `HealthTesters` | the six built-in testers, and what lookups make of them | `HostChanges`, `Outage`, `WriteFile`, `ReplaceFile`, `RestoreFile`; `addTest`, `removeTest`, `Stop`; `TestLocal`, `LocalResult`, `TestHangs`, `Request`, `Answer`, `StatFile`, `ReadFile`, `ReadFails` |
| `HealthStatus` | the registry of health statuses, the directory it is loaded from, and lookups | `Edit`; `ReadDir`, `ReadFile`, `ReadFileFails`, `Store`, `Sweep`; `Lookup`, `GetStatus`, `Return` |
| `ZoneData` | how a zone file becomes a zone | `ReadOptions`, `ReadLabel`, `LabelsRead`, `Visit`, `addSOA`, `SetLocations`, `setupHealthTests` |
| `AppLog` | the log file, its rotation and its monitor | `RenameLog`, `RecreateLog`, `TruncateLog`; `FileOpen`, `Printf`, `StatLog`, `OpenNewFile`, `OpenFails`, `SetOutput`, `CloseOldFile`, `FileClose`, `CloseRequested`, `CloseLogFile` |
| `ConfigWatcher` | `geodns.conf`, its watcher and its readers | `WriteConf`, `TouchConf`, `ReplaceConf`, `MoveConf`; `DropEvent`, `TakeEvent`, `StartWatcher`, `StatConf`, `StampConf`, `ParseConf`, `CopyUser`, `CopyPassword`, `ReadUser`, `ReadPassword` |
| `Daemon` | `main`, composed of `AppLog` and `ConfigWatcher` | `OpenLog`, `Serve`, `Terminate`, `Exit`, and the steps of the two |

`MC*` modules give the constants their values for TLC, `*Proofs` modules hold
the theorems. Definitions that end in words like `Once`, `Late` or `Unsorted`
and precede the definition they resemble are its mutants: plausible bugs, each
of which makes the property listed with it in `PROJECT.json` fail.

### Correspondence

* **ZoneReload.** A step is what happens between two looks at the file system:
  `ReadDir` takes names and times together, `CheckFile` records the time and
  reads the file for its hash, `ParseFile` reads it again and registers the
  zone; the removal loop takes two steps per zone, because queries run between
  `zone.Close()` and `removeHandler`. A content is a model value and stands for
  its own hash; `Valid` are the contents `ReadZoneFile` accepts. A zone object
  is a content and the number of its ring: `gen` numbers the rings of a zone,
  `closed` is the last one that was closed. The built-in zone `pgeodns` is
  registered first, has no file, and is never removed. `EnvOps` selects what
  editors do: `AtomicUpdates` is what the comment in `reload` asks for (each
  replacement new, with a new time). Any pass may fail to list the directory; when
  the first one does, `main` logs the error and listens all the same (`up`, while the
  history variable `loaded` says "failed").
* **ZoneServing.** `panicked` is the end of the process: an `Add` on a ring that
  `Close()` has emptied indexes out of range, and nothing recovers.
* **LabelStats.** `len` is the length of the slice: `Size`, or 0 once closed.
  `Reset` and `TopCounts` are called by tests only.
* **LogProcessor.** The channel is unbuffered: handing a line over is one step of
  both goroutines. `follow` tells `main`, which tails a log, from `processFile`,
  which reads one to its end (and is called by nothing in the repository). An
  entry is what `Stats.Key` makes of it and whether it has answers. `lines` are all
  the lines ever written; a file of the log is the number of lines before its first,
  so `starts` are the files, and a file goes up to the start of the next. The tailing
  library is modelled as `main` configures it (`Poll`, `ReOpen`, `Follow`): at the end
  of the file it watches the path, and opens it again when it finds another file there,
  or none. If the watch starts after a rotation, on another file than the one that is
  open, a shorter size counts as a truncation, which lengths of lines decide
  (`Truncated` may happen). `TailFile` returns an error only with `MustExist`, which
  `main` does not set, so lines 97 to 99 of `process-stats.go` are not reached.
* **QueryStats.** `serve` defers the write of its entry before the function that
  sets `Rcode` and `Answers`; deferred calls run last one first (`Logged`). A
  write that fails may leave half a line. A write that would make the file too large
  renames it and creates another (`RenameLog`, `CreateLog`): readers may look in
  between. `replied` is history.
* **Picker.** As every filter keeps the order of the slice, a slice is a set of
  positions. Distances are whole numbers, and the 5% are exact. A negative `max` cuts
  the slice beyond its bounds, which panics (`Start`).
* **Targeting.** A client has one country, one region and so on, so a target is
  named by its kind. `known` is what the databases say of the address, and of the
  address with its last byte zeroed; an IPv4 address ("v4") becomes its /24
  ("v4net") in place. `geo` says which databases there are and whether the city
  database is open: loading a zone opens it, as another zone may have done.
* **Answer.** A label is a pair of a name and a target. Of a label's records it
  matters which types there are and for which a server is healthy. `closest` is the
  zone's option, the default of its labels: `HasClosest` holds if the option or a
  label asks for it, and locations are looked up for addresses only (`Loadable`).
  `FindLabels` calls itself for every alias, so its calls are a stack, and a step is
  what one call does for one target: follow the alias (`FollowAlias`), then add the
  matches (`MatchTypes`); or give back what was found (`Return`). The search reads
  no health, so health does not change during it. On a loop of aliases the stack
  grows without end, as that of the program does. History variables: `steady`, the
  records with a healthy server ever since the start; `called`, the names looked up;
  `at`, in a match, the target of the queried name that led to it.
* **HealthTestRunner.** `entryMutex` is held through an operation that stops
  tests, which is several steps: drop the reference, hand over the closing
  channel, close the channels, delete the entry. `poll` is the goroutine of a
  poll, with its result once it has one. Polls start at any time. `Timed` are the
  tests whose check gives up (tcp, ntp); a command, and a request to Nodeping or
  Pingdom, may never return (`TestHangs`).
* **HealthTesters.** Each host has a `HealthTest` that shares its tester with the
  running test (`copy` copies the pointer). A global test has the key `None`. A poll
  of the file is two steps, open and read, between which the file may be rewritten
  in place (the poll reads the new content) or replaced (it reads the old one). The
  test of a host is two steps, the result and its use, between which the host may
  change. Requests to Nodeping and Pingdom are abstracted to the map they give or
  their failure; that the map comes from an error reply of Nodeping is kept in the
  poll (`error`). Checks without a timeout may hang (`TestHangs`). How many failures
  in a row take a test down is `HealthTestRunner`'s matter: here any may. `addTest`
  and `removeTest` are called by nothing outside their package yet.
* **HealthStatus.** A file is what it says of one check. A step is what happens
  under one lock, or one look at the file system. Status objects are numbered per
  file, so that a lookup can hold one that is closed. History variables: `held`,
  what a file has been during the pass, and `during`, the statuses of the check
  during a lookup. A file that is listed may be gone or fail to be read
  (`ReadFileFails`). The directory itself can always be listed: a pass that cannot
  list it does nothing. A service that is `null` in a file is left out.
* **ZoneData.** One behaviour is one reading of one file. A name is the sequence of
  its parts; keys that differ in case only are two keys of one name, of which the
  last one read stays. `Visit` may or may not come across the labels it adds. Of
  a record its weight, test, TTL and location remain, and whether it is well
  formed, "bad" (one of the panics that `ReadZoneFile` turns into an error) or
  "empty" (a text of length 0, whose slot stays nil). The state of a zone that is
  rejected is dropped with it. `sort.Sort` leaves the order of equal weights open,
  and so does the model (`Sorted`).
* **AppLog.** Files and descriptors are numbered as they are made. The standard
  logger has a lock of its own, so a line and a change of output are steps. That
  the log file cannot be opened at the start ends the process and is left out.
* **ConfigWatcher.** Times are ticks, several changes may fall into one. The steps
  of `configReader` are its looks at the file and at the clock and the copy, field
  by field, into `Config`; two fields stand for all. fsnotify is modelled after
  its inotify backend: a file moved into place is a `Create`, and events of a file
  that is gone are dropped, but for `Rename`. `heard` is history: the file
  is the one at the start, or was then written directly or touched, while it was
  watched, with a time after that of the last reading.
* **Daemon.** The goroutines of the two components run between `OpenLog` and
  `Exit`; a log file is optional.

## The runs

| Run | Shows |
|---|---|
| `reload_atomic` | files replaced atomically: a file that would not be read again is being served (`RecordsCurrent`), the first pass is done before the server listens, and served unless it failed as a whole (`ServedFromStart`); the server ends up serving the directory (`Converges`) |
| `reload_reverted` | **violation** of `RecordsCurrent`: a content changed and changed back around the two reads leaves the one in between in service |
| `serving` | whatever editors do, with queries in flight: only valid contents that were on disk are served, only zones whose file was missing are dropped; queries in flight count in the ring of the registered zone; a registered zone's ring is open except during its removal |
| `serving_crash` | **violation** of `NeverPanics`: a zone file removed while a query of the zone is being served |
| `query_stats` | the ring is a window of the last labels (`RefinesRecentLabels`) and its summaries count exactly those; the log processor has counted the lines it has handled, and reads files from their start line by line (`CountsLines`); without rotation it ends up with the replies the server gave, and otherwise with all lines of the current file, unless it has lost it (`LogCounted`) |
| `picker` | answers are distinct healthy servers, drawn in proportion to the weights, from the nearest clusters that make `max` servers (`ClosestCluster`); the call ends |
| `answer` | the most specific label that keeps a healthy server answers; NXDOMAIN is sent exactly when the search can find nothing (`NegativeSound`); targeting fails only without a city database; `_country` shows the targets in use |
| `health_runner` | no send on a closed channel, no leaked or wrongly stopped test, `retries` honoured; stopping ends (`StopsEnd`) and health follows the servers (`HealthFollows`), but for checks that never return |
| `health_testers` | the file tester skips only what it has (`SkipsOnlyWhatItRead`); no outage takes a host down (`OutageKeepsHosts`); hosts end up as their source says, but for checks that hang (`HostsFollow`) |
| `health_status` | a lookup returns a status the check had during the lookup; files that are invalid, unreadable or gone since they were listed change nothing (`ErrorsPreserve`); statuses end up as the files say |
| `zone_data` | the zone is what the file says, whatever the order of the maps; weights, totals and order are consistent, which `Picker` assumes (`SortedByWeight`, `SetWeights`); a file is served whole or rejected for a reason; `closest` servers are located and tested ones have tests |
| `daemon` | no line goes to a closed file and no descriptor leaks (`OutputOpen`); requests see one version of the configuration (`CredentialsPaired`); the log file, and a configuration that is written directly or touched, are followed (`LogFollowsPath`, `ConfigFollows`); a signal ends the server (`Stops`) |

### Bounds, and why they are enough

* `MaxTime` (3; 2 where two queries are added, as the proofs cover all bounds): each
  edit of a file takes a tick of the clock. Three edits are enough for a change in
  each of the three windows of a pass (before, between and after its two reads), and
  for removal, return and change of a file. Two zones, one of them `pgeodns`: files
  are independent of each other but for the pass that handles them in turn. Three
  contents, one invalid. Edits that are not atomic (`RevertFile`, `BackdateFile`,
  `ChmodFile`) happen in `serving`; `reload_atomic` excludes them by `EnvOps`.
* `Queries`: two, interchangeable (symmetry): one closes over an old object,
  one over a new one.
* `Size` 3 with two labels, two queries at a time (`MaxServing`), two lines
  (`MaxLines`) in up to three files (`MaxFiles`), two keys: the ring fills up and can be
  emptied, lines of the same and of different keys meet, one may be garbled with a line
  before or after it, and the log may be rotated before, between and after lines and
  looks at the path. `CountsLines` is proved for any log.
* `Picker`: three servers, weights -2, 0, 1, 2, `max_hosts` from -1 to 2, distances 0
  and 20 to 22, so that 5% lies between them and clusters can chain.
* `Answer`: four families of cases. Every zone with one target besides `@`, for an
  ordinary client, and two names, one of them possibly an alias of the other, the
  other possibly `closest` where it has addresses: a match is more or less specific,
  and direct or through an alias.
  One change of health (`MaxFlips`) during the query: each match is looked at
  once. And simple zones for every kind of client, five sets of targeting options
  that between them use each option, and databases that are all there, partly or
  not at all. And chains of two aliases, of which any link may be missing for any
  target. And zones that are `closest` by default, with a label that is not. Loops are
  left to the proofs.
* `HealthTestRunner`: two tests, one global that may hang, one that may not (`Timed`),
  two clients, three operations
  (`MaxOps`: add, add or remove, remove), two changes of the servers
  (`MaxFlips`: down, up, down, with the initial state), `Retries` 2.
  `failCount` stops at `Retries`, as it is only compared with it.
* `HealthTesters`: two hosts, a map with both and one with one of them, three
  operations (add, remove, add again), three changes outside, strata 0, 3 and 4
  around `max_stratum` 3.
* `Daemon`: two parsable configurations and a broken one, one request at a time
  (requests only read), two rotations or edits (`MaxEdits`): before and after any
  step of the monitor or of `configReader`.
* `HealthStatus`: two files, one lookup at a time (lookups do not affect each
  other), two changes of files (`MaxEdits`) from any start: one before and one
  after a file is read, or removal and return.
* `ZoneData`: the root, `www` in two spellings and `x.y.www`, with a name in
  between; seven kinds of label, which between them show each way a list can be
  sorted, weighted, located, tested or malformed, a tie of weights included; three
  sets of options, one of them invalid.

Deadlock is not checked where the system may stop: a call or a query that is
done (`picker`, `answer`, `zone_data`), a process that has ended (`serving`,
`serving_crash`), a runner without tests (`health_runner`, `health_testers`), a log
without further lines (`query_stats`).

### Fairness

* `ZoneReload`: weak fairness of the manager's steps: `Run` is an endless loop
  with a sleep, and the directory can be listed in the end (`Reload` leaves out
  `ReadDirFails`). None for the editors.
* `Picker`: weak fairness of the call.
* `HealthTestRunner`: weak fairness of each goroutine's steps. A check returns
  (`TestServer`) or hangs (`TestHangs`), after which nothing is assumed of it.
  Strong fairness of `StopRun`: between two polls the closing channel is ready, and
  Go's `select` chooses at random among ready channels. None for clients or servers.
* `HealthStatus`: weak fairness of `DirectoryReader`, an endless loop with a sleep;
  strong fairness of `ReadFile`: a file that is there can be read in the end. None for
  editors or lookups.
* `QueryStats`: weak fairness of the log processor; none for queries, rotations, or the
  mistaking of a new file for a truncated one.
* `HealthTesters`: weak fairness of `Stop` and of the polls that do not hang; strong
  fairness of `ReadFile`: a file that is polled again and again is readable in the end;
  and of `LastResult`: the results of a host keep coming in, and after some number of
  them the test has the result for its health.
* `Daemon`: weak fairness of each goroutine's steps; strong fairness of
  `CloseRequested`, as Go's `select` chooses at random between the request and the
  timer, and of `OpenNewFile`: the log file can be opened in the end. None for the
  signal, for rotations, edits or new requests.

## What is proved

All theorems hold for every value of the constants that the named assumptions
admit: any number of zones, servers, tests, hosts, labels or records, any bound on
edits and queries. A safety invariant is proved by an inductive one that implies
it, one lemma per action. Every safety property of the passing runs is proved.

* `ZoneProofs`, the manager: `TypeCorrect`; `RecordsAreCurrent`, for
  `AtomicUpdates`; `DropsOnlyMissing`; `ServesWhatWasOnDisk`; `ServesFromStart`, if
  no file becomes unreadable (`"chmod" \notin EnvOps`): its invariant follows each
  valid file from the listing of the first pass to its registration, unless that
  listing failed (`loaded`).
  `RecordsCurrent` is not inductive. Its strengthening `CurrentInv` says, for each
  point of a pass, how the recorded time, the hash and the directory listing relate
  to the file: no file is newer than the clock, a content read for the hash is still
  there or the file's time is now after the recorded one, and a time stands for one
  content at most. This is the argument the comment in `reload` makes in words.
* `ZoneProofs`, with queries: `ReloadsKeepRings` (`InFlightSharesStats`);
  `RegisteredRingsAreOpen`; `ReloadsNeverPanic`, when no file is removed. The
  invariant relates the ring of every object in use to `gen` and `closed`.
  `ServingImplementsReload`: with queries the manager does only what it does
  without, so that (`ServingKeepsZones`) its safety properties carry over.
* `ZoneDataProofs`: `ServedZoneIsFile` (`ZoneIsFile`), `ServedWeightsConsistent`
  (`WeightsConsistent`), `ZonesAllOrNothing` (`AllOrNothing`) and
  `ServedClosestAndTested` (`ClosestAndTested`), for any file. `ZoneDataInv` says
  what each loop has made of the labels it has come across and of those it has not:
  in the first loop a label is one that the file gives that name, with its list
  sorted (`Listed`); in the second it still is, or it is `Finished`, and then the
  names above it are in the zone. Which of the names in between the loop comes
  across does not matter, since a label without records is finished from the start.
  `NewRecordsFacts` and `VisitedWhole` carry the argument about weights: a sorted list
  has the weights of the file, each as often, and the same sum; if the sum is 0 all
  become 1, which keeps any order descending. A panic in either loop shows an
  invalid record of the file, one in `SetLocations` that closest servers were asked
  for.
* `PickerProofs`: `ResultIsSound` (`ResultSound`), `DrawsAreProportional`
  (`DrawProportional`) and `ClosestServersKept` (`ClosestCluster`). `PickerInv` says
  that `sum` is the sum of the weights of the servers left, that enough servers are
  left, that those of weight 0 go last (`ZeroesLast`), and that `choose` holds the
  rounds so far: what lies within 5% of the nearest server of the last one, below
  which there are fewer than `max` servers (`ClusterOf`). Proportionality counts the
  numbers that `rand.Intn` may return and that land on a server: they are an
  interval between two partial sums.
* `SumsProofs`: what `SumOf` gives for the empty set, for a set and one more element,
  for parts and for functions that agree. `SumOf` is a fold, and facts about it for all
  finite sets call for induction, which the provers cannot apply; a least
  counterexample takes its place, by the cardinality of a set or by a natural number.
* `QueryStatsProofs`: `RingTypeCorrect`; `RingImplementsWindow`: every step of the
  ring is a step of the window under the mapping that reads the slots from the oldest
  on, by lemmas on what an `add` does to that reading before and after the first
  rotation; `TopCountsAddUp` (`TopCountsComplete`): the shares of the top labels and
  of the others make up the number of labels held. `QueriesKeepCounts` and
  `RingServesQueries`: both carry over to the composition. `LinesAreCounted`
  (`CountsLines`), from `LineInv`, which adds that the line being handled is the last
  one read, and that the place reached in the open file is its start or follows the
  line handed over last; a line that is appended, and a file that is renamed or created
  meanwhile, change nothing of what was handled.
* `AnswerProofs`: `SteadyServersGetAnswers` (`SteadyServersAnswer`),
  `SpecificLabelsFirst` (`MostSpecificFirst`), `NegativesAreSound` (`NegativeSound`),
  `PanicsNeedMissingDB` (`PanicsOnlyWithoutDB`) and `TargetsShown` (`ShowsTargets`), for
  any zone and aliases of any shape, loops included. `AnswerInv` has one part per
  phase. During the search (`SearchInv`) every label of a name that was looked up has
  been handled or lies ahead of a call under way (`Covered`); the calls above the
  first are for names that the current target of the queried name leads to (`Calls`);
  matches are in the order of the targets that led to them (`Ordered`), and those of
  the queried name itself are there (`OwnListed`). When the first call returns nothing
  lies ahead, so all that is reachable was found: the names looked up are closed under
  aliases, and `Via` is the least such set. While matches are tried (`TryInv`), those
  with a server that stays healthy are still to come. A reply is good (`GoodReply`)
  from then on. `NegativesAreSound` says when NXDOMAIN is sent, in both directions, and
  has invariants of its own: `NameInv` says that the names of all calls and matches are
  among those the aliases lead to, and `NegativeInv` that something was found exactly if
  one of these names has a label of its own, or one for a target with a CNAME or
  records of the type.
* `HealthProofs`, the runner: `RunnerTypeCorrect`; `ReferencedTestsRun`
  (`RunningIffReferenced`), `PollsHaveReceivers` (`PollHasReceiver`) and
  `DownAfterRetries` (`DownOnlyAfterRetries`). `RunningIffReferenced` speaks of the time
  between operations; its strengthening `RefInv` holds inside them too and sets the
  test being stopped apart. `PollHasReceiver` rests on it. That a test goes down only
  after `Retries` failures in a row follows from the count being equal to the streak
  of failures for as long as the test is healthy.
* `HealthProofs`, the registry: `StatusTypeCorrect`; `LookupsAreLinearizable`
  (`LookupsLinearizable`), whose invariant says that an object held by a lookup would,
  at any time, return a status observed during the lookup: it is loaded only while it
  is registered, and closed only when it is removed; `InvalidFilesPreserve`
  (`ErrorsPreserve`), from an invariant that ties the listing and the content read in
  a pass to what the files were during it.
* `BackgroundProofs`, the testers: `TestersTypeCorrect`; `FileTesterSkips`
  (`SkipsOnlyWhatItRead`), from `FileInv`, which relates the remembered time and hash to
  the map in use and to the content a poll under way holds; `OutagesKeepHosts`
  (`OutageKeepsHosts`), from `InUseInv`: the test of a host in use is running and not
  being stopped.
* `BackgroundProofs`, the log and the configuration: `LogOutputOpen` (`OutputOpen`),
  from `FdsOpen`, which says for each place of the monitor which descriptors are
  open; `CredentialsArePaired` (`CredentialsPaired`), from `ConfigPaired`: the two
  halves differ only during the copy, while no request is between its two reads.
  `DaemonImplementsLog` and `DaemonImplementsConfig`: the composed server implements
  both components; `DaemonSafe` puts the results together.

`USE ZenonT(60)` at the head of the proof modules makes Zenon the prover of a leaf
that names none; leaves with arithmetic or sequences cite `SMTT(60)`. A leaf takes a
few seconds at most; the limits leave room for a slower machine. `tlapm` also allows
five seconds for translating a leaf for SMT, whatever its limit, so leaves with much
in their context say `BY ONLY`. Definitions such as
`NsTtl` keep large numbers out of Zenon's sight, which counts in unary.

The assumptions are those of the modules (`ReloadAssumption`, `PickerAssumption`,
`AnswerAssumption` and so on): constants have their types, and `None` is none of the
values it stands beside. TLC evaluates them in the runs. For `Picker` a list comes
sorted and weighted (`SortedByWeight`, `SetWeights`), which is what
`ServedWeightsConsistent` states of every zone that is served.

Only model-checked: liveness (`Converges`, `Finishes`, `StopsEnd`, `HealthFollows`,
`StatusFollows`, `LogCounted`, `HostsFollow`, `LogFollowsPath`, `ConfigFollows`, `Stops`).
It rests on fairness and so on `ENABLED`, which is out of the prover's reach.

## What the models found

The violation runs above, each quoted with its line in `PROJECT.json`. Seen while
modelling, and not kept as runs:

* A file replaced by one with an older modification time is never reloaded
  (`muxmanager.go:93`), where `README.md:158` says that files are "automatically
  reloaded when they change". `BackdateFile` is such an edit.
* When the servers of positive weight are all unhealthy, the healthy ones of
  weight 0 are all returned, however many (`picker.go:78`), where `README.md:132`
  promises `max_hosts` records. `Start` has the early return.
* A zero-length text is logged and passed over (`reader.go:446`) as if the others
  were to be served, but its empty slot makes the whole file fail later.
* A new file that cannot be read when it is noticed is not tried again when
  only its permissions change: the time is recorded first (`muxmanager.go:97`).
* Addresses and CNAMEs whose weights are all 0 are given weight 1 and limited to
  `max_hosts` (`reader.go:514`), where `README.md:136` says all are returned.
* A negative total weight makes `rand.Intn` panic (`picker.go:159`), where
  `README.md:136` allows any integer (`ResultSound` checks the converse).
* `removeTest` records the health of a test and only then stops it; a poll that
  ends in between changes the health of a test that is gone (`healthtest.go:253`),
  where the comment says "record the last state of health".
* `removeTest` overwrites the default of a host of a global test with the health of
  the test itself (`healthtest.go:253`): a host that the source does not mention is
  down after an outage and a reload. `HostsFollow` excepts it.
* A file tester that outlives its test remembers the time and hash of its file, and
  leaves the map of the next test empty until the content changes
  (`healthtesters.go:206`). A file that does not parse fails one poll only.
* The parameter `timeout` of a test sets its `retryTime` (`healthtest.go:326`).
* A `max_stratum` of 256 or more is cut to a byte (`healthtesters.go:124`).
* Without a city database a zone that targets regions is served, and the first
  query ends the process (`geoip2.go:204`); `reader.go:135` only logs.
* A client whose location is not found gets no country or continent target either
  if the zone uses `closest` or regions (`targeting.go:64`).
* When the directory of zones cannot be listed at the start, `NewMuxManager` returns
  the error, and `main` logs it and listens without zones (`geodns.go:229`).
  `ServedFromStart` excepts it.
* A negative `max_hosts` makes a query panic (`picker.go:103`), as a negative total
  weight does. `ResultSound` names both.
* The closest filter takes the 5% from the nearest server of a round
  (`picker.go:126`), where the comment at line 105 speaks of servers "closer to the
  querier than the max'th furthest server, or within 5% thereof": with two hosts and
  the distances 20, 21 and 22 it leaves out 22. `ClosestCluster` states what it keeps.
* A name that has labels only for targets is looked up by type: when `www.us` has an A
  record and there is no `www`, a TXT query for `www` from there gets NXDOMAIN
  (`zone.go:267`), where the comment wants "'noerror' instead of 'nxdomain' when
  appropriate". `NegativeSound` states when NXDOMAIN is sent.
* A check that never returns (exec, Nodeping and Pingdom have no timeout) makes the
  operation that stops its test wait for ever, with the mutex held that health lookups
  need (`healthtest.go:188`). `StopsEnd` says that nothing else does.
* An error reply of Nodeping in JSON passes for the answer that no host is down
  (`healthtesters.go:298`): it may bring hosts back up. `OutageKeepsHosts` says so.
* Rotation of the query log costs the log processor the lines written after it last
  reached the end of the old file; a watch that begins on the new file while the old
  one is open waits until the new one changes; and if the path is missing at that
  moment, `geodns-logs` ends. `LogCounted` states what is counted nevertheless.
* A configuration renamed into place is not reloaded (`config.go:95`): the comment
  says "Rename = when it's updated atomicly", but the event is a `Create`. And
  `README.md:155` says that the file "is not reloaded at runtime" at all, while direct
  writes and touches are (`ConfigFollows`).
* A line that cannot be decoded stops the log processor for good, with `main`
  blocked on the channel (`process-stats.go:172`).

## Not modelled

* `ANY` queries, which concatenate what is modelled per type.
* The torn slice header that a `Close()` without the mutex may expose, and reads of
  the configuration by `main` without the mutex: the outcomes are beyond what the
  properties tell apart, or end the process as `serving_crash` does.
* Two files of one zone whose extensions differ in case: one file per zone.
* Durations (polling, retries, timeouts): a step may take any time.
* `vendorName`, `getPoolCC`, `ParseTargets`, `typeutil` and the tables of countries:
  pure conversions of strings. EDNS options, HTTP pages and Prometheus metrics:
  formatting and I/O. `monitor/`: a structure that is only shown.
* `HealthStatus` and `Answer` are not composed: `SetHealth` lets the health of any
  server change at any step of a query, which is more than the registry does.
