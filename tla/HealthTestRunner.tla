-------------------------- MODULE HealthTestRunner --------------------------
(***************************************************************************)
(* The runner of the built-in health tests                                 *)
(* (health/healthtest/healthtest.go).  Zones (clients) share tests by key; *)
(* the first reference to a test starts its goroutine run(), the loss of   *)
(* the last one stops it.  run() polls through a goroutine of its own that *)
(* hands the result back over the unbuffered channel ht.health, and ends   *)
(* when Stop() offers it the channel ht.closing.                           *)
(*                                                                         *)
(* The clients' operations hold entryMutex; one that stops a test waits    *)
(* for run() with the mutex held.  When polls start is left to the clock:  *)
(* at any time.  failCount is only compared with retries and stops there.  *)
(***************************************************************************)
EXTENDS Naturals

CONSTANTS
    Keys,       \* the tests, by ht.String()
    Globals,    \* those of them that are global
    Timed,      \* those whose tester gives up after a timeout
    Clients,    \* the references
    None,
    Retries,
    MaxOps,     \* bound on the clients' operations
    MaxFlips    \* bound on the changes of the tested servers

ASSUME RunnerAssumption ==
    /\ Globals \subseteq Keys
    /\ Timed \subseteq Keys
    /\ None \notin Keys \cup Clients
    /\ Retries \in Nat \ {0}
    /\ MaxOps \in Nat
    /\ MaxFlips \in Nat

VARIABLES
    up,         \* whether a poll finds the server healthy now
    flips,
    ops,
    entryMutex, \* the client that holds it, or None
    task,       \* the keys it has yet to dereference
    stopping,   \* the test it is stopping, or None
    entries,    \* htr.entries
    references, \* references[k]: who uses test k
    running,    \* the goroutine run() of a test exists
    pollStart,  \* run()'s pollStart is set
    poll,       \* the goroutine poll() of a test
    healthy,    \* t.healthy
    failCount,
    streak,     \* history: failed results in a row
    last        \* last[c][k]: the health in client c's own HealthTest

clientVars == <<ops, entryMutex, task, stopping>>
runVars == <<running, pollStart, poll, failCount, streak>>
vars == <<up, flips, clientVars, entries, references, runVars, healthy, last>>

Init ==
    /\ up \in [Keys -> BOOLEAN]
    /\ flips = 0
    /\ ops = 0
    /\ entryMutex = None
    /\ task = {}
    /\ stopping = None
    /\ entries = {}
    /\ references = [k \in Keys |-> {}]
    /\ running = [k \in Keys |-> FALSE]
    /\ pollStart = [k \in Keys |-> FALSE]
    /\ poll = [k \in Keys |-> "none"]
    /\ healthy = [k \in Keys |-> FALSE]
    /\ failCount = [k \in Keys |-> 0]
    /\ streak = [k \in Keys |-> 0]
    /\ \E initially \in [Keys -> BOOLEAN] : last = [c \in Clients |-> initially]

\* The tested server goes down or comes back.
Flip(k) ==
    /\ flips < MaxFlips
    /\ flips' = flips + 1
    /\ \E u \in BOOLEAN \ {up[k]} : up' = [up EXCEPT ![k] = u]
    /\ UNCHANGED <<clientVars, entries, references, runVars, healthy, last>>

-----------------------------------------------------------------------------
(* The clients.                                                            *)

Operation ==
    /\ entryMutex = None
    /\ ops < MaxOps
    /\ ops' = ops + 1

\* start(): a new goroutine with the client's last known health.
start(c, k) ==
    /\ running' = [running EXCEPT ![k] = TRUE]
    /\ healthy' = [healthy EXCEPT ![k] = last[c][k]]
    /\ failCount' = [failCount EXCEPT ![k] = 0]
    /\ streak' = [streak EXCEPT ![k] = 0]
    /\ pollStart' = [pollStart EXCEPT ![k] = FALSE]
    /\ UNCHANGED poll

addTest(c, k) ==
    /\ Operation
    /\ references' = [references EXCEPT ![k] = @ \cup {c}]
    /\ entries' = entries \cup {k}
    /\ IF k \in entries THEN UNCHANGED <<runVars, healthy>> ELSE start(c, k)
    /\ UNCHANGED <<up, flips, entryMutex, task, stopping, last>>

\* The last health is recorded, then the reference goes (Dereference); only
\* the order of recording and stopping can be observed.
removeTest(c, k) ==
    /\ Operation
    /\ k \in entries
    /\ entryMutex' = c
    /\ task' = {k}
    /\ last' = [last EXCEPT ![c][k] = healthy[k]]
    /\ UNCHANGED <<up, flips, stopping, entries, references, runVars, healthy>>

\* refAllGlobalHealthChecks(ref, true)
refAllGlobal(c) ==
    /\ Operation
    /\ references' = [k \in Keys |->
                        IF k \in Globals \cap entries THEN references[k] \cup {c}
                                                      ELSE references[k]]
    /\ UNCHANGED <<up, flips, entryMutex, task, stopping, entries, runVars, healthy, last>>

\* refAllGlobalHealthChecks(ref, false)
unrefAllGlobal(c) ==
    /\ Operation
    /\ entryMutex' = c
    /\ task' = Globals \cap entries
    /\ UNCHANGED <<up, flips, stopping, entries, references, runVars, healthy, last>>

DropAlways(k) ==
    /\ stopping' = k
    /\ UNCHANGED task

\* What is done with a test when a reference is gone: Stop() it if it was the
\* last.
Drop(k) ==
    IF references'[k] = {}
    THEN stopping' = k /\ UNCHANGED task
    ELSE task' = task \ {k} /\ UNCHANGED stopping

Dereference(k) ==
    /\ stopping = None
    /\ k \in task
    /\ references' = [references EXCEPT ![k] = @ \ {entryMutex}]
    /\ Drop(k)
    /\ UNCHANGED <<up, flips, ops, entryMutex, entries, runVars, healthy, last>>

\* run() would take the closing channel while a poll is under way.
ClosingAtAnyTime(k) == running[k]

\* run() listens to the closing channel only between polls.
Closing(k) == running[k] /\ ~ pollStart[k]

\* ht.closing <- errc, and run() answers and returns.
StopRun(k) ==
    /\ stopping = k
    /\ Closing(k)
    /\ running' = [running EXCEPT ![k] = FALSE]
    /\ UNCHANGED <<up, flips, clientVars, entries, references, pollStart, poll,
                   healthy, failCount, streak, last>>

\* The channels are closed and the entry is deleted.
CloseChannels(k) ==
    /\ stopping = k
    /\ ~ running[k]
    /\ stopping' = None
    /\ entries' = entries \ {k}
    /\ task' = task \ {k}
    /\ UNCHANGED <<up, flips, ops, entryMutex, references, runVars, healthy, last>>

Unlock ==
    /\ entryMutex # None
    /\ task = {}
    /\ entryMutex' = None
    /\ UNCHANGED <<up, flips, ops, task, stopping, entries, references, runVars,
                   healthy, last>>

-----------------------------------------------------------------------------
(* run() and poll().                                                       *)

StartPoll(k) ==
    /\ running[k]
    /\ ~ pollStart[k]
    /\ pollStart' = [pollStart EXCEPT ![k] = TRUE]
    /\ poll' = [poll EXCEPT ![k] = "testing"]
    /\ UNCHANGED <<up, flips, clientVars, entries, references, running, healthy,
                   failCount, streak, last>>

\* Test() returns; the result waits to be taken.
TestServer(k) ==
    /\ poll[k] = "testing"
    /\ poll' = [poll EXCEPT ![k] = IF up[k] THEN "good" ELSE "bad"]
    /\ UNCHANGED <<up, flips, clientVars, entries, references, running, pollStart,
                   healthy, failCount, streak, last>>

\* Test() never returns: exec, Nodeping and Pingdom wait without a timeout.
TestHangs(k) ==
    /\ k \notin Timed
    /\ poll[k] = "testing"
    /\ poll' = [poll EXCEPT ![k] = "hung"]
    /\ UNCHANGED <<up, flips, clientVars, entries, references, running, pollStart,
                   healthy, failCount, streak, last>>

\* A success does not reset the count.
FailKeepingCount(k) ==
    failCount' = [failCount EXCEPT ![k] =
                    IF poll[k] = "good" \/ @ = Retries THEN @ ELSE @ + 1]

FailCounted(k) ==
    failCount' = [failCount EXCEPT ![k] =
                    IF poll[k] = "good" THEN 0 ELSE IF @ < Retries THEN @ + 1 ELSE @]

PollGoesOn(k) == UNCHANGED pollStart

PollEnds(k) == pollStart' = [pollStart EXCEPT ![k] = FALSE]

setUnhealthy(k) ==
    healthy' = [healthy EXCEPT ![k] = IF failCount'[k] >= Retries THEN FALSE ELSE @]

\* It takes Retries failures in a row to go down.
setHealthy(k) ==
    healthy' = [healthy EXCEPT ![k] = IF poll[k] = "good" THEN TRUE
                                      ELSE IF failCount'[k] >= Retries THEN FALSE
                                      ELSE @]

\* The result is handed over.
Result(k) ==
    /\ running[k]
    /\ poll[k] \in {"good", "bad"}
    /\ poll' = [poll EXCEPT ![k] = "none"]
    /\ PollEnds(k)
    /\ FailCounted(k)
    /\ setHealthy(k)
    /\ streak' = [streak EXCEPT ![k] =
                    IF poll[k] = "good" THEN 0 ELSE IF @ < Retries THEN @ + 1 ELSE @]
    /\ UNCHANGED <<up, flips, clientVars, entries, references, running, last>>

Next ==
    \/ \E k \in Keys :
          \/ Flip(k) \/ Dereference(k) \/ StopRun(k) \/ CloseChannels(k)
          \/ StartPoll(k) \/ TestServer(k) \/ TestHangs(k) \/ Result(k)
          \/ \E c \in Clients : addTest(c, k) \/ removeTest(c, k)
    \/ \E c \in Clients : refAllGlobal(c) \/ unrefAllGlobal(c)
    \/ Unlock

Spec == Init /\ [][Next]_vars

\* Goroutines that can run do; a check that does not hang returns; a select
\* among several ready channels picks at random, so it takes a channel that is
\* ready again and again.
Fairness ==
    /\ \A k \in Keys : /\ WF_vars(Dereference(k))
                       /\ SF_vars(StopRun(k))
                       /\ WF_vars(CloseChannels(k))
                       /\ WF_vars(StartPoll(k))
                       /\ WF_vars(TestServer(k))
                       /\ WF_vars(Result(k))
    /\ WF_vars(Unlock)

FairSpec == Spec /\ Fairness

-----------------------------------------------------------------------------
TypeOK ==
    /\ up \in [Keys -> BOOLEAN]
    /\ flips \in Nat
    /\ ops \in Nat
    /\ entryMutex \in Clients \cup {None}
    /\ task \subseteq Keys
    /\ stopping \in Keys \cup {None}
    /\ entries \subseteq Keys
    /\ references \in [Keys -> SUBSET Clients]
    /\ running \in [Keys -> BOOLEAN]
    /\ pollStart \in [Keys -> BOOLEAN]
    /\ poll \in [Keys -> {"none", "testing", "hung", "good", "bad"}]
    /\ healthy \in [Keys -> BOOLEAN]
    /\ failCount \in [Keys -> 0 .. Retries]
    /\ streak \in [Keys -> 0 .. Retries]
    /\ last \in [Clients -> [Keys -> BOOLEAN]]

(* A poll under way always has a goroutine run() that will take its        *)
(* result, so that Stop() never closes the channel under it ("don't close  *)
(* while we are polling or we send to a closed channel", run()), and there *)
(* is at most one poll of a test at a time.                                *)
PollHasReceiver == \A k \in Keys : poll[k] # "none" => running[k] /\ pollStart[k]

(* Whenever the mutex is free, exactly the tests somebody refers to have   *)
(* an entry, and exactly those have a running goroutine: no test is leaked *)
(* and none that is in use is stopped, whoever added and removed it.       *)
RunningIffReferenced ==
    entryMutex = None =>
        \A k \in Keys : /\ k \in entries <=> references[k] # {}
                        /\ k \in entries <=> running[k]

(* A test goes from healthy to unhealthy only after Retries failed results *)
(* in a row, though tests are stopped, restarted and succeed in between.   *)
DownOnlyAfterRetries ==
    [][\A k \in entries : healthy[k] /\ ~ healthy'[k] /\ k \in entries' => streak'[k] = Retries]_vars

(* An operation that stops tests comes to an end, and lets go of the mutex *)
(* every health lookup waits for, although polls may be under way -- or    *)
(* else it waits for ever, with the mutex held, for a check that hangs,    *)
(* and only for one whose tester has no timeout (exec, Nodeping, Pingdom). *)
StopsEnd ==
    entryMutex # None ~> \/ entryMutex = None
                         \/ \E k \in Keys \ Timed : stopping = k /\ poll[k] = "hung"

(* When the servers and the zones stop changing, every test in use ends up *)
(* with the health of its server, unless its check hangs: the checks of    *)
(* the other tests go on, also when an operation waits for the one that    *)
(* hangs.                                                                  *)
HealthFollows == <>[](\A k \in entries : poll[k] = "hung" \/ healthy[k] = up[k])

=============================================================================
