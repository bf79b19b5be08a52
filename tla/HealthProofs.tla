---------------------------- MODULE HealthProofs ----------------------------
(***************************************************************************)
(* Proofs about health checking, for any tests, files, readers and bounds: *)
(* the runner of the tests, and the registry of statuses kept up to date   *)
(* with a directory of files.                                              *)
(***************************************************************************)
EXTENDS HealthTestRunner, HealthStatus, SequenceTheorems, TLAPS

\* Most leaves are first-order reasoning; those with arithmetic cite SMTT(60).
USE ZenonT(60)

(* The runner of the tests.                                                *)

(* The types are inductive on their own.                                   *)
LEMMA TypeStep == TypeOK /\ [Next]_vars => TypeOK'
<1> SUFFICES ASSUME TypeOK, [Next]_vars PROVE TypeOK'
    OBVIOUS
<1> USE RunnerAssumption DEF TypeOK
<1>1. ASSUME NEW k \in Keys, Flip(k) PROVE TypeOK'
    BY <1>1, SMTT(60) DEF Flip, clientVars, runVars
<1>2. ASSUME NEW k \in Keys, Dereference(k) PROVE TypeOK'
    BY <1>2 DEF Dereference, Drop, runVars
<1>3. ASSUME NEW k \in Keys, StopRun(k) PROVE TypeOK'
    BY <1>3 DEF StopRun, clientVars
<1>4. ASSUME NEW k \in Keys, CloseChannels(k) PROVE TypeOK'
    BY <1>4 DEF CloseChannels, runVars
<1>5. ASSUME NEW k \in Keys, StartPoll(k) PROVE TypeOK'
    BY <1>5 DEF StartPoll, clientVars
<1>6. ASSUME NEW k \in Keys, TestServer(k) \/ TestHangs(k) PROVE TypeOK'
    BY <1>6 DEF TestServer, TestHangs, clientVars
<1>7. ASSUME NEW k \in Keys, Result(k) PROVE TypeOK'
    <2>1. healthy' \in [Keys -> BOOLEAN]
        BY <1>7 DEF Result, setHealthy
    <2>2. failCount' \in [Keys -> 0 .. Retries] /\ streak' \in [Keys -> 0 .. Retries]
        BY <1>7, SMTT(60) DEF Result, FailCounted
    <2>3. pollStart' \in [Keys -> BOOLEAN]
        BY <1>7 DEF Result, PollEnds
    <2>4. poll' \in [Keys -> {"none", "testing", "hung", "good", "bad"}]
        BY <1>7 DEF Result
    <2>5. QED
        BY <1>7, <2>1, <2>2, <2>3, <2>4 DEF Result, clientVars
<1>8. ASSUME NEW k \in Keys, NEW c \in Clients, addTest(c, k) PROVE TypeOK'
    <2>1. ops' \in Nat /\ references' \in [Keys -> SUBSET Clients] /\ entries' \subseteq Keys
        BY <1>8, SMTT(60) DEF addTest, Operation
    <2>2. CASE k \in entries
        BY <1>8, <2>1, <2>2 DEF addTest, runVars
    <2>3. CASE k \notin entries
        <3>1. last[c][k] \in BOOLEAN
            BY SMTT(60)
        <3>2. /\ healthy' \in [Keys -> BOOLEAN] /\ running' \in [Keys -> BOOLEAN]
              /\ pollStart' \in [Keys -> BOOLEAN]
            BY <1>8, <2>3, <3>1 DEF addTest, start
        <3>3. failCount' \in [Keys -> 0 .. Retries] /\ streak' \in [Keys -> 0 .. Retries]
            BY <1>8, <2>3, SMTT(60) DEF addTest, start
        <3>4. QED
            BY <1>8, <2>1, <2>3, <3>2, <3>3 DEF addTest, start
    <2>4. QED
        BY <2>2, <2>3
<1>9. ASSUME NEW k \in Keys, NEW c \in Clients, removeTest(c, k) PROVE TypeOK'
    BY <1>9, SMTT(60) DEF removeTest, Operation, runVars
<1>10. ASSUME NEW c \in Clients, refAllGlobal(c) PROVE TypeOK'
    BY <1>10, SMTT(60) DEF refAllGlobal, Operation, runVars
<1>11. ASSUME NEW c \in Clients, unrefAllGlobal(c) PROVE TypeOK'
    BY <1>11, SMTT(60) DEF unrefAllGlobal, Operation, runVars
<1>12. CASE Unlock
    BY <1>12 DEF Unlock, runVars
<1>13. CASE UNCHANGED vars
    BY <1>13 DEF vars, clientVars, runVars
<1> HIDE RunnerAssumption DEF TypeOK
<1>14. QED
    BY <1>1, <1>2, <1>3, <1>4, <1>5, <1>6, <1>7, <1>8, <1>9, <1>10, <1>11, <1>12, <1>13
    DEF Next

(* The types are kept, whatever the clients and the servers do.            *)
THEOREM RunnerTypeCorrect == Spec => []TypeOK
<1>1. Init => TypeOK
    BY RunnerAssumption, SMTT(60) DEF Init, TypeOK
<1>2. QED
    BY <1>1, TypeStep, PTL DEF Spec

-----------------------------------------------------------------------------
(* Also inside an operation, with the test it is stopping set apart.       *)
RefInv ==
    /\ \A k \in entries \ {stopping} : references[k] # {} /\ running[k]
    /\ \A k \in Keys \ entries : references[k] = {} /\ ~ running[k]
    /\ task \subseteq entries
    /\ entryMutex = None => task = {}
    /\ stopping # None => stopping \in task /\ references[stopping] = {}

(* Every operation keeps it.                                              *)
LEMMA RefStep == TypeOK /\ RefInv /\ [Next]_vars => RefInv'
<1> SUFFICES ASSUME TypeOK, RefInv, [Next]_vars PROVE RefInv'
    OBVIOUS
<1> USE RunnerAssumption DEF TypeOK, RefInv
<1>1. ASSUME NEW k \in Keys, NEW c \in Clients, addTest(c, k) PROVE RefInv'
    <2>1. task = {} /\ stopping = None
        BY <1>1 DEF addTest, Operation
    <2>2. CASE k \in entries
        BY <1>1, <2>1, <2>2, SMTT(60) DEF addTest, runVars
    <2>3. CASE k \notin entries
        <3>1. running' = [running EXCEPT ![k] = TRUE]
            BY <1>1, <2>3 DEF addTest, start
        <3>2. running'[k]
            BY <3>1
        <3>3. \A j \in Keys \ {k} : running'[j] = running[j]
            BY <3>1
        <3>4. references'[k] # {} /\ \A j \in Keys \ {k} : references'[j] = references[j]
            BY <1>1 DEF addTest
        <3>5. entries' = entries \cup {k} /\ UNCHANGED <<entryMutex, task, stopping>>
            BY <1>1 DEF addTest
        <3>6. \A j \in entries' \ {stopping'} : references'[j] # {} /\ running'[j]
            <4> SUFFICES ASSUME NEW j \in entries' \ {stopping'}
                         PROVE  references'[j] # {} /\ running'[j]
                OBVIOUS
            <4>1. CASE j = k
                BY <3>2, <3>4, <4>1
            <4>2. CASE j # k
                BY <3>3, <3>4, <3>5, <4>2
            <4>3. QED
                BY <4>1, <4>2
        <3>7. \A j \in Keys \ entries' : references'[j] = {} /\ ~ running'[j]
            BY <3>3, <3>4, <3>5
        <3>8. QED
            BY <2>1, <3>5, <3>6, <3>7
    <2>4. QED
        BY <2>2, <2>3
<1>2. ASSUME NEW k \in Keys, NEW c \in Clients, removeTest(c, k) PROVE RefInv'
    BY <1>2 DEF removeTest, Operation, runVars
<1>3. ASSUME NEW c \in Clients, refAllGlobal(c) PROVE RefInv'
    BY <1>3 DEF refAllGlobal, Operation, runVars
<1>4. ASSUME NEW c \in Clients, unrefAllGlobal(c) PROVE RefInv'
    BY <1>4 DEF unrefAllGlobal, Operation, runVars
<1>5. ASSUME NEW k \in Keys, Dereference(k) PROVE RefInv'
    <2>1. CASE references'[k] = {}
        BY <1>5, <2>1, SMTT(60) DEF Dereference, Drop, runVars
    <2>2. CASE references'[k] # {}
        BY <1>5, <2>2 DEF Dereference, Drop, runVars
    <2>3. QED
        BY <2>1, <2>2
<1>6. ASSUME NEW k \in Keys, StopRun(k) PROVE RefInv'
    BY <1>6 DEF StopRun, clientVars
<1>7. ASSUME NEW k \in Keys, CloseChannels(k) PROVE RefInv'
    BY <1>7 DEF CloseChannels, runVars
<1>8. CASE Unlock
    BY <1>8 DEF Unlock, runVars
<1>9. ASSUME UNCHANGED <<entryMutex, task, stopping, entries, references, running>>
      PROVE  RefInv'
    BY <1>9
<1>10. ASSUME NEW k \in Keys,
              Flip(k) \/ StartPoll(k) \/ TestServer(k) \/ TestHangs(k) \/ Result(k) \/ UNCHANGED vars
       PROVE  UNCHANGED <<entryMutex, task, stopping, entries, references, running>>
    BY <1>10 DEF Flip, StartPoll, TestServer, TestHangs, Result, vars, clientVars, runVars
<1>11. CASE UNCHANGED vars
    BY <1>9, <1>11 DEF vars, clientVars, runVars
<1> HIDE RunnerAssumption DEF TypeOK, RefInv
<1>12. QED
    BY <1>1, <1>2, <1>3, <1>4, <1>5, <1>6, <1>7, <1>8, <1>9, <1>10, <1>11 DEF Next

(* At first there are no tests.                                            *)
LEMMA RefInit == Init => RefInv
    BY DEF Init, RefInv

(* Between operations exactly the tests that are referred to run: no order *)
(* of adding and removing leaks a goroutine or stops a test in use.        *)
THEOREM ReferencedTestsRun == Spec => []RunningIffReferenced
<1>1. TypeOK /\ RefInv => RunningIffReferenced
    <2> SUFFICES ASSUME TypeOK, RefInv, entryMutex = None, NEW k \in Keys
                 PROVE  /\ k \in entries <=> references[k] # {}
                        /\ k \in entries <=> running[k]
        BY DEF RunningIffReferenced
    <2>1. stopping = None
        BY DEF RefInv
    <2>2. CASE k \in entries
        BY <2>1, <2>2, RunnerAssumption DEF RefInv
    <2>3. CASE k \notin entries
        BY <2>3 DEF RefInv
    <2>4. QED
        BY <2>2, <2>3
<1>2. QED
    BY <1>1, RefInit, RefStep, RunnerTypeCorrect, PTL DEF Spec

-----------------------------------------------------------------------------
(* A test is stopped only between two polls.                               *)
LEMMA PollStep == TypeOK /\ RefInv /\ PollHasReceiver /\ [Next]_vars => PollHasReceiver'
<1> SUFFICES ASSUME TypeOK, RefInv, PollHasReceiver, [Next]_vars PROVE PollHasReceiver'
    OBVIOUS
<1> USE DEF TypeOK, PollHasReceiver
<1>1. ASSUME NEW k \in Keys, StopRun(k) PROVE PollHasReceiver'
    BY <1>1 DEF StopRun, Closing
<1>2. ASSUME NEW k \in Keys, StartPoll(k) PROVE PollHasReceiver'
    BY <1>2 DEF StartPoll
<1>3. ASSUME NEW k \in Keys, TestServer(k) \/ TestHangs(k) PROVE PollHasReceiver'
    BY <1>3 DEF TestServer, TestHangs
<1>4. ASSUME NEW k \in Keys, Result(k) PROVE PollHasReceiver'
    BY <1>4 DEF Result, PollEnds
<1>5. ASSUME NEW k \in Keys, NEW c \in Clients, addTest(c, k) PROVE PollHasReceiver'
    <2>1. CASE k \in entries
        BY <1>5, <2>1 DEF addTest, runVars
    <2>2. CASE k \notin entries
        <3>1. poll[k] = "none"
            BY <2>2 DEF RefInv
        <3>2. QED
            BY <1>5, <2>2, <3>1 DEF addTest, start
    <2>3. QED
        BY <2>1, <2>2
<1>6. ASSUME UNCHANGED runVars PROVE PollHasReceiver'
    BY <1>6 DEF runVars
<1>7. ASSUME NEW k \in Keys, Flip(k) \/ Dereference(k) \/ CloseChannels(k)
      PROVE  UNCHANGED runVars
    BY <1>7 DEF Flip, Dereference, CloseChannels
<1>8. ASSUME NEW c \in Clients, NEW k \in Keys,
             removeTest(c, k) \/ refAllGlobal(c) \/ unrefAllGlobal(c) \/ Unlock
      PROVE  UNCHANGED runVars
    BY <1>8 DEF removeTest, refAllGlobal, unrefAllGlobal, Unlock
<1> HIDE DEF TypeOK, PollHasReceiver
<1>9. QED
    BY <1>1, <1>2, <1>3, <1>4, <1>5, <1>6, <1>7, <1>8
    DEF Next, vars, refAllGlobal, unrefAllGlobal, Unlock

(* No poll ever sends its result on a channel that Stop() has closed: run()*)
(* takes the closing channel only when pollStart is zero.                  *)
THEOREM PollsHaveReceivers == Spec => []PollHasReceiver
<1>1. Init => PollHasReceiver
    BY DEF Init, PollHasReceiver
<1>2. QED
    BY <1>1, RefInit, PollStep, RefStep, RunnerTypeCorrect, PTL DEF Spec

-----------------------------------------------------------------------------
\* failCount is the number of failed results in a row.
CountInv == failCount = streak

\* What DownOnlyAfterRetries says of one step.
DownStep ==
    \A k \in entries : healthy[k] /\ ~ healthy'[k] /\ k \in entries' => streak'[k] = Retries

(* Every action that changes failCount changes streak alike.               *)
LEMMA CountStep == TypeOK /\ CountInv /\ [Next]_vars => CountInv'
<1> SUFFICES ASSUME TypeOK, CountInv, [Next]_vars PROVE CountInv'
    OBVIOUS
<1> USE DEF CountInv
<1>1. ASSUME NEW k \in Keys, Result(k) PROVE CountInv'
    BY <1>1 DEF Result, FailCounted
<1>2. ASSUME NEW k \in Keys, NEW c \in Clients, addTest(c, k) PROVE CountInv'
    BY <1>2 DEF addTest, start, runVars
<1>3. ASSUME NEW k \in Keys, Flip(k) \/ Dereference(k) \/ StopRun(k) \/ CloseChannels(k)
                                \/ StartPoll(k) \/ TestServer(k) \/ TestHangs(k)
      PROVE  CountInv'
    BY <1>3 DEF Flip, Dereference, StopRun, CloseChannels, StartPoll, TestServer, TestHangs, runVars
<1>4. ASSUME NEW c \in Clients, NEW k \in Keys, removeTest(c, k) PROVE CountInv'
    BY <1>4 DEF removeTest, runVars
<1>5. ASSUME NEW c \in Clients, refAllGlobal(c) \/ unrefAllGlobal(c) PROVE CountInv'
    BY <1>5 DEF refAllGlobal, unrefAllGlobal, runVars
<1>6. CASE Unlock \/ UNCHANGED vars
    BY <1>6 DEF Unlock, vars, runVars
<1> HIDE DEF CountInv
<1>7. QED
    BY <1>1, <1>2, <1>3, <1>4, <1>5, <1>6 DEF Next

(* Only a result brings a running test down, and only at the limit.        *)
LEMMA OnlyResultsBringDown == TypeOK /\ TypeOK' /\ CountInv' /\ [Next]_vars => DownStep
<1> SUFFICES ASSUME TypeOK, TypeOK', CountInv', [Next]_vars PROVE DownStep
    OBVIOUS
<1>1. ASSUME NEW k \in Keys, Result(k) PROVE DownStep
    <2> SUFFICES ASSUME NEW j \in entries, healthy[j], ~ healthy'[j]
                 PROVE  streak'[j] = Retries
        BY DEF DownStep
    <2>1. j = k /\ failCount'[k] >= Retries
        BY <1>1 DEF Result, setHealthy, TypeOK
    <2>2. failCount'[k] \in 0 .. Retries
        BY DEF TypeOK
    <2>3. failCount'[k] = Retries
        BY <2>1, <2>2, RunnerAssumption, SMTT(60)
    <2>4. QED
        BY <2>1, <2>3 DEF CountInv
<1>2. ASSUME NEW k \in Keys, NEW c \in Clients, addTest(c, k) PROVE DownStep
    <2>1. CASE k \in entries
        BY <1>2, <2>1 DEF addTest, DownStep
    <2>2. CASE k \notin entries
        <3>1. \A j \in entries : healthy'[j] = healthy[j]
            BY <1>2, <2>2, SMTT(60) DEF addTest, start, TypeOK
        <3>2. QED
            BY <3>1 DEF DownStep
    <2>3. QED
        BY <2>1, <2>2
<1>3. ASSUME UNCHANGED healthy PROVE DownStep
    BY <1>3 DEF DownStep
<1>4. ASSUME NEW k \in Keys, Flip(k) \/ Dereference(k) \/ StopRun(k) \/ CloseChannels(k)
                                \/ StartPoll(k) \/ TestServer(k) \/ TestHangs(k)
      PROVE  UNCHANGED healthy
    BY <1>4 DEF Flip, Dereference, StopRun, CloseChannels, StartPoll, TestServer, TestHangs
<1>5. ASSUME NEW c \in Clients, NEW k \in Keys, removeTest(c, k) PROVE UNCHANGED healthy
    BY <1>5 DEF removeTest
<1>6. ASSUME NEW c \in Clients, refAllGlobal(c) \/ unrefAllGlobal(c) PROVE UNCHANGED healthy
    BY <1>6 DEF refAllGlobal, unrefAllGlobal
<1>7. CASE Unlock \/ UNCHANGED vars
    BY <1>3, <1>7 DEF Unlock, vars
<1>8. QED
    BY <1>1, <1>2, <1>3, <1>4, <1>5, <1>6, <1>7 DEF Next

(* A running test goes down only after Retries failed results in a row.    *)
THEOREM DownAfterRetries == Spec => DownOnlyAfterRetries
<1>1. Init => CountInv
    BY DEF Init, CountInv
<1>2. DownStep => [DownStep]_vars
    OBVIOUS
<1>3. QED
    BY <1>1, CountStep, OnlyResultsBringDown, RunnerTypeCorrect, PTL
    DEF Spec, DownOnlyAfterRetries, DownStep

-----------------------------------------------------------------------------
(* The registry of statuses.                                               *)

\* The registered object exists, and the file being loaded is known.
RegInv ==
    /\ \A n \in Names : registry[n] \in 0 .. Len(data[n])
    /\ pc = "store" => cur \in Names

\* A lookup that holds an object would return a status seen during the lookup.
LookupInv ==
    \A r \in Readers :
        /\ at[r] = "status" =>
              /\ name[r] \in Names
              /\ object[r] \in 1 .. Len(data[name[r]])
              /\ StatusOf(data[name[r]][object[r]]) \in during[r]
        /\ at[r] # "idle" => name[r] \in Names
        /\ at[r] = "done" => result[r] \in during[r]

(* At first nothing is registered.                                         *)
LEMMA StatusStart == StatusInit => StatusTypeOK /\ RegInv
<1> SUFFICES ASSUME StatusInit PROVE StatusTypeOK /\ RegInv
    OBVIOUS
<1>1. StatusTypeOK
    BY StatusAssumption, SMTT(60) DEF StatusInit, StatusTypeOK, Contents, Data, Statuses
<1>2. RegInv
    BY SMTT(60) DEF StatusInit, RegInv
<1>3. QED
    BY <1>1, <1>2

(* What Store() does to the objects: the registered one gets the new data, *)
(* the others keep theirs, and a new one comes after them.                 *)
LEMMA StoreObjects ==
    ASSUME StatusTypeOK, RegInv, NEW n \in Names, Store(n)
    PROVE  /\ data' \in [Names -> Seq(Data \cup {Nil})]
           /\ registry' \in [Names -> Nat]
           /\ \A j \in Names :
                 /\ registry'[j] \in 0 .. Len(data'[j])
                 /\ Len(data[j]) <= Len(data'[j])
                 /\ \A i \in 1 .. Len(data[j]) :
                       i # registry'[j] => data'[j][i] = data[j][i]
                 /\ j # n => data'[j] = data[j] /\ registry'[j] = registry[j]
           /\ registry'[n] # 0
           /\ \A i \in 1 .. Len(data[n]) : i = registry'[n] => registry'[n] = registry[n]
<1> DEFINE D == Data \cup {Nil}
<1> USE DEF StatusTypeOK, RegInv
<1>1. \A x \in D : Load(x) \in D /\ Load("absent") \in D
    BY DEF Load, Data
<1>2. CASE registry[n] # 0
    <2>1. registry[n] \in 1 .. Len(data[n]) /\ data[n] \in Seq(D)
        BY <1>2, SMTT(60)
    <2>2. data[n][registry[n]] \in D
        BY <2>1, SMTT(60)
    <2>3. data' = [data EXCEPT ![n] = [data[n] EXCEPT ![registry[n]] = Load(data[n][registry[n]])]]
          /\ registry' = registry
        BY <1>2 DEF Store
    <2>4. [data[n] EXCEPT ![registry[n]] = Load(data[n][registry[n]])] \in Seq(D)
          /\ Len([data[n] EXCEPT ![registry[n]] = Load(data[n][registry[n]])]) = Len(data[n])
        BY <1>1, <2>1, <2>2, SMTT(60)
    <2>5. QED
        BY <1>2, <2>1, <2>3, <2>4, SMTT(60)
<1>3. CASE registry[n] = 0
    <2>1. data[n] \in Seq(D) /\ Load("absent") \in D
        BY <1>1 DEF Data
    <2>2. data' = [data EXCEPT ![n] = Append(data[n], Load("absent"))]
          /\ registry' = [registry EXCEPT ![n] = Len(data'[n])]
        BY <1>3 DEF Store
    <2>3. /\ Append(data[n], Load("absent")) \in Seq(D)
          /\ Len(Append(data[n], Load("absent"))) = Len(data[n]) + 1
          /\ \A i \in 1 .. Len(data[n]) : Append(data[n], Load("absent"))[i] = data[n][i]
        BY <2>1, SMTT(60)
    <2>4. data'[n] = Append(data[n], Load("absent")) /\ registry'[n] = Len(data[n]) + 1
        BY <2>2, <2>3
    <2>5. QED
        BY <1>3, <2>1, <2>2, <2>3, <2>4, SMTT(60)
<1>4. QED
    BY <1>2, <1>3

(* What the sweep does to the objects: those of missing files are closed.  *)
LEMMA SweepObjects ==
    ASSUME StatusTypeOK, RegInv, Sweep
    PROVE  /\ data' \in [Names -> Seq(Data \cup {Nil})]
           /\ registry' \in [Names -> Nat]
           /\ \A j \in Names :
                 /\ Len(data'[j]) = Len(data[j])
                 /\ registry'[j] \in 0 .. Len(data'[j])
                 /\ \A i \in 1 .. Len(data[j]) :
                       \/ data'[j][i] = data[j][i]
                       \/ data'[j][i] = Nil /\ registry'[j] = 0
                 /\ \/ data'[j] = data[j] /\ registry'[j] = registry[j]
                    \/ registry'[j] = 0 /\ j \notin dir
<1> DEFINE D == Data \cup {Nil}
           closed(j) == [data[j] EXCEPT ![registry[j]] = Nil]
<1> USE DEF StatusTypeOK, RegInv
<1>1. ASSUME NEW j \in Names, Unseen(j)
      PROVE  /\ closed(j) \in Seq(D) /\ Len(closed(j)) = Len(data[j])
             /\ \A i \in 1 .. Len(data[j]) : closed(j)[i] = data[j][i] \/ closed(j)[i] = Nil
    <2>1. registry[j] \in 1 .. Len(data[j]) /\ data[j] \in Seq(D)
        BY <1>1, SMTT(60) DEF Unseen
    <2>2. QED
        BY <2>1, SMTT(60)
<1>2. /\ data' = [j \in Names |-> IF Unseen(j) THEN closed(j) ELSE data[j]]
      /\ registry' = [j \in Names |-> IF Unseen(j) THEN 0 ELSE registry[j]]
    BY DEF Sweep
<1>3. \A j \in Names : Unseen(j) => j \notin dir
    BY DEF Unseen
<1> HIDE DEF closed
<1>4. data' \in [Names -> Seq(D)]
    BY <1>1, <1>2
<1>5. QED
    BY <1>1, <1>2, <1>3, <1>4, SMTT(60)

(* The lookups under way observe statuses.                                 *)
LEMMA ObserveType ==
    ASSUME StatusTypeOK, Observe
    PROVE  during' \in [Readers -> SUBSET Statuses]
<1>1. \A x : StatusOf(x) \in Statuses
    BY DEF StatusOf, Statuses
<1>2. \A n : Status(n)' \in Statuses
    BY <1>1 DEF Status, Statuses
<1>3. QED
    BY <1>2, SMTT(60) DEF Observe, StatusTypeOK

(* Every step keeps the types and the registry sound.                      *)
LEMMA StatusStep == StatusTypeOK /\ RegInv /\ [StatusNext]_allVars => StatusTypeOK' /\ RegInv'
<1> SUFFICES ASSUME StatusTypeOK, RegInv, [StatusNext]_allVars PROVE StatusTypeOK' /\ RegInv'
    OBVIOUS
<1> USE DEF StatusTypeOK, RegInv
<1>1. CASE ReadDir
    BY <1>1 DEF ReadDir, statusVars, readerVars
<1>2. ASSUME NEW n \in Names, ReadFile(n) \/ ReadFileFails(n)
      PROVE  StatusTypeOK' /\ RegInv'
    BY <1>2 DEF ReadFile, ReadFileFails, diskVars, statusVars, readerVars
<1>3. ASSUME NEW n \in Names, Store(n) PROVE StatusTypeOK' /\ RegInv'
    <2>1. during' \in [Readers -> SUBSET Statuses]
        BY <1>3, ObserveType DEF Store
    <2>2. QED
        BY <1>3, <2>1, StoreObjects DEF Store, diskVars, readerVars
<1>4. CASE Sweep
    <2>1. during' \in [Readers -> SUBSET Statuses]
        BY <1>4, ObserveType DEF Sweep
    <2>2. QED
        BY <1>4, <2>1, SweepObjects DEF Sweep, diskVars, readerVars
<1>5. ASSUME NEW n \in Names, NEW c \in Contents \cup {Nil}, Edit(n, c)
      PROVE  StatusTypeOK' /\ RegInv'
    BY <1>5, SMTT(60) DEF Edit, passVars, statusVars, readerVars
<1>6. ASSUME NEW r \in Readers, NEW n \in Names, Lookup(r, n) PROVE StatusTypeOK' /\ RegInv'
    <2>1. Status(n) \in Statuses /\ "unknown" \in Statuses
        BY DEF Status, StatusOf, Statuses
    <2>2. /\ name' \in [Readers -> Names \cup {Nil}]
          /\ during' \in [Readers -> SUBSET Statuses]
          /\ UNCHANGED <<diskVars, passVars, statusVars>>
        BY <1>6, <2>1 DEF Lookup
    <2>3. CASE registry[n] # 0
        <3>1. object' \in [Readers -> Nat] /\ at' \in [Readers -> {"idle", "status", "done"}]
            <4>1. /\ object' = [object EXCEPT ![r] = registry[n]]
                  /\ at' = [at EXCEPT ![r] = "status"]
                BY <1>6, <2>3 DEF Lookup
            <4>2. QED
                BY <4>1
        <3>2. UNCHANGED result
            BY <1>6, <2>3 DEF Lookup
        <3>3. QED
            BY <2>2, <3>1, <3>2 DEF diskVars, passVars, statusVars
    <2>4. CASE registry[n] = 0
        <3>1. result' \in [Readers -> Statuses] /\ at' \in [Readers -> {"idle", "status", "done"}]
            BY <1>6, <2>1, <2>4, ZenonT(60) DEF Lookup
        <3>2. QED
            BY <1>6, <2>2, <2>4, <3>1 DEF Lookup, diskVars, passVars, statusVars
    <2>5. QED
        BY <2>3, <2>4
<1>7. ASSUME NEW r \in Readers, GetStatus(r) PROVE StatusTypeOK' /\ RegInv'
    <2>1. ReadObject(r) \in Statuses
        BY DEF ReadObject, StatusOf, Statuses
    <2>2. QED
        BY <1>7, <2>1 DEF GetStatus, diskVars, passVars, statusVars
<1>8. ASSUME NEW r \in Readers, Return(r) PROVE StatusTypeOK' /\ RegInv'
    <2>1. "unknown" \in Statuses
        BY DEF Statuses
    <2>2. QED
        BY <1>8, <2>1 DEF Return, diskVars, passVars, statusVars
<1>9. CASE UNCHANGED allVars
    BY <1>9 DEF allVars, diskVars, passVars, statusVars, readerVars
<1> HIDE DEF StatusTypeOK, RegInv
<1>10. QED
    BY <1>1, <1>2, <1>3, <1>4, <1>5, <1>6, <1>7, <1>8, <1>9 DEF StatusNext, Reload

(* The types are kept, whatever happens to the files.                      *)
THEOREM StatusTypeCorrect == StatusSpec => []StatusTypeOK
    BY StatusStart, StatusStep, PTL DEF StatusSpec

-----------------------------------------------------------------------------
(* A change of the data of an object that a lookup holds is observed by it:*)
(* either the object is registered afterwards, or it has been closed and   *)
(* its name is not registered.                                             *)
LEMMA ObservedChange ==
    ASSUME StatusTypeOK, RegInv, LookupInv, Observe,
           UNCHANGED readerVars,
           \A j \in Names :
               /\ Len(data[j]) <= Len(data'[j])
               /\ \A i \in 1 .. Len(data[j]) :
                     \/ data'[j][i] = data[j][i]
                     \/ i = registry'[j] /\ registry'[j] # 0
                     \/ data'[j][i] = Nil /\ registry'[j] = 0,
           \A j \in Names : Len(data'[j]) \in Nat
    PROVE  LookupInv'
<1> SUFFICES ASSUME NEW r \in Readers
             PROVE  /\ at[r] = "status" =>
                          /\ name[r] \in Names
                          /\ object[r] \in 1 .. Len(data'[name[r]])
                          /\ StatusOf(data'[name[r]][object[r]]) \in during'[r]
                    /\ at[r] # "idle" => name[r] \in Names
                    /\ at[r] = "done" => result[r] \in during'[r]
    BY DEF LookupInv, readerVars
<1>1. at[r] # "idle" => during'[r] = during[r] \cup {Status(n)' : n \in {name[r]}}
    BY DEF Observe
<1>2. CASE at[r] = "status"
    <2>1. /\ name[r] \in Names
          /\ object[r] \in 1 .. Len(data[name[r]])
          /\ StatusOf(data[name[r]][object[r]]) \in during[r]
        BY <1>2 DEF LookupInv
    <2>2. during[r] \subseteq during'[r] /\ Status(name[r])' \in during'[r]
        <3>1. ASSUME NEW n, n = name[r], name' = name PROVE Status(n)' = Status(name[r])'
            BY <3>1
        <3>2. QED
            BY <1>1, <1>2, <3>1 DEF readerVars
    <2>3. object[r] \in 1 .. Len(data'[name[r]])
        <3>1. Len(data[name[r]]) \in Nat
            BY <2>1, SMTT(60) DEF StatusTypeOK
        <3>2. QED
            BY <2>1, <3>1, SMTT(60)
    <2>4. Status(name[r])' = IF registry'[name[r]] = 0 THEN "unknown"
                             ELSE StatusOf(data'[name[r]][registry'[name[r]]])
        BY DEF Status, StatusOf, readerVars
    <2>5. StatusOf(Nil) = "unknown"
        BY StatusAssumption DEF StatusOf, Contents, Data
    <2>6. QED
        BY <1>2, <2>1, <2>2, <2>3, <2>4, <2>5
<1>3. CASE at[r] # "status"
    BY <1>1, <1>3 DEF LookupInv
<1>4. QED
    BY <1>2, <1>3

(* Lookups stay linearizable in every step.                                *)
LEMMA LookupStep == StatusTypeOK /\ RegInv /\ LookupInv /\ [StatusNext]_allVars => LookupInv'
<1> SUFFICES ASSUME StatusTypeOK, RegInv, LookupInv, [StatusNext]_allVars PROVE LookupInv'
    OBVIOUS
<1>1. ASSUME UNCHANGED <<statusVars, readerVars, during>> PROVE LookupInv'
    BY <1>1 DEF LookupInv, statusVars, readerVars, StatusOf
<1>2. ASSUME NEW n \in Names, Store(n) PROVE LookupInv'
    <2>1. \A j \in Names : Len(data[j]) \in Nat /\ Len(data'[j]) \in Nat
        BY <1>2, StoreObjects, SMTT(60) DEF StatusTypeOK
    <2>2. \A j \in Names :
              /\ Len(data[j]) <= Len(data'[j])
              /\ \A i \in 1 .. Len(data[j]) :
                    \/ data'[j][i] = data[j][i]
                    \/ i = registry'[j] /\ registry'[j] # 0
        BY <1>2, <2>1, StoreObjects
    <2>3. Observe /\ UNCHANGED readerVars
        BY <1>2 DEF Store
    <2>4. QED
        BY <2>1, <2>2, <2>3, ObservedChange
<1>3. CASE Sweep
    <2>1. \A j \in Names : Len(data[j]) \in Nat /\ Len(data'[j]) \in Nat
        BY <1>3, SweepObjects, SMTT(60) DEF StatusTypeOK
    <2>2. \A j \in Names :
              /\ Len(data[j]) <= Len(data'[j])
              /\ \A i \in 1 .. Len(data[j]) :
                    \/ data'[j][i] = data[j][i]
                    \/ data'[j][i] = Nil /\ registry'[j] = 0
        BY <1>3, <2>1, SweepObjects, SMTT(60)
    <2>3. Observe /\ UNCHANGED readerVars
        BY <1>3 DEF Sweep
    <2>4. QED
        BY <2>1, <2>2, <2>3, ObservedChange
<1>4. ASSUME NEW r \in Readers, NEW n \in Names, Lookup(r, n) PROVE LookupInv'
    <2>1. /\ name' = [name EXCEPT ![r] = n]
          /\ during' = [during EXCEPT ![r] = {Status(n)}]
          /\ UNCHANGED statusVars
        BY <1>4 DEF Lookup
    <2>2. CASE registry[n] # 0
        <3>1. /\ object' = [object EXCEPT ![r] = registry[n]]
              /\ at' = [at EXCEPT ![r] = "status"]
              /\ UNCHANGED result
            BY <1>4, <2>2 DEF Lookup
        <3>2. Status(n) = StatusOf(data[n][registry[n]]) /\ registry[n] \in 1 .. Len(data[n])
            BY <2>2, SMTT(60) DEF Status, RegInv
        <3>3. QED
            BY <2>1, <3>1, <3>2 DEF LookupInv, StatusTypeOK, statusVars, StatusOf
    <2>3. CASE registry[n] = 0
        <3>1. /\ result' = [result EXCEPT ![r] = "unknown"]
              /\ at' = [at EXCEPT ![r] = "done"]
              /\ UNCHANGED object
            BY <1>4, <2>3 DEF Lookup
        <3>2. Status(n) = "unknown"
            BY <2>3 DEF Status
        <3>3. QED
            BY <2>1, <3>1, <3>2 DEF LookupInv, StatusTypeOK, statusVars, StatusOf
    <2>4. QED
        BY <2>2, <2>3
<1>5. ASSUME NEW r \in Readers, GetStatus(r) PROVE LookupInv'
    BY <1>5 DEF GetStatus, ReadObject, LookupInv, StatusTypeOK, statusVars, StatusOf
<1>6. ASSUME NEW r \in Readers, Return(r) PROVE LookupInv'
    BY <1>6 DEF Return, LookupInv, StatusTypeOK, statusVars, StatusOf
<1>7. ASSUME NEW n \in Names, NEW c \in Contents \cup {Nil},
             ReadFile(n) \/ ReadFileFails(n) \/ Edit(n, c)
      PROVE  LookupInv'
    BY <1>1, <1>7 DEF ReadFile, ReadFileFails, Edit
<1>8. CASE ReadDir
    BY <1>1, <1>8 DEF ReadDir
<1>9. CASE UNCHANGED allVars
    BY <1>1, <1>9 DEF allVars
<1>10. QED
    BY <1>2, <1>3, <1>4, <1>5, <1>6, <1>7, <1>8, <1>9 DEF StatusNext, Reload

(* A lookup always returns a status the check had during the lookup.       *)
THEOREM LookupsAreLinearizable == StatusSpec => []LookupsLinearizable
<1>1. StatusInit => LookupInv
    BY DEF StatusInit, LookupInv
<1>2. LookupInv => LookupsLinearizable
    BY DEF LookupInv, LookupsLinearizable
<1>3. QED
    BY <1>1, <1>2, StatusStart, StatusStep, LookupStep, PTL DEF StatusSpec

-----------------------------------------------------------------------------
\* What a pass has read was in the files during the pass.
PassInv ==
    /\ pc = "store" => content \in held[cur] \cup {Nil}
    /\ pc # "list" => \A n \in Names \ dir : Nil \in held[n]
    /\ \A n \in Names : disk[n] \in held[n]

\* What ErrorsPreserve says of one step.
PreserveStep ==
    \A n \in Names :
        Status(n)' # Status(n) =>
           \/ \E d \in held[n] \cap Data : Status(n)' = StatusOf(d)
           \/ n \notin dir /\ Nil \in held[n] /\ Status(n)' = "unknown"

(* The listing and the content read are accounted for in every step.       *)
LEMMA PassStep == StatusTypeOK /\ RegInv /\ PassInv /\ [StatusNext]_allVars => PassInv'
<1> SUFFICES ASSUME StatusTypeOK, RegInv, PassInv, [StatusNext]_allVars PROVE PassInv'
    OBVIOUS
<1> USE DEF StatusTypeOK, RegInv, PassInv
<1>1. CASE ReadDir
    BY <1>1 DEF ReadDir
<1>2. ASSUME NEW n \in Names, ReadFile(n) \/ ReadFileFails(n) PROVE PassInv'
    BY <1>2 DEF ReadFile, ReadFileFails, diskVars
<1>3. ASSUME NEW n \in Names, Store(n) PROVE PassInv'
    BY <1>3 DEF Store, diskVars
<1>4. CASE Sweep
    BY <1>4 DEF Sweep, diskVars
<1>5. ASSUME NEW n \in Names, NEW c \in Contents \cup {Nil}, Edit(n, c) PROVE PassInv'
    BY <1>5 DEF Edit, passVars
<1>6. ASSUME UNCHANGED <<diskVars, passVars>> PROVE PassInv'
    BY <1>6 DEF diskVars, passVars
<1>7. ASSUME NEW r \in Readers, NEW n \in Names, Lookup(r, n) PROVE PassInv'
    BY <1>6, <1>7 DEF Lookup
<1>8. ASSUME NEW r \in Readers, GetStatus(r) \/ Return(r) PROVE PassInv'
    BY <1>6, <1>8 DEF GetStatus, Return
<1>9. CASE UNCHANGED allVars
    BY <1>6, <1>9 DEF allVars
<1> HIDE DEF StatusTypeOK, RegInv, PassInv
<1>10. QED
    BY <1>1, <1>2, <1>3, <1>4, <1>5, <1>7, <1>8, <1>9 DEF StatusNext, Reload

(* Only a load and a sweep change a status, and they have a reason to.     *)
LEMMA PreservedByStep == StatusTypeOK /\ RegInv /\ PassInv /\ [StatusNext]_allVars => PreserveStep
<1> SUFFICES ASSUME StatusTypeOK, RegInv, PassInv, [StatusNext]_allVars PROVE PreserveStep
    OBVIOUS
<1>1. ASSUME NEW n \in Names, Store(n) PROVE PreserveStep
    <2>1. ASSUME NEW j \in Names, j # n PROVE Status(j)' = Status(j)
        <3>1. data'[j] = data[j] /\ registry'[j] = registry[j]
            BY <1>1, <2>1, StoreObjects
        <3>2. QED
            BY <3>1 DEF Status, StatusOf
    <2>2. content \in held[n] \cup {Nil} /\ Nil \notin Data
        BY <1>1, StatusAssumption DEF Store, PassInv, Contents
    <2>3. \/ Status(n)' = StatusOf(content) /\ content \in Data
          \/ Status(n)' = Status(n)
        <3>1. CASE registry[n] # 0
            <4>1. registry[n] \in 1 .. Len(data[n]) /\ data[n] \in Seq(Data \cup {Nil})
                BY <3>1, SMTT(60) DEF RegInv, StatusTypeOK
            <4>2. data' = [data EXCEPT ![n][registry[n]] = Load(@)] /\ registry' = registry
                BY <1>1, <3>1 DEF Store
            <4>3. data'[n][registry[n]] = Load(data[n][registry[n]])
                BY <4>1, <4>2, SMTT(60) DEF StatusTypeOK
            <4>4. Status(n)' = StatusOf(Load(data[n][registry[n]]))
                  /\ Status(n) = StatusOf(data[n][registry[n]])
                BY <3>1, <4>2, <4>3 DEF Status, StatusOf
            <4>5. QED
                BY <4>4 DEF Load, Data
        <3>2. CASE registry[n] = 0
            <4>1. Len(data[n]) \in Nat /\ data[n] \in Seq(Data \cup {Nil})
                BY SMTT(60) DEF StatusTypeOK
            <4>2. data' = [data EXCEPT ![n] = Append(data[n], Load("absent"))]
                  /\ registry' = [registry EXCEPT ![n] = Len(data'[n])]
                BY <1>1, <3>2 DEF Store
            <4>3. data'[n] = Append(data[n], Load("absent")) /\ registry'[n] = Len(data'[n])
                BY <4>2 DEF StatusTypeOK
            <4>4. Load("absent") \in Data \cup {Nil}
                BY DEF Load, Data
            <4>5. registry'[n] = Len(data[n]) + 1 /\ data'[n][registry'[n]] = Load("absent")
                BY <4>1, <4>3, <4>4, SMTT(60)
            <4>6. registry'[n] # 0
                BY <4>1, <4>5, SMTT(60)
            <4>7. Status(n)' = StatusOf(Load("absent")) /\ Status(n) = "unknown"
                BY <3>2, <4>5, <4>6 DEF Status, StatusOf
            <4>8. QED
                BY <4>7 DEF Load, Data, StatusOf
        <3>3. QED
            BY <3>1, <3>2
    <2>4. QED
        BY <2>1, <2>2, <2>3 DEF PreserveStep
<1>2. CASE Sweep
    <2> SUFFICES ASSUME NEW j \in Names, Status(j)' # Status(j)
                 PROVE  j \notin dir /\ Nil \in held[j] /\ Status(j)' = "unknown"
        BY DEF PreserveStep
    <2>1. registry'[j] = 0 /\ j \notin dir
        <3>1. data'[j] = data[j] /\ registry'[j] = registry[j] => Status(j)' = Status(j)
            BY DEF Status, StatusOf
        <3>2. QED
            BY <1>2, <3>1, SweepObjects
    <2>2. Nil \in held[j]
        BY <1>2, <2>1 DEF Sweep, PassInv
    <2>3. Status(j)' = "unknown"
        BY <2>1 DEF Status
    <2>4. QED
        BY <2>1, <2>2, <2>3
<1>3. ASSUME UNCHANGED statusVars PROVE PreserveStep
    BY <1>3 DEF PreserveStep, Status, StatusOf, statusVars
<1>4. ASSUME NEW n \in Names, NEW c \in Contents \cup {Nil},
             ReadFile(n) \/ ReadFileFails(n) \/ Edit(n, c)
      PROVE  UNCHANGED statusVars
    BY <1>4 DEF ReadFile, ReadFileFails, Edit
<1>5. ASSUME NEW r \in Readers, NEW n \in Names, Lookup(r, n) PROVE UNCHANGED statusVars
    BY <1>5 DEF Lookup
<1>6. ASSUME NEW r \in Readers, GetStatus(r) \/ Return(r) PROVE UNCHANGED statusVars
    BY <1>6 DEF GetStatus, Return
<1>7. CASE ReadDir \/ UNCHANGED allVars
    BY <1>3, <1>7 DEF ReadDir, allVars
<1>8. QED
    BY <1>1, <1>2, <1>3, <1>4, <1>5, <1>6, <1>7 DEF StatusNext, Reload

(* A status changes only to what its file said during the pass, or because *)
(* the file was not listed: one that is invalid, unreadable or gone before *)
(* it was read preserves it.                                               *)
THEOREM InvalidFilesPreserve == StatusSpec => ErrorsPreserve
<1>1. StatusInit => PassInv
    BY SMTT(60) DEF StatusInit, PassInv
<1>2. QED
    BY <1>1, StatusStart, StatusStep, PassStep, PreservedByStep, PTL
    DEF StatusSpec, ErrorsPreserve, PreserveStep

=============================================================================
