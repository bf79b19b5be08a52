---------------------------- MODULE HealthStatus ----------------------------
(***************************************************************************)
(* The registry of health statuses (health/status.go) and the goroutine    *)
(* that keeps it up to date with a directory of files                      *)
(* (health/status_file.go), while queries look statuses up.                *)
(*                                                                         *)
(* A file is what it says of one check: a status, "absent" when it does    *)
(* not mention the check, or "bad" when it is not valid JSON.  The status   *)
(* objects (StatusFile) of a file are numbered; a lookup may hold one that *)
(* is no longer registered.                                                *)
(***************************************************************************)
EXTENDS Naturals, Sequences

CONSTANTS
    Names,      \* the names of the files
    Readers,    \* goroutines that look up a status
    Nil,
    MaxEdits    \* bound on the changes of files

Statuses == {"healthy", "unhealthy", "unknown"}
Data == {"healthy", "unhealthy", "absent"}
Contents == Data \cup {"bad"}

ASSUME StatusAssumption ==
    /\ Nil \notin Names \cup Contents
    /\ MaxEdits \in Nat

VARIABLES
    disk,       \* the directory
    edits,
    pc, dir, todo, cur, content,    \* reloadDirectory()
    data,       \* data[n]: the maps of n's status objects; Nil once closed
    registry,   \* registry[n]: the number of the object registered, or 0
    at, name, object, result,       \* the lookups
    held,       \* history: what the file has been since the pass began
    during      \* history: the statuses since the lookup began

diskVars == <<disk, edits, held>>
passVars == <<pc, dir, todo, cur, content>>
statusVars == <<data, registry>>
readerVars == <<at, name, object, result>>
allVars == <<diskVars, passVars, statusVars, readerVars, during>>

StatusInit ==
    /\ disk \in [Names -> Contents \cup {Nil}]
    /\ edits = 0
    /\ held = [n \in Names |-> {disk[n]}]
    /\ pc = "list"
    /\ dir = {}
    /\ todo = {}
    /\ cur = Nil
    /\ content = Nil
    /\ data = [n \in Names |-> <<>>]
    /\ registry = [n \in Names |-> 0]
    /\ at = [r \in Readers |-> "idle"]
    /\ name = [r \in Readers |-> Nil]
    /\ object = [r \in Readers |-> 0]
    /\ result = [r \in Readers |-> "unknown"]
    /\ during = [r \in Readers |-> {}]

\* A file is written, replaced or removed (Nil).
Edit(n, c) ==
    /\ edits < MaxEdits
    /\ c # disk[n]
    /\ disk' = [disk EXCEPT ![n] = c]
    /\ edits' = edits + 1
    /\ held' = [held EXCEPT ![n] = @ \cup {c}]
    /\ UNCHANGED <<passVars, statusVars, readerVars, during>>

-----------------------------------------------------------------------------
(* What a lookup would say now.                                            *)

StatusOf(d) == IF d \in {"healthy", "unhealthy"} THEN d ELSE "unknown"
Status(n) == IF registry[n] = 0 THEN "unknown" ELSE StatusOf(data[n][registry[n]])

\* Lookups under way see every status there is.
Observe == during' = [r \in Readers |->
              IF at[r] = "idle" THEN {} ELSE during[r] \cup {Status(n)' : n \in {name[r]}}]

-----------------------------------------------------------------------------
(* reloadDirectory(), once a second.  When the directory cannot be listed  *)
(* it returns at once: the pass has not begun, and nothing changes.        *)

ReadDir ==
    /\ pc = "list"
    /\ dir' = {n \in Names : disk[n] # Nil}
    /\ todo' = dir'
    /\ held' = [n \in Names |-> {disk[n]}]
    /\ pc' = "files"
    /\ UNCHANGED <<disk, edits, cur, content, statusVars, readerVars, during>>

\* Load: the file is read; it may be gone by now (Nil).
ReadFile(n) ==
    /\ pc = "files"
    /\ n \in todo
    /\ cur' = n
    /\ content' = disk[n]
    /\ todo' = todo \ {n}
    /\ pc' = "store"
    /\ UNCHANGED <<diskVars, dir, statusVars, readerVars, during>>

\* Load: the file is there and cannot be read.
ReadFileFails(n) ==
    /\ pc = "files"
    /\ n \in todo
    /\ cur' = n
    /\ content' = Nil
    /\ todo' = todo \ {n}
    /\ pc' = "store"
    /\ UNCHANGED <<diskVars, dir, statusVars, readerVars, during>>

LoadOnce(old) == IF content \in Data /\ old = "absent" THEN content ELSE old

LoadOrEmpty(old) == IF content \in Data THEN content ELSE "absent"

\* The data of the object afterwards: on an error the old data is preserved.
Load(old) == IF content \in Data THEN content ELSE old

\* The new data is swapped in, or a new object is registered with it.
Store(n) ==
    /\ pc = "store"
    /\ cur = n
    /\ IF registry[n] # 0
       THEN /\ data' = [data EXCEPT ![n][registry[n]] = Load(@)]
            /\ UNCHANGED registry
       ELSE /\ data' = [data EXCEPT ![n] = Append(@, Load("absent"))]
            /\ registry' = [registry EXCEPT ![n] = Len(data'[n])]
    /\ Observe
    /\ pc' = "files"
    /\ cur' = Nil
    /\ content' = Nil
    /\ UNCHANGED <<diskVars, dir, todo, readerVars>>

\* The statuses to remove: those whose file was not listed.
Unseen(n) == registry[n] # 0 /\ n \notin dir

\* With the registry locked, the objects of missing files are closed and
\* removed.
Sweep ==
    /\ pc = "files"
    /\ todo = {}
    /\ data' = [n \in Names |-> IF Unseen(n) THEN [data[n] EXCEPT ![registry[n]] = Nil]
                                            ELSE data[n]]
    /\ registry' = [n \in Names |-> IF Unseen(n) THEN 0 ELSE registry[n]]
    /\ Observe
    /\ pc' = "list"
    /\ UNCHANGED <<diskVars, dir, todo, cur, content, readerVars>>

Reload ==
    \/ ReadDir \/ Sweep
    \/ \E n \in Names : ReadFile(n) \/ ReadFileFails(n) \/ Store(n)

-----------------------------------------------------------------------------
(* GetStatus().                                                            *)

\* The object is taken from the registry, which is then unlocked.
Lookup(r, n) ==
    /\ at[r] = "idle"
    /\ name' = [name EXCEPT ![r] = n]
    /\ during' = [during EXCEPT ![r] = {Status(n)}]
    /\ IF registry[n] # 0
       THEN /\ object' = [object EXCEPT ![r] = registry[n]]
            /\ at' = [at EXCEPT ![r] = "status"]
            /\ UNCHANGED result
       ELSE /\ result' = [result EXCEPT ![r] = "unknown"]
            /\ at' = [at EXCEPT ![r] = "done"]
            /\ UNCHANGED object
    /\ UNCHANGED <<diskVars, passVars, statusVars>>

ReadClosedAsDown(r) ==
    IF data[name[r]][object[r]] = Nil THEN "unhealthy"
    ELSE StatusOf(data[name[r]][object[r]])

\* A closed object knows nothing.
ReadObject(r) == StatusOf(data[name[r]][object[r]])

GetStatus(r) ==
    /\ at[r] = "status"
    /\ result' = [result EXCEPT ![r] = ReadObject(r)]
    /\ at' = [at EXCEPT ![r] = "done"]
    /\ UNCHANGED <<diskVars, passVars, statusVars, name, object, during>>

Return(r) ==
    /\ at[r] = "done"
    /\ at' = [at EXCEPT ![r] = "idle"]
    /\ name' = [name EXCEPT ![r] = Nil]
    /\ object' = [object EXCEPT ![r] = 0]
    /\ result' = [result EXCEPT ![r] = "unknown"]
    /\ during' = [during EXCEPT ![r] = {}]
    /\ UNCHANGED <<diskVars, passVars, statusVars>>

StatusNext ==
    \/ Reload
    \/ \E n \in Names, c \in Contents \cup {Nil} : Edit(n, c)
    \/ \E r \in Readers : GetStatus(r) \/ Return(r) \/ \E n \in Names : Lookup(r, n)

StatusSpec == StatusInit /\ [][StatusNext]_allVars

\* The reloading goroutine runs for ever, and what is there can be listed and
\* read in the end, though not every time.
FairStatusSpec ==
    /\ StatusSpec
    /\ WF_allVars(Reload)
    /\ \A n \in Names : SF_allVars(ReadFile(n))

-----------------------------------------------------------------------------
StatusTypeOK ==
    /\ disk \in [Names -> Contents \cup {Nil}]
    /\ edits \in Nat
    /\ held \in [Names -> SUBSET (Contents \cup {Nil})]
    /\ pc \in {"list", "files", "store"}
    /\ dir \subseteq Names /\ todo \subseteq dir
    /\ cur \in Names \cup {Nil}
    /\ content \in Contents \cup {Nil}
    /\ data \in [Names -> Seq(Data \cup {Nil})]
    /\ registry \in [Names -> Nat]
    /\ at \in [Readers -> {"idle", "status", "done"}]
    /\ name \in [Readers -> Names \cup {Nil}]
    /\ object \in [Readers -> Nat]
    /\ result \in [Readers -> Statuses]
    /\ during \in [Readers -> SUBSET Statuses]

(* A lookup returns a status the check had at some time during the lookup, *)
(* although the registry is unlocked between finding the object and asking *)
(* it, and the object may be reloaded, closed and replaced meanwhile.      *)
LookupsLinearizable == \A r \in Readers : at[r] = "done" => result[r] \in during[r]

(* A status changes only to what valid content of its file says that was   *)
(* there at some time in this pass, or to unknown when the file was not    *)
(* listed at its start: a file that is invalid, cannot be read, or is gone *)
(* after it was listed changes nothing ("If there's a JSON error the old   *)
(* data is preserved", Load).                                              *)
ErrorsPreserve ==
    [][\A n \in Names :
         Status(n)' # Status(n) =>
            \/ \E d \in held[n] \cap Data : Status(n)' = StatusOf(d)
            \/ n \notin dir /\ Nil \in held[n] /\ Status(n)' = "unknown"]_allVars

(* When the files stop changing, the statuses end up as the valid ones say *)
(* and those of missing ones unknown.                                      *)
InSync(n) == disk[n] # "bad" => Status(n) = StatusOf(disk[n])
StatusFollows == <>[](\A n \in Names : InSync(n))

=============================================================================
