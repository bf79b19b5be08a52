----------------------------- MODULE ZoneProofs -----------------------------
(***************************************************************************)
(* Proofs about the zone manager by itself, and about queries served while *)
(* it reloads and removes zones, for any zones, contents and bounds.       *)
(***************************************************************************)
EXTENDS ZoneServing, TLAPS

\* Most leaves are first-order reasoning; those with arithmetic cite SMTT(60).
USE ZenonT(60)

(* The variables have their types at the start.                            *)
LEMMA TypeInit == Init => TypeOK
<1> USE ReloadAssumption
<1> SUFFICES ASSUME Init PROVE TypeOK
  OBVIOUS
<1>1. PICK start \in [Zones -> Contents \cup {None}] :
        /\ disk = [z \in Zones |->
                     [content |-> start[z], mtime |-> 0, readable |-> TRUE]]
        /\ used = [z \in Zones |-> {start[z]} \ {None}]
  BY DEF Init
<1>2. disk \in [Zones -> Files]
  BY <1>1 DEF Files
<1>3. used \in [Zones -> SUBSET Contents]
  BY <1>1
<1>4. /\ NoRecord \in ReadRecords
      /\ NoZone \in ZoneObjects
      /\ [content |-> Builtin, stats |-> 1] \in ZoneObjects
  BY DEF NoRecord, NoZone, ReadRecords, ZoneObjects
<1> QED
  BY <1>2, <1>3, <1>4 DEF Init, TypeOK

(* Every step, of the zone manager and of whoever edits the files, keeps   *)
(* the types.                                                              *)
LEMMA TypeStep ==
    ASSUME TypeOK, [Next]_vars
    PROVE  TypeOK'
<1> USE ReloadAssumption
<1> USE DEF TypeOK
<1>1. ASSUME NEW z \in Zones, NEW c \in Contents, NEW t \in Nat, NEW op,
             Tick(op), PutFile(z, c, t)
      PROVE  TypeOK'
  BY <1>1, SMTT(60) DEF Tick, PutFile, Files, passVars, zoneVars
<1>2. ASSUME NEW z \in Zones, TouchFile(z) PROVE TypeOK'
  BY <1>1, <1>2, SMTT(60) DEF TouchFile, Tick, Present, Files
<1>3. ASSUME NEW z \in Zones, RemoveFile(z) PROVE TypeOK'
  BY <1>3, SMTT(60) DEF RemoveFile, Tick, Files, passVars, zoneVars
<1>4. ASSUME NEW z \in Zones, ChmodFile(z) PROVE TypeOK'
  <2>1. PICK r \in BOOLEAN : disk' = [disk EXCEPT ![z].readable = r]
    BY <1>4 DEF ChmodFile
  <2>2. disk' \in [Zones -> Files]
    BY <2>1 DEF Files
  <2> QED
    BY <1>4, <2>2, SMTT(60) DEF ChmodFile, Tick, passVars, zoneVars
<1>5. ASSUME NEW z \in Zones, NEW c \in Contents, WriteFile(z, c) PROVE TypeOK'
  BY <1>1, <1>5, SMTT(60) DEF WriteFile, Tick
<1>6. ASSUME NEW z \in Zones, NEW c \in Contents, RevertFile(z, c) PROVE TypeOK'
  BY <1>1, <1>6, SMTT(60) DEF RevertFile, Tick
<1>7. ASSUME NEW z \in Zones, NEW c \in Contents, NEW t \in 1 .. clock,
             BackdateFile(z, c, t)
      PROVE  TypeOK'
  BY <1>1, <1>7, SMTT(60) DEF BackdateFile
<1>8. CASE ReadDir
  BY <1>8 DEF ReadDir, Files, envVars, zoneVars
<1>9. ASSUME NEW z \in Zones, CheckFile(z) PROVE TypeOK'
  <2>1. ReadFile(z) \in Contents \cup {None}
    BY DEF ReadFile, Files
  <2>2. RecordTime(z) \in ReadRecords
    BY DEF RecordTime, ReadRecords
  <2> QED
    BY <1>9, <2>1, <2>2, SMTT(60) DEF CheckFile, envVars
<1>10. CASE ParseFile
  <2>1. cur \in Zones
    BY <1>10 DEF ParseFile
  <2>2. CASE Accepts(ReadFile(cur))
    <3>1. SetupMetrics(cur) \in Nat
      BY <2>1, SMTT(60) DEF SetupMetrics, ZoneObjects
    <3>2. [content |-> ReadFile(cur), stats |-> SetupMetrics(cur)] \in ZoneObjects
      BY <2>2, <3>1 DEF Accepts, ZoneObjects
    <3>3. lastRead' \in [Zones -> ReadRecords]
      BY <1>10, <2>1, <2>2, SMTT(60) DEF ParseFile, ReadRecords
    <3> QED
      BY <1>10, <2>1, <2>2, <3>1, <3>2, <3>3, SMTT(60) DEF ParseFile, addHandler, envVars
  <2>3. CASE ~ Accepts(ReadFile(cur))
    BY <1>10, <2>3 DEF ParseFile, envVars, zoneVars
  <2> QED
    BY <2>2, <2>3
<1>11. CASE FilesDone
  BY <1>11 DEF FilesDone, envVars, zoneVars
<1>12. ASSUME NEW z \in Zones, CloseZone(z) PROVE TypeOK'
  BY <1>12 DEF CloseZone, envVars, ZoneObjects
<1>13. CASE RemoveZone
  BY <1>13 DEF RemoveZone, removeHandler, envVars, NoRecord, NoZone, ReadRecords, ZoneObjects
<1>14. CASE PassDone \/ ReadDirFails
  BY <1>14 DEF PassDone, ReadDirFails, envVars, zoneVars
<1>15. CASE UNCHANGED vars
  BY <1>15 DEF vars, envVars, passVars, zoneVars
<1> QED
  BY <1>2, <1>3, <1>4, <1>5, <1>6, <1>7, <1>8, <1>9, <1>10, <1>11, <1>12, <1>13,
     <1>14, <1>15 DEF Next, Environment, Reload

(* Every variable keeps its type, whatever is done to the files.           *)
THEOREM TypeCorrect == Spec => []TypeOK
<1>1. TypeOK /\ [Next]_vars => TypeOK'
  BY TypeStep
<1> QED
  BY <1>1, TypeInit, PTL DEF Spec

-----------------------------------------------------------------------------
(* Why a racing update is noticed.  Times: the recorded time of a file and *)
(* the one in the directory listing are never later than the file's, which *)
(* only moves forward.  Contents: a recorded hash is that of a content the *)
(* file has had; if it is the one the file has now, it is the one served,  *)
(* because the parse that recorded it came after the hash was read and no  *)
(* earlier content comes back.                                             *)
CurrentInv ==
    /\ \A z \in Zones :
          /\ disk[z].readable = TRUE
          /\ disk[z].mtime <= clock
          /\ dir[z] <= disk[z].mtime
          /\ lastRead[z].known => lastRead[z].time <= disk[z].mtime
          /\ disk[z].content # None => disk[z].content \in used[z]
          /\ lastRead[z].hash # None => lastRead[z].hash \in used[z]
          /\ pc = "parse" /\ cur = z /\ sha256 # None => sha256 \in used[z]
          /\ disk[z].content # None /\ lastRead[z].hash = disk[z].content
             => mux[z].content = disk[z].content
    /\ RecordsCurrent

(* If files only ever get new contents and later times, CurrentInv is kept *)
(* by every step of the zone manager and of whoever edits the files.       *)
LEMMA CurrentStep ==
    ASSUME EnvOps \subseteq AtomicUpdates, TypeOK, CurrentInv, [Next]_vars
    PROVE  CurrentInv'
<1> USE ReloadAssumption DEF TypeOK, CurrentInv, RecordsCurrent
<1>1. ASSUME NEW z \in Zones, NEW c \in Contents, NEW op,
             Tick(op), PutFile(z, c, clock'),
             c \notin used[z] \/ c = disk[z].content
      PROVE  CurrentInv'
  <2>1. disk'[z] = [content |-> c, mtime |-> clock + 1, readable |-> TRUE]
    BY <1>1 DEF Tick, PutFile
  <2>2. \A y \in Zones : y # z => disk'[y] = disk[y] /\ used'[y] = used[y]
    BY <1>1 DEF PutFile
  <2>3. used'[z] = used[z] \cup {c}
    BY <1>1 DEF PutFile
  <2>4. clock' = clock + 1 /\ UNCHANGED <<pc, cur, sha256, dir, lastRead, mux>>
    BY <1>1 DEF Tick, passVars, zoneVars
  <2>5. ASSUME NEW y \in Zones, y # z
        PROVE  /\ disk'[y] = disk[y]
               /\ used'[y] = used[y]
               /\ disk'[y].mtime <= clock'
    BY <2>2, <2>4, <2>5, SMTT(60) DEF Files
  <2>6. /\ lastRead[z].known => lastRead[z].time < disk'[z].mtime
        /\ dir[z] <= disk'[z].mtime
        /\ disk'[z].mtime <= clock'
    BY <2>1, <2>4, SMTT(60) DEF Files, ReadRecords
  <2>7. lastRead[z].hash = c => c = disk[z].content
    BY <1>1
  <2>8. ASSUME NEW y \in Zones
        PROVE  /\ disk'[y].readable = TRUE
               /\ disk'[y].mtime <= clock'
               /\ dir'[y] <= disk'[y].mtime
               /\ lastRead'[y].known => lastRead'[y].time <= disk'[y].mtime
               /\ disk'[y].content # None => disk'[y].content \in used'[y]
               /\ lastRead'[y].hash # None => lastRead'[y].hash \in used'[y]
               /\ pc' = "parse" /\ cur' = y /\ sha256' # None => sha256' \in used'[y]
               /\ disk'[y].content # None /\ lastRead'[y].hash = disk'[y].content
                  => mux'[y].content = disk'[y].content
    <3>1. CASE y = z
      BY <2>1, <2>3, <2>4, <2>6, <2>7, <3>1, SMTT(60) DEF Files, ReadRecords
    <3>2. CASE y # z
      BY <2>4, <2>5, <3>2
    <3> QED
      BY <3>1, <3>2
  <2>9. RecordsCurrent'
    BY <2>1, <2>4, <2>5, <2>6, SMTT(60) DEF Files, ReadRecords
  <2> QED
    BY <2>8, <2>9
<1>2. ASSUME NEW z \in Zones, TouchFile(z) PROVE CurrentInv'
  BY <1>1, <1>2 DEF TouchFile, Present, Files
<1>3. ASSUME NEW z \in Zones, RemoveFile(z) PROVE CurrentInv'
  BY <1>3, SMTT(60) DEF RemoveFile, Tick, Files, passVars, zoneVars
<1>4. ASSUME NEW z \in Zones, NEW c \in Contents, WriteFile(z, c) PROVE CurrentInv'
  BY <1>1, <1>4 DEF WriteFile
<1>5. /\ ~ \E z \in Zones : ChmodFile(z)
      /\ ~ \E z \in Zones, c \in Contents : RevertFile(z, c)
      /\ ~ \E z \in Zones, c \in Contents, t \in 1 .. clock : BackdateFile(z, c, t)
  BY DEF ChmodFile, RevertFile, BackdateFile, Tick, AtomicUpdates
<1>6. CASE ReadDir
  BY <1>6, SMTT(60) DEF ReadDir, envVars, zoneVars, Files
<1>7. ASSUME NEW z \in Zones, CheckFile(z) PROVE CurrentInv'
  <2>1. ReadFile(z) = disk[z].content
    BY DEF ReadFile
  <2>2. CASE NeedsRead(z)
    <3>1. lastRead' = [lastRead EXCEPT ![z] = RecordTime(z)]
      BY <1>7, <2>2 DEF CheckFile
    <3>2. /\ lastRead'[z] = [known |-> TRUE, time |-> dir[z], hash |-> lastRead[z].hash]
          /\ \A y \in Zones : y # z => lastRead'[y] = lastRead[y]
      BY <3>1 DEF RecordTime
    <3>3. CASE lastRead[z].hash = ReadFile(z)
      <4>1. UNCHANGED <<pc, cur, sha256, disk, clock, used, dir, mux>>
        BY <1>7, <2>2, <3>3 DEF CheckFile, envVars
      <4>2. RecordsCurrent'
        BY <2>1, <3>2, <3>3, <4>1, SMTT(60)
      <4> QED
        BY <3>2, <4>1, <4>2, SMTT(60)
    <3>4. CASE lastRead[z].hash # ReadFile(z)
      <4>1. /\ pc' = "parse" /\ cur' = z /\ sha256' = disk[z].content
            /\ UNCHANGED <<disk, clock, used, dir, mux>>
        BY <1>7, <2>1, <2>2, <3>4 DEF CheckFile, envVars
      <4>2. pc = "files"
        BY <1>7 DEF CheckFile
      <4>3. RecordsCurrent'
        BY <3>2, <4>1, <4>2
      <4> QED
        BY <3>2, <4>1, <4>3, SMTT(60)
    <3> QED
      BY <3>3, <3>4
  <2>3. CASE ~ NeedsRead(z)
    BY <1>7, <2>3 DEF CheckFile, envVars
  <2> QED
    BY <2>2, <2>3
<1>8. CASE ParseFile
  <2>1. cur \in Zones /\ ReadFile(cur) = disk[cur].content
    BY <1>8 DEF ParseFile, ReadFile
  <2>2. CASE Accepts(ReadFile(cur))
    <3>1. lastRead' = [lastRead EXCEPT ![cur].hash = sha256]
      BY <1>8, <2>2 DEF ParseFile
    <3>2. /\ lastRead'[cur].hash = sha256
          /\ \A y \in Zones : /\ lastRead'[y].known = lastRead[y].known
                              /\ lastRead'[y].time = lastRead[y].time
                              /\ y # cur => lastRead'[y].hash = lastRead[y].hash
      BY <2>1, <3>1, SMTT(60) DEF ReadRecords
    <3>3. /\ mux'[cur].content = disk[cur].content
          /\ \A y \in Zones : y # cur => mux'[y] = mux[y]
      BY <1>8, <2>1, <2>2, SMTT(60) DEF ParseFile, addHandler
    <3> QED
      BY <1>8, <2>1, <2>2, <3>2, <3>3, SMTT(60) DEF ParseFile, envVars
  <2>3. CASE ~ Accepts(ReadFile(cur))
    BY <1>8, <2>1, <2>3 DEF ParseFile, Accepts, envVars, zoneVars
  <2> QED
    BY <2>2, <2>3
<1>9. CASE FilesDone
  BY <1>9 DEF FilesDone, envVars, zoneVars
<1>10. ASSUME NEW z \in Zones, CloseZone(z) PROVE CurrentInv'
  BY <1>10 DEF CloseZone, envVars
<1>11. CASE RemoveZone
  BY <1>11 DEF RemoveZone, removeHandler, envVars, NoRecord
<1>12. CASE PassDone \/ ReadDirFails
  <2>1. /\ UNCHANGED <<disk, clock, used, lastRead, zonelist, mux, dir, todo, sha256, cur>>
        /\ pc # "parse" /\ pc' # "parse"
    BY <1>12 DEF PassDone, ReadDirFails, envVars, zoneVars
  <2> QED
    BY <1>12, <2>1 DEF PassDone, ReadDirFails
<1>13. CASE UNCHANGED vars
  BY <1>13 DEF vars, envVars, passVars, zoneVars
<1> HIDE DEF TypeOK, CurrentInv, RecordsCurrent
<1> QED
  BY <1>2, <1>3, <1>4, <1>5, <1>6, <1>7, <1>8, <1>9, <1>10, <1>11, <1>12, <1>13
     DEF Next, Environment, Reload

(* If files only ever get new contents and later modification times, the   *)
(* zone manager never takes an outdated zone for current: the two reads of *)
(* a file in reload() do not race with updates in a way that is not        *)
(* repaired.  (With a content that comes back this fails.)                 *)
THEOREM RecordsAreCurrent ==
    ASSUME EnvOps \subseteq AtomicUpdates
    PROVE  Spec => []RecordsCurrent
<1>1. Init => CurrentInv
  <2> SUFFICES ASSUME Init PROVE CurrentInv
    OBVIOUS
  <2>1. PICK start \in [Zones -> Contents \cup {None}] :
          /\ disk = [z \in Zones |->
                       [content |-> start[z], mtime |-> 0, readable |-> TRUE]]
          /\ used = [z \in Zones |-> {start[z]} \ {None}]
    BY DEF Init
  <2> QED
    BY <2>1, ReloadAssumption, SMTT(60) DEF Init, CurrentInv, RecordsCurrent, NoRecord
<1>2. TypeOK /\ CurrentInv /\ [Next]_vars => CurrentInv'
  BY CurrentStep
<1>3. CurrentInv => RecordsCurrent
  BY DEF CurrentInv
<1> QED
  BY <1>1, <1>2, <1>3, TypeCorrect, PTL DEF Spec

-----------------------------------------------------------------------------
(* What ties a pass to the directory: an entry that the pass has not met   *)
(* and will not meet was missing at some moment of the pass, and only such *)
(* a zone is picked for removal.                                           *)
PassInv ==
    /\ \A z \in Zones : disk[z].content # None => disk[z].content \in used[z]
    /\ pc \in {"files", "parse"} => \A z \in Zones : z \in todo \cup seenZones \cup gone
    /\ pc \in {"sweep", "remove"} => \A z \in Zones : z \in seenZones \cup gone
    /\ pc = "remove" => cur \notin seenZones
    /\ ServedWasOnDisk

(* PassInv is kept by every step, whatever is done to the files, and no    *)
(* step drops a zone other than one whose file was missing.                *)
LEMMA PassStep ==
    ASSUME TypeOK, PassInv, [Next]_vars
    PROVE  /\ PassInv'
           /\ \A z \in Zones : mux[z] # NoZone /\ mux'[z] = NoZone => z \in gone
<1> DEFINE Drops == \A z \in Zones : mux[z] # NoZone /\ mux'[z] = NoZone => z \in gone
<1> SUFFICES PassInv' /\ Drops
  OBVIOUS
<1> USE ReloadAssumption DEF TypeOK, PassInv, ServedWasOnDisk
<1>1. ASSUME NEW z \in Zones, NEW c \in Contents, NEW t, NEW op,
             Tick(op), PutFile(z, c, t)
      PROVE  PassInv' /\ Drops
  BY <1>1 DEF Tick, PutFile, Files, passVars, zoneVars
<1>2. ASSUME NEW z \in Zones, TouchFile(z) PROVE PassInv' /\ Drops
  BY <1>1, <1>2 DEF TouchFile, Present, Files
<1>3. ASSUME NEW z \in Zones, RemoveFile(z) PROVE PassInv' /\ Drops
  BY <1>3, SMTT(60) DEF RemoveFile, Tick, Files, passVars, zoneVars
<1>4. ASSUME NEW z \in Zones, ChmodFile(z) PROVE PassInv' /\ Drops
  BY <1>4, SMTT(60) DEF ChmodFile, Tick, Files, passVars, zoneVars
<1>5. ASSUME NEW z \in Zones, NEW c \in Contents,
             WriteFile(z, c) \/ RevertFile(z, c)
      PROVE  PassInv' /\ Drops
  BY <1>1, <1>5 DEF WriteFile, RevertFile
<1>6. ASSUME NEW z \in Zones, NEW c \in Contents, NEW t \in 1 .. clock,
             BackdateFile(z, c, t)
      PROVE  PassInv' /\ Drops
  BY <1>1, <1>6 DEF BackdateFile
<1>7. CASE ReadDir
  BY <1>7 DEF ReadDir, Present, envVars, zoneVars
<1>8. ASSUME NEW z \in Zones, CheckFile(z) PROVE PassInv' /\ Drops
  BY <1>8 DEF CheckFile, envVars
<1>9. CASE ParseFile
  <2>1. CASE Accepts(ReadFile(cur))
    <3>1. /\ cur \in Zones
          /\ ReadFile(cur) \in Valid \cap used[cur]
      BY <1>9, <2>1 DEF ParseFile, Accepts, ReadFile, Files
    <3>2. /\ mux'[cur].content = ReadFile(cur)
          /\ \A z \in Zones : z # cur => mux'[z] = mux[z]
      BY <1>9, <2>1, <3>1, SMTT(60) DEF ParseFile, addHandler
    <3>3. mux'[cur] # NoZone
      BY <3>1, <3>2, SMTT(60) DEF NoZone
    <3> QED
      BY <1>9, <3>1, <3>2, <3>3 DEF ParseFile, envVars
  <2>2. CASE ~ Accepts(ReadFile(cur))
    BY <1>9, <2>2 DEF ParseFile, envVars, zoneVars
  <2> QED
    BY <2>1, <2>2
<1>10. CASE FilesDone
  BY <1>10 DEF FilesDone, envVars, zoneVars
<1>11. ASSUME NEW z \in Zones, CloseZone(z) PROVE PassInv' /\ Drops
  BY <1>11 DEF CloseZone, Unseen, envVars
<1>12. CASE RemoveZone
  BY <1>12 DEF RemoveZone, removeHandler, envVars, NoZone
<1>13. CASE PassDone \/ ReadDirFails
  BY <1>13 DEF PassDone, ReadDirFails, envVars, zoneVars
<1>14. CASE UNCHANGED vars
  BY <1>14 DEF vars, envVars, passVars, zoneVars
<1> HIDE DEF TypeOK, PassInv, ServedWasOnDisk, Drops
<1> QED
  BY <1>2, <1>3, <1>4, <1>5, <1>6, <1>7, <1>8, <1>9, <1>10, <1>11, <1>12, <1>13, <1>14
     DEF Next, Environment, Reload

(* PassInv holds from the start.                                           *)
LEMMA PassInit == Init => PassInv
<1> SUFFICES ASSUME Init PROVE PassInv
  OBVIOUS
<1>1. PICK start \in [Zones -> Contents \cup {None}] :
        /\ disk = [z \in Zones |->
                     [content |-> start[z], mtime |-> 0, readable |-> TRUE]]
        /\ used = [z \in Zones |-> {start[z]} \ {None}]
  BY DEF Init
<1> QED
  BY <1>1, ReloadAssumption DEF Init, PassInv, ServedWasOnDisk, NoZone

(* Whatever is done to the files, a zone is dropped only if its file was   *)
(* missing: an invalid, unreadable or racing update keeps the previous     *)
(* configuration in service.                                               *)
THEOREM DropsOnlyMissing == Spec => OnlyMissingFilesDrop
<1>1. TypeOK /\ PassInv /\ [Next]_vars => PassInv'
  BY PassStep
<1>2. TypeOK /\ PassInv /\ [Next]_vars
      => [\A z \in Zones : mux[z] # NoZone /\ mux'[z] = NoZone => z \in gone]_vars
  BY PassStep
<1> QED
  BY <1>1, <1>2, PassInit, TypeCorrect, PTL DEF Spec, OnlyMissingFilesDrop

(* Whatever is done to the files, every registered zone holds a valid      *)
(* content that its file has had (or is the built-in one).                 *)
THEOREM ServesWhatWasOnDisk == Spec => []ServedWasOnDisk
<1>1. TypeOK /\ PassInv /\ [Next]_vars => PassInv'
  BY PassStep
<1>2. PassInv => ServedWasOnDisk
  BY DEF PassInv
<1> QED
  BY <1>1, <1>2, PassInit, TypeCorrect, PTL DEF Spec

-----------------------------------------------------------------------------
FromStart(z) == disk[z].mtime = 0 /\ disk[z].content \in Valid

(* How the first pass brings the files that are there into service.  A     *)
(* file unchanged since the start is an entry of every pass; once met it   *)
(* has a record, and with a record it is served, except that the first     *)
(* pass still has to parse it.                                             *)
StartInv ==
    /\ up => loaded # "no"
    /\ pc \in {"sweep", "remove"} => todo = {}
    /\ pc = "remove" => cur \notin seenZones
    /\ pc = "parse" => lastRead[cur].known
    /\ \A z \in Zones : ~ lastRead[z].known => lastRead[z].hash = None
    /\ \A z \in Zones : FromStart(z) =>
          /\ disk[z].readable = TRUE
          /\ pc # "sleep" => z \in todo \cup seenZones
          /\ z \in seenZones \/ loaded = "yes" => lastRead[z].known
          /\ lastRead[z].known /\ (loaded = "yes" \/ ~ (pc = "parse" /\ cur = z))
             => mux[z].content = disk[z].content

(* If permissions stay as they are, StartInv is kept by every step.        *)
LEMMA StartStep ==
    ASSUME "chmod" \notin EnvOps, TypeOK, StartInv, [Next]_vars
    PROVE  StartInv'
<1> USE ReloadAssumption DEF TypeOK, StartInv
<1>1. ASSUME NEW y \in Zones, NEW op, Tick(op),
             \A z \in Zones : z # y => disk'[z] = disk[z],
             ~ FromStart(y)'
      PROVE  StartInv'
  <2>1. UNCHANGED <<pc, up, loaded, todo, seenZones, cur, lastRead, mux>>
    BY <1>1 DEF Tick, passVars, zoneVars
  <2>2. \A z \in Zones : FromStart(z)' => FromStart(z) /\ disk'[z] = disk[z]
    BY <1>1 DEF FromStart
  <2> QED
    BY <2>1, <2>2
<1>2. ASSUME NEW y \in Zones, NEW c \in Contents, NEW t \in Nat \ {0}, NEW op,
             Tick(op), PutFile(y, c, t)
      PROVE  StartInv'
  <2>1. /\ \A z \in Zones : z # y => disk'[z] = disk[z]
        /\ ~ FromStart(y)'
    BY <1>2 DEF PutFile, FromStart
  <2> QED
    BY <1>1, <1>2, <2>1
<1>3. ASSUME NEW op, Tick(op) PROVE clock' \in Nat \ {0}
  BY <1>3, SMTT(60) DEF Tick
<1>4. ASSUME NEW y \in Zones, TouchFile(y) PROVE StartInv'
  <2>1. disk[y].content \in Contents /\ clock' \in Nat \ {0}
    BY <1>3, <1>4 DEF TouchFile, Present, Files
  <2> QED
    BY <1>2, <1>4, <2>1 DEF TouchFile
<1>5. ASSUME NEW y \in Zones, NEW c \in Contents, WriteFile(y, c) \/ RevertFile(y, c)
      PROVE  StartInv'
  <2>1. clock' \in Nat \ {0}
    BY <1>3, <1>5 DEF WriteFile, RevertFile
  <2> QED
    BY <1>2, <1>5, <2>1 DEF WriteFile, RevertFile
<1>6. ASSUME NEW y \in Zones, NEW c \in Contents, NEW t \in 1 .. clock, BackdateFile(y, c, t)
      PROVE  StartInv'
  <2>1. t \in Nat \ {0} /\ Tick("backdate") /\ PutFile(y, c, t)
    BY <1>6, SMTT(60) DEF BackdateFile
  <2> QED
    BY <1>2, <2>1
<1>7. ASSUME NEW y \in Zones, RemoveFile(y) PROVE StartInv'
  <2>1. /\ \A z \in Zones : z # y => disk'[z] = disk[z]
        /\ ~ FromStart(y)'
    BY <1>7, SMTT(60) DEF RemoveFile, FromStart, Files
  <2> QED
    BY <1>1, <1>7, <2>1 DEF RemoveFile
<1>8. ~ \E z \in Zones : ChmodFile(z)
  BY DEF ChmodFile, Tick
<1>9. CASE ReadDir
  BY <1>9, SMTT(60) DEF ReadDir, Present, FromStart, envVars, zoneVars
<1>10. ASSUME NEW y \in Zones, CheckFile(y) PROVE StartInv'
  <2>1. /\ pc = "files" /\ todo' = todo \ {y} /\ seenZones' = seenZones \cup {y}
        /\ UNCHANGED <<disk, up, loaded, mux>>
    BY <1>10 DEF CheckFile, envVars
  <2>2. CASE NeedsRead(y)
    <3>1. /\ lastRead'[y].known = TRUE /\ lastRead'[y].hash = lastRead[y].hash
          /\ \A z \in Zones : z # y => lastRead'[z] = lastRead[z]
      BY <1>10, <2>2, SMTT(60) DEF CheckFile, RecordTime
    <3>2. CASE lastRead[y].hash = ReadFile(y)
      <4>1. UNCHANGED <<pc, cur>>
        BY <1>10, <2>2, <3>2 DEF CheckFile
      <4>2. FromStart(y) => lastRead[y].known
        BY <3>2, SMTT(60) DEF FromStart, ReadFile
      <4> QED
        BY <2>1, <3>1, <4>1, <4>2 DEF FromStart
    <3>3. CASE lastRead[y].hash # ReadFile(y)
      <4>1. pc' = "parse" /\ cur' = y
        BY <1>10, <2>2, <3>3 DEF CheckFile
      <4> QED
        BY <2>1, <3>1, <4>1 DEF FromStart
    <3> QED
      BY <3>2, <3>3
  <2>3. CASE ~ NeedsRead(y)
    <3>1. UNCHANGED <<pc, cur, lastRead>> /\ lastRead[y].known
      BY <1>10, <2>3 DEF CheckFile, NeedsRead
    <3> QED
      BY <2>1, <3>1 DEF FromStart
  <2> QED
    BY <2>2, <2>3
<1>11. CASE ParseFile
  <2>1. /\ cur \in Zones /\ pc = "parse" /\ pc' = "files"
        /\ UNCHANGED <<disk, up, loaded, todo, seenZones>>
    BY <1>11 DEF ParseFile, envVars
  <2>2. CASE Accepts(ReadFile(cur))
    <3>1. /\ lastRead'[cur].known = TRUE
          /\ \A y \in Zones : /\ lastRead'[y].known = lastRead[y].known
                              /\ y # cur => lastRead'[y].hash = lastRead[y].hash
      BY <1>11, <2>1, <2>2, SMTT(60) DEF ParseFile, ReadRecords
    <3>2. /\ mux'[cur].content = ReadFile(cur)
          /\ \A y \in Zones : y # cur => mux'[y] = mux[y]
      BY <1>11, <2>1, <2>2, SMTT(60) DEF ParseFile, addHandler
    <3> QED
      BY <2>1, <3>1, <3>2 DEF FromStart, ReadFile
  <2>3. CASE ~ Accepts(ReadFile(cur))
    <3>1. ~ FromStart(cur) /\ UNCHANGED <<lastRead, mux>>
      BY <1>11, <2>1, <2>3 DEF ParseFile, Accepts, ReadFile, FromStart, zoneVars
    <3> QED
      BY <2>1, <3>1 DEF FromStart
  <2> QED
    BY <2>2, <2>3
<1>12. CASE FilesDone
  BY <1>12 DEF FilesDone, FromStart, envVars, zoneVars
<1>13. ASSUME NEW z \in Zones, CloseZone(z) PROVE StartInv'
  BY <1>13 DEF CloseZone, Unseen, FromStart, envVars
<1>14. CASE RemoveZone
  <2>1. /\ cur \in Zones /\ pc = "remove" /\ pc' = "sweep"
        /\ lastRead'[cur] = NoRecord
        /\ \A y \in Zones : y # cur => lastRead'[y] = lastRead[y] /\ mux'[y] = mux[y]
        /\ UNCHANGED <<disk, up, loaded, todo, seenZones>>
    BY <1>14 DEF RemoveZone, removeHandler, envVars
  <2>2. ~ FromStart(cur)
    BY <2>1
  <2>3. lastRead'[cur].known = FALSE /\ lastRead'[cur].hash = None
    BY <2>1, SMTT(60) DEF NoRecord
  <2> QED
    BY <2>1, <2>2, <2>3 DEF FromStart
<1>15. CASE PassDone \/ ReadDirFails
  BY <1>15 DEF PassDone, ReadDirFails, FromStart, envVars, zoneVars
<1>16. CASE UNCHANGED vars
  BY <1>16 DEF vars, FromStart, envVars, passVars, zoneVars
<1> HIDE DEF TypeOK, StartInv
<1> QED
  BY <1>4, <1>5, <1>6, <1>7, <1>8, <1>9, <1>10, <1>11, <1>12, <1>13, <1>14, <1>15, <1>16
     DEF Next, Environment, Reload

(* A valid file that is there at the start is served from the end of the   *)
(* first pass, which is before the server listens unless the directory     *)
(* cannot be listed, until the file or its permissions change.             *)
THEOREM ServesFromStart ==
    ASSUME "chmod" \notin EnvOps
    PROVE  Spec => []ServedFromStart
<1>1. Init => StartInv
  <2> SUFFICES ASSUME Init PROVE StartInv
    OBVIOUS
  <2>1. PICK start \in [Zones -> Contents \cup {None}] :
          disk = [z \in Zones |-> [content |-> start[z], mtime |-> 0, readable |-> TRUE]]
    BY DEF Init
  <2> QED
    BY <2>1 DEF Init, StartInv, FromStart, NoRecord
<1>2. TypeOK /\ StartInv /\ [Next]_vars => StartInv'
  BY StartStep
<1>3. StartInv => ServedFromStart
  BY DEF StartInv, ServedFromStart, FromStart
<1> QED
  BY <1>1, <1>2, <1>3, TypeCorrect, PTL DEF Spec

-----------------------------------------------------------------------------
(* Queries served while zones are reloaded and removed.                    *)

(* Where the rings of statistics are: a registered zone has the newest     *)
(* ring of its name, every ring of a zone that is not registered has been  *)
(* closed, and a zone is taken out of the mux only after its ring was      *)
(* closed.                                                                 *)
RingInv ==
    /\ mux = zonelist
    /\ \A z \in Zones :
          /\ closed[z] <= gen[z]
          /\ mux[z] # NoZone => mux[z].stats = gen[z]
          /\ mux[z] = NoZone => closed[z] = gen[z]
    /\ pc = "remove" => closed[cur] = gen[cur]

(* The rings stay so through every step.                                   *)
LEMMA RingStep ==
    ASSUME TypeOK, RingInv, [Next]_vars
    PROVE  /\ RingInv'
           /\ \A z \in Zones : /\ closed[z] <= closed'[z]
                               /\ gen[z] <= gen'[z]
                               /\ gen'[z] = gen[z] \/ closed[z] = gen[z]
<1> DEFINE Grow == \A z \in Zones : /\ closed[z] <= closed'[z]
                                    /\ gen[z] <= gen'[z]
                                    /\ gen'[z] = gen[z] \/ closed[z] = gen[z]
<1> SUFFICES RingInv' /\ Grow
  OBVIOUS
<1> USE ReloadAssumption DEF TypeOK, RingInv
<1>1. CASE UNCHANGED <<pc, cur, mux, zonelist, gen, closed>>
  BY <1>1, SMTT(60)
<1>2. CASE Environment
  BY <1>1, <1>2 DEF Environment, TouchFile, RemoveFile, ChmodFile, WriteFile, RevertFile,
                    BackdateFile, Tick, passVars, zoneVars
<1>3. CASE ReadDir
  BY <1>3, SMTT(60) DEF ReadDir, zoneVars
<1>4. ASSUME NEW z \in Zones, CheckFile(z) PROVE RingInv' /\ Grow
  BY <1>4, SMTT(60) DEF CheckFile
<1>5. CASE ParseFile
  <2>1. CASE Accepts(ReadFile(cur))
    <3> DEFINE zone == [content |-> ReadFile(cur), stats |-> SetupMetrics(cur)]
    <3>1. /\ cur \in Zones
          /\ ReadFile(cur) # None
      BY <1>5, <2>1 DEF ParseFile, Accepts
    <3>2. /\ mux' = [mux EXCEPT ![cur] = zone]
          /\ zonelist' = [zonelist EXCEPT ![cur] = zone]
          /\ gen' = [gen EXCEPT ![cur] = IF zone.stats > @ THEN zone.stats ELSE @]
          /\ closed' = closed
          /\ pc' = "files"
      BY <1>5, <2>1 DEF ParseFile, addHandler
    <3>3. zone # NoZone
      BY <3>1 DEF NoZone
    <3>4. zone.stats = IF mux[cur] # NoZone THEN gen[cur] ELSE gen[cur] + 1
      BY <3>1 DEF SetupMetrics
    <3>5. gen'[cur] = zone.stats
      BY <3>1, <3>2, <3>4, SMTT(60)
    <3>6. gen[cur] <= gen'[cur] /\ (gen'[cur] = gen[cur] \/ closed[cur] = gen[cur])
      BY <3>1, <3>4, <3>5, SMTT(60)
    <3> HIDE DEF zone
    <3>7. RingInv'
      BY <3>1, <3>2, <3>3, <3>5, <3>6
    <3> QED
      BY <3>1, <3>2, <3>6, <3>7, SMTT(60)
  <2>2. CASE ~ Accepts(ReadFile(cur))
    BY <1>5, <2>2, SMTT(60) DEF ParseFile, zoneVars
  <2> QED
    BY <2>1, <2>2
<1>6. CASE FilesDone
  BY <1>6, SMTT(60) DEF FilesDone, zoneVars
<1>7. ASSUME NEW z \in Zones, CloseZone(z) PROVE RingInv' /\ Grow
  BY <1>7, SMTT(60) DEF CloseZone, Unseen
<1>8. CASE RemoveZone
  BY <1>8, SMTT(60) DEF RemoveZone, removeHandler
<1>9. CASE PassDone \/ ReadDirFails
  BY <1>9, SMTT(60) DEF PassDone, ReadDirFails, zoneVars
<1>10. CASE UNCHANGED vars
  BY <1>1, <1>10 DEF vars, passVars, zoneVars
<1> HIDE DEF TypeOK, RingInv, Grow
<1> QED
  BY <1>2, <1>3, <1>4, <1>5, <1>6, <1>7, <1>8, <1>9, <1>10 DEF Next, Reload

-----------------------------------------------------------------------------
(* A query being served holds a zone object whose ring was created.        *)
FlightInv ==
    /\ TypeOK
    /\ ServingTypeOK
    /\ RingInv
    /\ \A q \in Queries : at[q] # "idle" => object[q].stats <= gen[handling[q]]
    /\ InFlightSharesStats

(* FlightInv holds from the start.                                         *)
LEMMA FlightInit == ServingInit => FlightInv
<1> SUFFICES ASSUME ServingInit PROVE FlightInv
  OBVIOUS
<1>1. TypeOK
  BY TypeInit DEF ServingInit
<1>2. RingInv
  BY <1>1, ReloadAssumption, SMTT(60) DEF ServingInit, Init, RingInv, NoZone
<1>3. ServingTypeOK
  BY DEF ServingInit, ServingTypeOK, NoZone, ZoneObjects
<1> QED
  BY <1>1, <1>2, <1>3 DEF ServingInit, FlightInv, InFlightSharesStats

(* FlightInv is kept by every step of a query and of the zone manager.     *)
LEMMA FlightStep ==
    ASSUME FlightInv, [ServingNext]_servingVars
    PROVE  FlightInv'
<1> USE DEF FlightInv
<1>1. ASSUME [Next]_vars, UNCHANGED queryVars
      PROVE  FlightInv'
  <2>1. TypeOK' /\ RingInv'
    BY <1>1, TypeStep, RingStep
  <2>2. ServingTypeOK'
    BY <1>1 DEF ServingTypeOK, queryVars
  <2>3. ASSUME NEW q \in Queries, at[q] # "idle"
        PROVE  /\ object[q].stats <= gen'[handling[q]]
               /\ \/ object[q].stats = mux'[handling[q]].stats
                  \/ object[q].stats <= closed'[handling[q]]
    <3> DEFINE z == handling[q]
               o == object[q].stats
    <3>1. z \in Zones /\ o \in Nat
      BY <2>3 DEF ServingTypeOK, ZoneObjects
    <3>2. /\ gen[z] \in Nat /\ gen'[z] \in Nat
          /\ closed[z] \in Nat /\ closed'[z] \in Nat
      BY <2>1, <3>1 DEF TypeOK
    <3>3. /\ closed[z] <= closed'[z]
          /\ gen[z] <= gen'[z]
          /\ gen'[z] = gen[z] \/ closed[z] = gen[z]
      BY <1>1, <3>1, RingStep
    <3>4. o <= gen[z] /\ (o = mux[z].stats \/ o <= closed[z])
      BY <2>3 DEF InFlightSharesStats, IsClosed
    <3>5. /\ mux[z] # NoZone => mux[z].stats = gen[z]
          /\ mux[z] = NoZone => mux[z].stats = 0
          /\ mux'[z] # NoZone => mux'[z].stats = gen'[z]
          /\ mux'[z] = NoZone => closed'[z] = gen'[z]
      BY <2>1, <3>1, SMTT(60) DEF RingInv, NoZone
    <3> HIDE DEF z, o
    <3>6. o <= gen'[z] /\ (o = mux'[z].stats \/ o <= closed'[z])
      BY <3>1, <3>2, <3>3, <3>4, <3>5, SMTT(60)
    <3> QED
      BY <3>6 DEF z, o
  <2>4. at' = at /\ object' = object /\ handling' = handling
    BY <1>1 DEF queryVars
  <2> QED
    BY <2>1, <2>2, <2>3, <2>4 DEF InFlightSharesStats, IsClosed
<1>2. ASSUME UNCHANGED vars PROVE TypeOK' /\ RingInv'
  BY <1>2, TypeStep, RingStep
<1>3. ASSUME NEW q \in Queries, NEW z \in Zones, Match(q, z) PROVE FlightInv'
  <2>1. TypeOK' /\ RingInv'
    BY <1>2, <1>3 DEF Match
  <2>2. UNCHANGED <<mux, gen, closed>>
    BY <1>3 DEF Match, vars, zoneVars
  <2>3. mux[z].stats <= gen[z]
    BY <1>3, SMTT(60) DEF Match, RingInv, TypeOK
  <2>4. ServingTypeOK'
    BY <1>3 DEF Match, ServingTypeOK, TypeOK
  <2> QED
    BY <1>3, <2>1, <2>2, <2>3, <2>4 DEF Match, ServingTypeOK, InFlightSharesStats, IsClosed
<1>4. ASSUME NEW q \in Queries, CountLabel(q) \/ CountClient(q) PROVE FlightInv'
  <2>1. TypeOK' /\ RingInv'
    BY <1>2, <1>4 DEF CountLabel, CountClient, CountIn
  <2>2. UNCHANGED <<mux, gen, closed, object, handling>>
    BY <1>4 DEF CountLabel, CountClient, CountIn, vars, zoneVars
  <2>3. at[q] # "idle" /\ \A p \in Queries : p # q => at'[p] = at[p]
    BY <1>4 DEF CountLabel, CountClient, CountIn, ServingTypeOK
  <2>4. panicked' \in BOOLEAN
    BY <1>4 DEF CountLabel, CountClient, CountIn, ServingTypeOK
  <2>5. at' \in [Queries -> {"idle", "label", "client", "answer"}]
    BY <1>4 DEF CountLabel, CountClient, CountIn, ServingTypeOK
  <2> QED
    BY <2>1, <2>2, <2>3, <2>4, <2>5 DEF ServingTypeOK, InFlightSharesStats, IsClosed
<1>5. ASSUME NEW q \in Queries, Answer(q) PROVE FlightInv'
  <2>1. TypeOK' /\ RingInv'
    BY <1>2, <1>5 DEF Answer
  <2>2. UNCHANGED <<mux, gen, closed>>
    BY <1>5 DEF Answer, vars, zoneVars
  <2>3. ServingTypeOK'
    BY <1>5 DEF Answer, ServingTypeOK, NoZone, ZoneObjects
  <2> QED
    BY <1>5, <2>1, <2>2, <2>3 DEF Answer, ServingTypeOK, InFlightSharesStats, IsClosed
<1>6. CASE UNCHANGED servingVars
  BY <1>1, <1>6 DEF servingVars
<1> HIDE DEF FlightInv
<1> QED
  BY <1>1, <1>3, <1>4, <1>5, <1>6 DEF ServingNext, Serve

(* However zones are reloaded and removed while queries are served, a      *)
(* query counts in the ring of the zone registered now or in one that was  *)
(* closed when its zone was removed: reloads orphan no ring.               *)
THEOREM ReloadsKeepRings == ServingSpec => [](ServingTypeOK /\ InFlightSharesStats)
<1>1. FlightInv /\ [ServingNext]_servingVars => FlightInv'
  BY FlightStep
<1>2. FlightInv => ServingTypeOK /\ InFlightSharesStats
  BY DEF FlightInv
<1> QED
  BY <1>1, <1>2, FlightInit, PTL DEF ServingSpec

-----------------------------------------------------------------------------
(* While no file is removed, every registered zone has its file, so every  *)
(* pass meets it and no zone is picked for removal.                        *)
NoRemovalInv ==
    /\ pc # "remove"
    /\ \A z \in Zones :
          /\ closed[z] = 0
          /\ mux[z] # NoZone => mux[z].stats >= 1
          /\ mux[z] # NoZone /\ z # Pgeodns =>
                /\ disk[z].content # None
                /\ pc \in {"files", "parse", "sweep"} => z \in todo \cup seenZones
    /\ pc = "parse" => cur \in seenZones
    /\ pc = "sweep" => todo = {}

(* While no file is removed, no step of a pass closes a zone.              *)
LEMMA NoRemovalStep ==
    ASSUME "remove" \notin EnvOps, TypeOK, RingInv, NoRemovalInv, [Next]_vars
    PROVE  NoRemovalInv'
<1> USE ReloadAssumption DEF TypeOK, RingInv, NoRemovalInv
<1>1. ASSUME NEW z \in Zones, NEW c \in Contents, NEW t, NEW op,
             Tick(op), PutFile(z, c, t)
      PROVE  NoRemovalInv'
  BY <1>1 DEF Tick, PutFile, Files, passVars, zoneVars
<1>2. ASSUME NEW z \in Zones, TouchFile(z) PROVE NoRemovalInv'
  BY <1>1, <1>2 DEF TouchFile, Present, Files
<1>3. ~ \E z \in Zones : RemoveFile(z)
  BY DEF RemoveFile, Tick
<1>4. ASSUME NEW z \in Zones, ChmodFile(z) PROVE NoRemovalInv'
  BY <1>4, SMTT(60) DEF ChmodFile, Tick, Files, passVars, zoneVars
<1>5. ASSUME NEW z \in Zones, NEW c \in Contents,
             WriteFile(z, c) \/ RevertFile(z, c)
      PROVE  NoRemovalInv'
  BY <1>1, <1>5 DEF WriteFile, RevertFile
<1>6. ASSUME NEW z \in Zones, NEW c \in Contents, NEW t \in 1 .. clock,
             BackdateFile(z, c, t)
      PROVE  NoRemovalInv'
  BY <1>1, <1>6 DEF BackdateFile
<1>7. CASE ReadDir
  BY <1>7 DEF ReadDir, Present, envVars, zoneVars
<1>8. ASSUME NEW z \in Zones, CheckFile(z) PROVE NoRemovalInv'
  BY <1>8 DEF CheckFile, envVars
<1>9. CASE ParseFile
  <2>1. CASE Accepts(ReadFile(cur))
    <3>1. /\ cur \in Zones
          /\ disk[cur].content # None
      BY <1>9, <2>1, SMTT(60) DEF ParseFile, Accepts, ReadFile
    <3>2. SetupMetrics(cur) \in Nat /\ SetupMetrics(cur) >= 1
      BY <3>1, SMTT(60) DEF SetupMetrics, ZoneObjects
    <3>3. /\ mux'[cur].stats = SetupMetrics(cur)
          /\ \A z \in Zones : z # cur => mux'[z] = mux[z]
      BY <1>9, <2>1, <3>1, SMTT(60) DEF ParseFile, addHandler
    <3>4. UNCHANGED <<disk, todo, seenZones, closed>> /\ pc' = "files"
      BY <1>9, <2>1 DEF ParseFile, addHandler, envVars
    <3>5. cur \in seenZones
      BY <1>9 DEF ParseFile
    <3>6. pc = "parse"
      BY <1>9 DEF ParseFile
    <3> QED
      BY <3>1, <3>2, <3>3, <3>4, <3>5, <3>6
  <2>2. CASE ~ Accepts(ReadFile(cur))
    BY <1>9, <2>2 DEF ParseFile, envVars, zoneVars
  <2> QED
    BY <2>1, <2>2
<1>10. CASE FilesDone
  BY <1>10 DEF FilesDone, envVars, zoneVars
<1>11. ~ \E z \in Zones : CloseZone(z)
  BY DEF CloseZone, Unseen
<1>12. ~ RemoveZone
  BY DEF RemoveZone
<1>13. CASE PassDone \/ ReadDirFails
  BY <1>13 DEF PassDone, ReadDirFails, envVars, zoneVars
<1>14. CASE UNCHANGED vars
  BY <1>14 DEF vars, envVars, passVars, zoneVars
<1> HIDE DEF TypeOK, RingInv, NoRemovalInv
<1> QED
  BY <1>2, <1>3, <1>4, <1>5, <1>6, <1>7, <1>8, <1>9, <1>10, <1>11, <1>12, <1>13, <1>14
     DEF Next, Environment, Reload

(* The whole of the argument: nothing is closed, and every query holds a   *)
(* zone object with a ring.                                                *)
SafeInv ==
    /\ FlightInv
    /\ NoRemovalInv
    /\ \A q \in Queries : at[q] # "idle" => object[q].stats >= 1
    /\ NeverPanics

(* As long as no zone file is removed, no edit of the files, valid or not, *)
(* racing with a pass or not, makes serving a query end the process.       *)
THEOREM ReloadsNeverPanic ==
    ASSUME "remove" \notin EnvOps
    PROVE  ServingSpec => []NeverPanics
<1>1. ServingInit => SafeInv
  <2> SUFFICES ASSUME ServingInit PROVE SafeInv
    OBVIOUS
  <2>1. NoRemovalInv
    BY ReloadAssumption, SMTT(60) DEF ServingInit, Init, NoRemovalInv, NoZone
  <2> QED
    BY <2>1, FlightInit DEF ServingInit, SafeInv, NeverPanics
<1>2. SafeInv /\ [ServingNext]_servingVars => SafeInv'
  <2> SUFFICES ASSUME SafeInv, [ServingNext]_servingVars PROVE SafeInv'
    OBVIOUS
  <2> USE DEF SafeInv, NeverPanics
  <2>1. FlightInv'
    BY FlightStep
  <2>2. TypeOK /\ RingInv /\ ServingTypeOK
    BY DEF FlightInv
  <2>3. [Next]_vars => NoRemovalInv'
    BY <2>2, NoRemovalStep
  <2>4. CASE Next /\ UNCHANGED queryVars
    BY <2>1, <2>3, <2>4 DEF queryVars
  <2>5. ASSUME NEW q \in Queries, NEW z \in Zones, Match(q, z) PROVE SafeInv'
    <3>1. NoRemovalInv'
      BY <2>3, <2>5 DEF Match
    <3>2. object'[q].stats >= 1
      BY <2>2, <2>5 DEF Match, NoRemovalInv, ServingTypeOK
    <3>3. \A p \in Queries : p # q => object'[p] = object[p] /\ at'[p] = at[p]
      BY <2>2, <2>5 DEF Match, ServingTypeOK
    <3> QED
      BY <2>1, <2>5, <3>1, <3>2, <3>3 DEF Match
  <2>6. ASSUME NEW q \in Queries, CountLabel(q) \/ CountClient(q) PROVE SafeInv'
    <3>1. NoRemovalInv'
      BY <2>3, <2>6 DEF CountLabel, CountClient, CountIn
    <3>2. at[q] # "idle" /\ handling[q] \in Zones /\ object[q].stats \in Nat
      BY <2>2, <2>6 DEF CountLabel, CountClient, CountIn, ServingTypeOK, ZoneObjects
    <3>3. ~ IsClosed(q)
      BY <3>2, SMTT(60) DEF IsClosed, NoRemovalInv
    <3>4. /\ panicked' = panicked
          /\ object' = object
          /\ \A p \in Queries : p # q => at'[p] = at[p]
      BY <2>2, <2>6, <3>3 DEF CountLabel, CountClient, CountIn, ServingTypeOK
    <3> QED
      BY <2>1, <3>1, <3>2, <3>4
  <2>7. ASSUME NEW q \in Queries, Answer(q) PROVE SafeInv'
    <3>1. NoRemovalInv'
      BY <2>3, <2>7 DEF Answer
    <3>2. at'[q] = "idle" /\ \A p \in Queries : p # q => object'[p] = object[p] /\ at'[p] = at[p]
      BY <2>2, <2>7 DEF Answer, ServingTypeOK
    <3> QED
      BY <2>1, <2>7, <3>1, <3>2 DEF Answer
  <2>8. CASE UNCHANGED servingVars
    BY <2>1, <2>3, <2>8 DEF servingVars, queryVars
  <2> HIDE DEF SafeInv
  <2> QED
    BY <2>4, <2>5, <2>6, <2>7, <2>8 DEF ServingNext, Serve
<1>3. SafeInv => NeverPanics
  BY DEF SafeInv
<1> QED
  BY <1>1, <1>2, <1>3, PTL DEF ServingSpec

(* What makes RegisteredRingOpen inductive: the bookkeeping of the rings.  *)
OpenInv == TypeOK /\ RingInv /\ RegisteredRingOpen

(* No step of the manager or of the environment breaks it.                 *)
LEMMA OpenStep == OpenInv /\ [Next]_vars => OpenInv'
<1> SUFFICES ASSUME OpenInv, [Next]_vars PROVE RegisteredRingOpen'
  BY TypeStep, RingStep DEF OpenInv
<1> USE ReloadAssumption DEF OpenInv, TypeOK, RingInv, RegisteredRingOpen
<1>1. RingInv'
  BY RingStep
<1>2. CASE UNCHANGED <<pc, cur, mux, closed>>
  BY <1>2
<1>3. CASE Environment
  BY <1>2, <1>3 DEF Environment, TouchFile, RemoveFile, ChmodFile, WriteFile, RevertFile,
                    BackdateFile, Tick, passVars, zoneVars
<1>4. CASE ReadDir
  BY <1>4 DEF ReadDir, zoneVars
<1>5. ASSUME NEW z \in Zones, CheckFile(z) PROVE RegisteredRingOpen'
  BY <1>5 DEF CheckFile
<1>6. CASE ParseFile
  <2>1. CASE Accepts(ReadFile(cur))
    <3> DEFINE zone == [content |-> ReadFile(cur), stats |-> SetupMetrics(cur)]
    <3>1. /\ cur \in Zones
          /\ mux' = [mux EXCEPT ![cur] = zone]
          /\ closed' = closed
      BY <1>6, <2>1 DEF ParseFile, addHandler
    <3>2. zone.stats > closed[cur]
      <4>1. CASE mux[cur] # NoZone
        <5>1. zone.stats = mux[cur].stats
          BY <3>1, <4>1 DEF SetupMetrics
        <5>2. ~ (mux[cur].stats <= closed[cur])
          BY <1>6, <3>1, <4>1 DEF ParseFile
        <5>3. mux[cur].stats \in Nat /\ closed[cur] \in Nat
          BY <3>1 DEF ZoneObjects
        <5> QED
          BY <5>1, <5>2, <5>3, SMTT(60)
      <4>2. CASE mux[cur] = NoZone
        <5>1. zone.stats = gen[cur] + 1
          BY <3>1, <4>2 DEF SetupMetrics
        <5>2. closed[cur] <= gen[cur] /\ gen[cur] \in Nat /\ closed[cur] \in Nat
          BY <3>1
        <5> QED
          BY ONLY <5>1, <5>2, SMTT(60)
      <4> QED
        BY <4>1, <4>2
    <3>3. zone.stats \in Nat /\ closed[cur] \in Nat
      BY <3>1, SMTT(60) DEF SetupMetrics, ZoneObjects
    <3> HIDE DEF zone
    <3>4. ASSUME NEW z \in Zones PROVE ~ (mux'[z] # NoZone /\ mux'[z].stats <= closed'[z])
      <4>1. CASE z = cur
        BY <3>1, <3>2, <3>3, <4>1, SMTT(60)
      <4>2. CASE z # cur
        BY <1>6, <3>1, <4>2 DEF ParseFile
      <4> QED
        BY <4>1, <4>2
    <3> QED
      BY <3>4
  <2>2. CASE ~ Accepts(ReadFile(cur))
    BY <1>6, <2>2 DEF ParseFile, zoneVars
  <2> QED
    BY <2>1, <2>2
<1>7. CASE FilesDone
  BY <1>7 DEF FilesDone, zoneVars
<1>8. ASSUME NEW z \in Zones, CloseZone(z) PROVE RegisteredRingOpen'
  BY <1>8 DEF CloseZone, Unseen
<1>9. CASE RemoveZone
  BY <1>9 DEF RemoveZone, removeHandler
<1>10. CASE PassDone \/ ReadDirFails
  BY <1>10 DEF PassDone, ReadDirFails, zoneVars
<1>11. CASE UNCHANGED vars
  BY <1>2, <1>11 DEF vars, passVars, zoneVars
<1> HIDE DEF OpenInv, TypeOK, RingInv, RegisteredRingOpen
<1> QED
  BY <1>3, <1>4, <1>5, <1>6, <1>7, <1>8, <1>9, <1>10, <1>11 DEF Next, Reload

(* A registered zone's ring is open outside the removal of that zone, for  *)
(* every editing of the files: addHandler() hands rings on, and only       *)
(* Close() in the removal loop of reload() closes them.                    *)
THEOREM RegisteredRingsAreOpen == Spec => []RegisteredRingOpen
<1>1. Init => OpenInv
  <2> SUFFICES ASSUME Init PROVE OpenInv
    OBVIOUS
  <2>1. TypeOK
    BY TypeInit
  <2>2. RingInv /\ RegisteredRingOpen
    BY ReloadAssumption, SMTT(60) DEF Init, RingInv, RegisteredRingOpen, NoZone
  <2> QED
    BY <2>1, <2>2 DEF OpenInv
<1>2. OpenInv => RegisteredRingOpen
  BY DEF OpenInv
<1> QED
  BY <1>1, <1>2, OpenStep, PTL DEF Spec

(* Queries leave the zone manager alone: with them it does what it does    *)
(* without.                                                                *)
THEOREM ServingImplementsReload == ServingSpec => Spec
<1>1. ServingInit => Init
  BY DEF ServingInit
<1>2. [ServingNext]_servingVars => [Next]_vars
  BY DEF ServingNext, servingVars, Serve, Match, CountLabel, CountClient, CountIn, Answer
<1> QED
  BY <1>1, <1>2, PTL DEF ServingSpec, Spec

(* While queries are served, zones come into service, are replaced and are *)
(* dropped as the zone manager by itself guarantees.                       *)
THEOREM ServingKeepsZones ==
    ServingSpec => OnlyMissingFilesDrop /\ [](ServedWasOnDisk /\ RegisteredRingOpen)
BY ServingImplementsReload, DropsOnlyMissing, ServesWhatWasOnDisk, RegisteredRingsAreOpen, PTL

=============================================================================
