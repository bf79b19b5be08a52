----------------------------- MODULE ZoneReload -----------------------------
(***************************************************************************)
(* The zone manager (zones/muxmanager.go): a goroutine that polls the      *)
(* directory of zone files and keeps the zones registered with the DNS     *)
(* server in step with it, while whoever edits the files goes on editing.  *)
(*                                                                         *)
(* A pass of reload() reads the directory once, then handles the files one *)
(* by one.  Each file is read twice, first for its hash and then to be     *)
(* parsed, so the directory may change between any two of those three      *)
(* reads; these are the steps of the model.  Everything the goroutine does *)
(* between two reads touches only its own state and is part of the step.   *)
(* The order of the files within a pass is left open: files are handled    *)
(* independently of each other.                                            *)
(*                                                                         *)
(* A zone and its file share one name.  The hash of a content is the       *)
(* content itself (SHA-256 is taken to be injective); None is the empty    *)
(* hash of a file that could not be read, and the content of a missing one.*)
(***************************************************************************)
EXTENDS Naturals

CONSTANTS
    Zones,      \* zone names
    Pgeodns,    \* the built-in zone, which exists without a file
    Contents,   \* what a zone file may contain
    Valid,      \* the contents ReadZoneFile accepts
    Builtin,    \* the content of the built-in zone
    None,
    EnvOps,     \* what is done to the files while the server runs
    MaxTime     \* bound on the number of such operations

AllEnvOps == {"write", "touch", "remove", "revert", "backdate", "chmod"}

\* Every change of a file gives it a content it has not had before, or the
\* one it has, and a later modification time.
AtomicUpdates == {"write", "touch", "remove"}

ASSUME ReloadAssumption ==
    /\ Pgeodns \in Zones
    /\ None \notin Zones
    /\ Valid \subseteq Contents
    /\ None \notin Contents \cup {Builtin}
    /\ Builtin \notin Contents
    /\ EnvOps \subseteq AllEnvOps
    /\ MaxTime \in Nat

VARIABLES
    disk,       \* the file of each zone
    clock,      \* the file system's time
    used,       \* history: the contents each file has had
    gone,       \* history: files missing at some moment of the current pass
    pc,         \* where the reload goroutine is
    up,         \* NewMuxManager has returned, the server listens
    loaded,     \* history: a pass has ended; "failed" before the first one
                \* if the directory could not be listed
    dir,        \* modification times as ReadDir returned them
    todo,       \* directory entries the pass has yet to handle
    seenZones,
    cur,        \* the zone being parsed or removed
    sha256,     \* the hash just read, kept until the file is parsed
    lastRead,   \* mm.lastRead
    zonelist,   \* mm.zonelist
    mux,        \* the handlers registered with the server, by zone
    gen,        \* number of statistics rings created for each zone
    closed      \* number of those that have been closed

envVars == <<disk, clock, used>>
passVars == <<pc, up, loaded, dir, todo, seenZones, cur, sha256>>
zoneVars == <<lastRead, zonelist, mux, gen, closed>>
vars == <<envVars, gone, passVars, zoneVars>>

Files == [content: Contents \cup {None}, mtime: Nat, readable: BOOLEAN]
ReadRecords == [known: BOOLEAN, time: Nat, hash: Contents \cup {None}]
ZoneObjects == [content: Contents \cup {Builtin, None}, stats: Nat]

NoRecord == [known |-> FALSE, time |-> 0, hash |-> None]
NoZone == [content |-> None, stats |-> 0]

Present(z) == disk[z].content # None

\* setupPgeodnsZone has run and the first reload() is about to: the directory
\* holds whatever was there when the program started (time 0).
Init ==
    /\ \E start \in [Zones -> Contents \cup {None}] :
          /\ disk = [z \in Zones |->
                       [content |-> start[z], mtime |-> 0, readable |-> TRUE]]
          /\ used = [z \in Zones |-> {start[z]} \ {None}]
    /\ clock = 0
    /\ gone = {}
    /\ pc = "sleep"
    /\ up = FALSE
    /\ loaded = "no"
    /\ dir = [z \in Zones |-> 0]
    /\ todo = {}
    /\ seenZones = {}
    /\ cur = None
    /\ sha256 = None
    /\ lastRead = [z \in Zones |-> NoRecord]
    /\ zonelist = [z \in Zones |->
                     IF z = Pgeodns THEN [content |-> Builtin, stats |-> 1] ELSE NoZone]
    /\ mux = zonelist
    /\ gen = [z \in Zones |-> IF z = Pgeodns THEN 1 ELSE 0]
    /\ closed = [z \in Zones |-> 0]

-----------------------------------------------------------------------------
(* The environment: files are replaced atomically, as the comment in       *)
(* reload() presumes.  Every operation takes a tick of the clock.          *)

Tick(op) ==
    /\ op \in EnvOps
    /\ clock' = clock + 1
    /\ UNCHANGED <<passVars, zoneVars>>

PutFile(z, c, t) ==
    /\ disk' = [disk EXCEPT ![z] = [content |-> c, mtime |-> t, readable |-> TRUE]]
    /\ used' = [used EXCEPT ![z] = @ \cup {c}]
    /\ UNCHANGED gone

\* A new content, with a newer modification time.
WriteFile(z, c) ==
    /\ Tick("write")
    /\ c \notin used[z]
    /\ PutFile(z, c, clock')

\* The same content, with a newer modification time.
TouchFile(z) ==
    /\ Tick("touch")
    /\ Present(z)
    /\ PutFile(z, disk[z].content, clock')

\* A content the file has had before, with a newer modification time.
RevertFile(z, c) ==
    /\ Tick("revert")
    /\ c \in used[z]
    /\ PutFile(z, c, clock')

\* A new content, prepared earlier and moved into place with its old time.
BackdateFile(z, c, t) ==
    /\ Tick("backdate")
    /\ c \notin used[z]
    /\ PutFile(z, c, t)

RemoveFile(z) ==
    /\ Tick("remove")
    /\ Present(z)
    /\ disk' = [disk EXCEPT ![z].content = None]
    /\ gone' = gone \cup {z}
    /\ UNCHANGED used

\* Permissions change; the modification time does not.
ChmodFile(z) ==
    /\ Tick("chmod")
    /\ Present(z)
    /\ \E r \in BOOLEAN \ {disk[z].readable} :
          disk' = [disk EXCEPT ![z].readable = r]
    /\ UNCHANGED <<used, gone>>

Environment ==
    /\ clock < MaxTime
    /\ \E z \in Zones :
          \/ TouchFile(z)
          \/ RemoveFile(z)
          \/ ChmodFile(z)
          \/ \E c \in Contents :
                \/ WriteFile(z, c)
                \/ RevertFile(z, c)
                \/ \E t \in 1 .. clock : BackdateFile(z, c, t)

-----------------------------------------------------------------------------
(* What an open of the file reads now: None when it cannot be opened.      *)
ReadFile(z) == IF disk[z].readable THEN disk[z].content ELSE None

\* ReadDir: the entries and their modification times.
ReadDir ==
    /\ pc = "sleep"
    /\ pc' = "files"
    /\ todo' = {z \in Zones : Present(z)}
    /\ dir' = [z \in Zones |-> disk[z].mtime]
    /\ seenZones' = {}
    /\ gone' = {z \in Zones : ~ Present(z)}
    /\ UNCHANGED <<envVars, up, loaded, cur, sha256, zoneVars>>

\* The directory cannot be listed: reload() returns.  NewMuxManager returns the
\* error, and main() goes on all the same.
ReadDirFails ==
    /\ pc = "sleep"
    /\ up' = TRUE
    /\ loaded' = IF loaded = "no" THEN "failed" ELSE loaded
    /\ UNCHANGED <<envVars, gone, pc, dir, todo, seenZones, cur, sha256, zoneVars>>

NeedsReadIfNew(z) == ~ lastRead[z].known

NeedsRead(z) == ~ lastRead[z].known \/ dir[z] > lastRead[z].time

\* The time is recorded before the file is read; the hash only after a
\* successful parse.  A new record has the empty hash.
RecordTime(z) == [known |-> TRUE, time |-> dir[z], hash |-> lastRead[z].hash]

\* One directory entry: decide by its time, then by its hash, whether to parse.
CheckFile(z) ==
    /\ pc = "files"
    /\ z \in todo
    /\ todo' = todo \ {z}
    /\ seenZones' = seenZones \cup {z}
    /\ IF NeedsRead(z)
       THEN /\ lastRead' = [lastRead EXCEPT ![z] = RecordTime(z)]
            /\ IF lastRead[z].hash = ReadFile(z)
               THEN UNCHANGED <<pc, cur, sha256>>
               ELSE /\ pc' = "parse"
                    /\ cur' = z
                    /\ sha256' = ReadFile(z)
       ELSE UNCHANGED <<lastRead, pc, cur, sha256>>
    /\ UNCHANGED <<envVars, gone, up, loaded, dir, zonelist, mux, gen, closed>>

FreshMetrics(z) == gen[z] + 1

\* The ring of statistics a zone gets: that of the zone it replaces, if any.
SetupMetrics(z) ==
    IF zonelist[z] # NoZone THEN zonelist[z].stats ELSE gen[z] + 1

\* The handler of a zone is registered only the first time.
addHandlerOnce(z, c) ==
    LET zone == [content |-> c, stats |-> SetupMetrics(z)]
    IN  /\ zonelist' = [zonelist EXCEPT ![z] = zone]
        /\ mux' = IF zonelist[z] = NoZone THEN [mux EXCEPT ![z] = zone] ELSE mux
        /\ gen' = [gen EXCEPT ![z] = IF zone.stats > @ THEN zone.stats ELSE @]
        /\ UNCHANGED closed

\* The zone that is replaced is closed.
addHandlerClosingOld(z, c) ==
    LET zone == [content |-> c, stats |-> SetupMetrics(z)]
    IN  /\ zonelist' = [zonelist EXCEPT ![z] = zone]
        /\ mux' = [mux EXCEPT ![z] = zone]
        /\ gen' = [gen EXCEPT ![z] = IF zone.stats > @ THEN zone.stats ELSE @]
        /\ closed' = [closed EXCEPT ![z] = zonelist[z].stats]

addHandler(z, c) ==
    LET zone == [content |-> c, stats |-> SetupMetrics(z)]
    IN  /\ zonelist' = [zonelist EXCEPT ![z] = zone]
        /\ mux' = [mux EXCEPT ![z] = zone]
        /\ gen' = [gen EXCEPT ![z] = IF zone.stats > @ THEN zone.stats ELSE @]
        /\ UNCHANGED closed

AcceptAny(c) == c # None

\* ReadZoneFile returned no error.
Accepts(c) == c \in Valid

\* An error ends the whole pass.
ParseFileOrGiveUp ==
    /\ pc = "parse"
    /\ cur' = None
    /\ sha256' = None
    /\ IF Accepts(ReadFile(cur))
       THEN /\ pc' = "files"
            /\ lastRead' = [lastRead EXCEPT ![cur].hash = sha256]
            /\ addHandler(cur, ReadFile(cur))
       ELSE pc' = "sweep" /\ UNCHANGED zoneVars
    /\ UNCHANGED <<envVars, gone, up, loaded, dir, todo, seenZones>>

\* The file is read again, now to be parsed.
ParseFile ==
    /\ pc = "parse"
    /\ pc' = "files"
    /\ cur' = None
    /\ sha256' = None
    /\ IF Accepts(ReadFile(cur))
       THEN /\ lastRead' = [lastRead EXCEPT ![cur].hash = sha256]
            /\ addHandler(cur, ReadFile(cur))
       ELSE UNCHANGED zoneVars
    /\ UNCHANGED <<envVars, gone, up, loaded, dir, todo, seenZones>>

FilesDone ==
    /\ pc = "files"
    /\ todo = {}
    /\ pc' = "sweep"
    /\ UNCHANGED <<envVars, gone, up, loaded, dir, todo, seenZones, cur, sha256, zoneVars>>

UnseenOrUnread(z) ==
    /\ zonelist[z] # NoZone
    /\ z # Pgeodns
    /\ z \notin seenZones \/ disk[z].content \notin Valid

\* The zones the second loop of reload() removes.
Unseen(z) ==
    /\ zonelist[z] # NoZone
    /\ z # Pgeodns
    /\ z \notin seenZones

\* zone.Close(): its ring of statistics is emptied.
CloseZone(z) ==
    /\ pc = "sweep"
    /\ Unseen(z)
    /\ closed' = [closed EXCEPT ![z] = zonelist[z].stats]
    /\ pc' = "remove"
    /\ cur' = z
    /\ UNCHANGED <<envVars, gone, up, loaded, dir, todo, seenZones, sha256,
                   lastRead, zonelist, mux, gen>>

removeHandler(z) ==
    /\ lastRead' = [lastRead EXCEPT ![z] = NoRecord]
    /\ zonelist' = [zonelist EXCEPT ![z] = NoZone]
    /\ mux' = [mux EXCEPT ![z] = NoZone]

RemoveZone ==
    /\ pc = "remove"
    /\ removeHandler(cur)
    /\ pc' = "sweep"
    /\ cur' = None
    /\ UNCHANGED <<envVars, gone, up, loaded, dir, todo, seenZones, sha256, gen, closed>>

\* The pass is over; after the first one the server starts listening.
PassDone ==
    /\ pc = "sweep"
    /\ \A z \in Zones : ~ Unseen(z)
    /\ pc' = "sleep"
    /\ up' = TRUE
    /\ loaded' = "yes"
    /\ UNCHANGED <<envVars, gone, dir, todo, seenZones, cur, sha256, zoneVars>>

Reload ==
    \/ ReadDir
    \/ \E z \in Zones : CheckFile(z)
    \/ ParseFile
    \/ FilesDone
    \/ \E z \in Zones : CloseZone(z)
    \/ RemoveZone
    \/ PassDone

Next == Environment \/ Reload \/ ReadDirFails

Spec == Init /\ [][Next]_vars

\* Run() loops for as long as the process lives, and does not fail to list the
\* directory for ever.
FairSpec == Spec /\ WF_vars(Reload)

-----------------------------------------------------------------------------
TypeOK ==
    /\ disk \in [Zones -> Files]
    /\ clock \in Nat
    /\ used \in [Zones -> SUBSET Contents]
    /\ gone \in SUBSET Zones
    /\ pc \in {"sleep", "files", "parse", "sweep", "remove"}
    /\ up \in BOOLEAN
    /\ loaded \in {"no", "failed", "yes"}
    /\ dir \in [Zones -> Nat]
    /\ todo \in SUBSET Zones
    /\ seenZones \in SUBSET Zones
    /\ cur \in Zones \cup {None}
    /\ pc \in {"parse", "remove"} => cur \in Zones
    /\ sha256 \in Contents \cup {None}
    /\ lastRead \in [Zones -> ReadRecords]
    /\ zonelist \in [Zones -> ZoneObjects]
    /\ mux \in [Zones -> ZoneObjects]
    /\ gen \in [Zones -> Nat]
    /\ closed \in [Zones -> Nat]

(* A file reload() would not read again, because its time is not after the *)
(* recorded one, and which is not just being read, is the one being served *)
(* (if it is valid).  This is what the comment on the hash check in        *)
(* reload() argues for: an update that races with the two reads of a file  *)
(* is noticed in a later pass.                                             *)
RecordsCurrent ==
    \A z \in Zones :
        /\ disk[z].content \in Valid
        /\ lastRead[z].known
        /\ disk[z].mtime <= lastRead[z].time
        /\ ~ (pc = "parse" /\ cur = z)
        => mux[z].content = disk[z].content

(* A zone is deregistered only if its file has been missing at some moment *)
(* of the current pass: an invalid, unreadable or racing update of a file  *)
(* keeps the previous configuration (README: "the previous configuration   *)
(* for that zone will be kept").                                           *)
OnlyMissingFilesDrop ==
    [][\A z \in Zones :
          mux[z] # NoZone /\ mux'[z] = NoZone => z \in gone]_vars

(* A new configuration comes into service only if it is valid and the file *)
(* has had it: what is served is never a rejected or a made-up content.    *)
ServedWasOnDisk ==
    \A z \in Zones :
        mux[z] # NoZone =>
            \/ mux[z].content \in Valid \cap used[z]
            \/ z = Pgeodns /\ mux[z].content = Builtin

(* The statistics ring of a registered zone is open, except between the    *)
(* two steps of the removal of that zone: reloading a zone hands its rings *)
(* on to the new object and closes neither, however often it happens.      *)
RegisteredRingOpen ==
    \A z \in Zones :
        mux[z] # NoZone /\ mux[z].stats <= closed[z] => pc = "remove" /\ cur = z

(* A valid file that was there when the program started is served from the *)
(* end of the first pass until the file changes, and the server listens    *)
(* only then: NewMuxManager runs a whole pass before it returns.  The      *)
(* exception is a directory that cannot be listed the first time: main()   *)
(* only logs the error, and the server listens without the zones until a   *)
(* later pass.                                                             *)
ServedFromStart ==
    /\ up => loaded # "no"
    /\ loaded = "yes" =>
          \A z \in Zones :
              disk[z].mtime = 0 /\ disk[z].content \in Valid
              => mux[z].content = disk[z].content

InSync(z) ==
    /\ ReadFile(z) \in Valid => mux[z].content = disk[z].content
    /\ ~ Present(z) /\ z # Pgeodns => mux[z] = NoZone

(* Once the files stop changing, and if the directory can be listed in the *)
(* end, every valid file that can be read ends up served and every zone    *)
(* without a file deregistered (README: "The zone configuration files are  *)
(* automatically reloaded when they change"; CHANGES: "De-configure zones  *)
(* when the .json file is removed").                                       *)
Converges == <>[](\A z \in Zones : InSync(z))

=============================================================================
