---- MODULE UnpackSession ----
(***************************************************************************)
(* One target process after another running Fupk::unpackAll over the dex   *)
(* files the app has loaded (Fupk.cpp, core_Fupk.cpp, Cookie.cpp,          *)
(* RWGuard.cpp), with the table of cookies persisted between them.         *)
(*                                                                         *)
(* The dump thread runs beside the app's own threads, which keep loading   *)
(* dex files into the VM's table while it is scanned without a lock.  The  *)
(* process can die at every step; the user can delete the dump directory   *)
(* at every step (the DEL button), and starts the app again with UPK.      *)
(***************************************************************************)
EXTENDS UnpackInfo

CONSTANTS
  Dex,             \* dex files the app may load
  NoDex,           \* an empty slot of the VM's table
  KeyOf,           \* the (name, signature) a dex file shows
  Ignored,         \* dex files whose name contains a member of gIgnoreCasee
  Resident,        \* dex files always loaded before the thread has slept
  Crashing,        \* dex files whose rebuilding always kills the process
  NumSlots,        \* gDvm.userDexFiles->tableSize
  LateLoads,       \* may the app load a dex file after the thread has slept?
  LoaderOutcomes,  \* can getSystemLoader find the loader (TRUE), fail (FALSE)?
  MayTear,         \* is the configuration longer than one write?
  MaxFaults        \* bound: deaths in the middle of a run, and deletions

ASSUME DexAssumption ==
  /\ NoDex \notin Dex
  /\ KeyOf \in [Dex -> Keys]
  /\ Ignored \subseteq Dex
  /\ Resident \subseteq Dex
  /\ Crashing \subseteq Dex

ASSUME BoundAssumption ==
  /\ NumSlots \in Nat
  /\ LateLoads \in BOOLEAN
  /\ MayTear \in BOOLEAN
  /\ LoaderOutcomes \in (SUBSET BOOLEAN) \ {{}}
  /\ MaxFaults \in Nat

NoSnapshot == {NoDex}   \* the RWGuard singleton is not constructed yet

VARIABLES
  pc,      \* where the dump thread is; "off": the process does not run
  resume,  \* where saveConfigFile returns to
  table,   \* the slots of gDvm.userDexFiles, written by the app's threads
  loader,  \* did this process find its class loader (appLoader)?
  guard,   \* the dex files whose memory RWGuard's snapshot of the maps covers
  slot,    \* the loop variable i
  cur,     \* dumpIndex
  dex,     \* dvmDex, what is being dumped
  mem,     \* mInfo.mConfig
  disk,    \* what information.json parses to
  dir,     \* does the directory .fupk3 exist?
  dumps,   \* the dump files in it
  faults   \* faults so far

threadVars == <<pc, resume, slot, cur, dex, mem>>
appVars    == <<table, loader, guard>>
diskVars   == <<disk, dir, dumps>>
vars       == <<threadVars, appVars, diskVars, faults>>

Slots == 0 .. (NumSlots - 1)

Points == {"off", "sleep", "load", "add", "refresh", "scan", "rebuild",
           "raw", "fix", "fixed", "trunc", "write", "done"}

\* How far a dump file got: opened and not written in full; the rebuilt dex;
\* the rebuilt dex with its instructions restored; nothing, after a rebuild
\* that gave up.
Stages == {"partial", "raw", "fixed", "empty"}

TypeOK ==
  /\ pc \in Points
  /\ resume \in {"refresh", "rebuild", "scan"}
  /\ table \in [Slots -> Dex \cup {NoDex}]
  /\ loader \in BOOLEAN
  /\ guard \in (SUBSET Dex) \cup {NoSnapshot}
  /\ slot \in 0 .. NumSlots
  /\ cur \in Int
  /\ dex \in Dex \cup {NoDex}
  /\ mem \in Table
  /\ disk \in Table
  /\ dir \in BOOLEAN
  /\ dumps \subseteq [id : Int, dex : Dex, stage : Stages]
  /\ faults \in 0 .. MaxFaults

Loaded == {table[s] : s \in Slots} \ {NoDex}

Init ==
  /\ pc = "off"
  /\ resume = "refresh"
  /\ table = [s \in Slots |-> NoDex]
  /\ loader = FALSE
  /\ guard = NoSnapshot
  /\ slot = 0
  /\ cur = 0
  /\ dex = NoDex
  /\ mem = <<>>
  /\ disk = <<>>
  /\ dir = FALSE
  /\ dumps = {}
  /\ faults = 0

----------------------------------------------------------------------------
(* The app's process *)

\* handleBindApplication starts the thread, which first sleeps 10 seconds.
Launch ==
  /\ pc = "off"
  /\ pc' = "sleep"
  /\ UNCHANGED <<resume, slot, cur, dex, mem, appVars, diskVars, faults>>

\* A thread of the app opens a dex file.  The new object may or may not lie
\* in memory that RWGuard's snapshot has seen mapped.
AppLoads(d, s, covered) ==
  /\ pc \notin {"off", "done"}
  /\ pc = "sleep" \/ LateLoads
  /\ d \notin Loaded
  /\ table[s] = NoDex
  /\ table' = [table EXCEPT ![s] = d]
  /\ guard' = IF guard # NoSnapshot /\ covered THEN guard \cup {d} ELSE guard
  /\ UNCHANGED <<threadVars, loader, diskVars, faults>>

\* Everything in memory is gone; a configuration file that was being written
\* keeps what had reached it, which is nothing when one write holds it all.
ProcessEnds ==
  /\ pc' = "off"
  /\ resume' = "refresh"
  /\ table' = [s \in Slots |-> NoDex]
  /\ loader' = FALSE
  /\ guard' = NoSnapshot
  /\ slot' = 0
  /\ cur' = 0
  /\ dex' = NoDex
  /\ mem' = <<>>
  /\ disk' \in {disk} \cup (IF pc = "write" /\ dir /\ MayTear THEN CutTable(mem) ELSE {})
  /\ UNCHANGED <<dir, dumps>>

\* A crash, or the user's force-stop, in the middle of a run.
Die ==
  /\ pc \notin {"off", "done"}
  /\ faults < MaxFaults
  /\ faults' = faults + 1
  /\ ProcessEnds

\* The protector of this dex file kills the process when it is touched.
DieRebuilding ==
  /\ pc = "rebuild"
  /\ dex \in Crashing
  /\ ProcessEnds
  /\ UNCHANGED faults

\* myfopen gives NULL in a directory that is gone, and myfwrite uses it.
DieWithoutDirectory ==
  /\ pc \in {"rebuild", "fix"}
  /\ ~dir
  /\ ProcessEnds
  /\ UNCHANGED faults

\* The app is stopped some time after its dump has ended.
Exit ==
  /\ pc = "done"
  /\ ProcessEnds
  /\ UNCHANGED faults

\* The DEL button: rm -rf .fupk3
Delete ==
  /\ dir
  /\ faults < MaxFaults
  /\ faults' = faults + 1
  /\ dir' = FALSE
  /\ disk' = <<>>
  /\ dumps' = {}
  /\ UNCHANGED <<threadVars, appVars>>

----------------------------------------------------------------------------
(* Looking at a slot *)

\* The snapshot the first look at an object uses: it is taken then, if the
\* singleton does not exist yet.
Snapshot == IF guard = NoSnapshot THEN Loaded ELSE guard

\* Cookie::getCookieAt finds a dex file in slot s that is not to be ignored.
Sees(s) ==
  /\ table[s] # NoDex
  /\ table[s] \in Snapshot
  /\ table[s] \notin Ignored

LookAt(s) == guard' = IF table[s] = NoDex THEN guard ELSE Snapshot

----------------------------------------------------------------------------
(* Fupk::restoreLastStatus *)

\* unpackNow looks for the loader; core_Fupk::unpackAll makes the directory;
\* Cookie::print looks at every slot.
Begin ==
  /\ pc = "sleep"
  /\ Resident \subseteq Loaded
  /\ loader' \in LoaderOutcomes
  /\ dir' = TRUE
  /\ guard' = IF Loaded = {} THEN NoSnapshot ELSE Loaded
  /\ pc' = "load"
  /\ UNCHANGED <<resume, slot, cur, dex, mem, table, disk, dumps, faults>>

Load ==
  /\ pc = "load"
  /\ mem' = disk
  /\ slot' = 0
  /\ pc' = "add"
  /\ UNCHANGED <<resume, cur, dex, appVars, diskVars, faults>>

Add ==
  /\ pc = "add"
  /\ slot < NumSlots
  /\ mem' = IF Sees(slot) THEN AddCookie(mem, KeyOf[table[slot]]) ELSE mem
  /\ LookAt(slot)
  /\ slot' = slot + 1
  /\ UNCHANGED <<pc, resume, cur, dex, table, loader, diskVars, faults>>

Turn ==
  /\ pc = "add"
  /\ slot = NumSlots
  /\ mem' = TurnStatus(mem)
  /\ pc' = "trunc"
  /\ resume' = "refresh"
  /\ UNCHANGED <<slot, cur, dex, appVars, diskVars, faults>>

----------------------------------------------------------------------------
(* UnpackInfo::saveConfigFile: the stream is opened with trunc, the whole  *)
(* table is then written.  A directory that is gone makes it return false, *)
(* which nobody looks at; a file deleted after it was opened takes the     *)
(* text with it.                                                           *)

Resume == pc' = resume /\ resume' = "refresh"

SaveTrunc ==
  /\ pc = "trunc"
  /\ disk' = <<>>
  /\ IF dir THEN pc' = "write" /\ UNCHANGED resume ELSE Resume
  /\ UNCHANGED <<slot, cur, dex, mem, appVars, dir, dumps, faults>>

SaveWrite ==
  /\ pc = "write"
  /\ disk' = IF dir THEN mem ELSE disk
  /\ Resume
  /\ UNCHANGED <<slot, cur, dex, mem, appVars, dir, dumps, faults>>

----------------------------------------------------------------------------
(* The loop of Fupk::unpackAll *)

\* Mutant of Refresh: the loop goes on from where the last one stopped.
RefreshInPlace ==
  /\ pc = "refresh"
  /\ guard' = Loaded
  /\ pc' = "scan"
  /\ UNCHANGED <<resume, slot, cur, dex, mem, table, loader, diskVars, faults>>

Refresh ==
  /\ pc = "refresh"
  /\ guard' = Loaded
  /\ slot' = 0
  /\ pc' = "scan"
  /\ UNCHANGED <<resume, cur, dex, mem, table, loader, diskVars, faults>>

\* Nothing to be seen in the slot, or a dex file that does not wait.
Skip ==
  /\ pc = "scan"
  /\ slot < NumSlots
  /\ Sees(slot) =>
       LET idx == CookieIndex(mem, KeyOf[table[slot]])
       IN  idx # -1 /\ CookieStatus(mem, idx) # "Wait"
  /\ LookAt(slot)
  /\ slot' = slot + 1
  /\ UNCHANGED <<pc, resume, cur, dex, mem, table, loader, diskVars, faults>>

\* Mutant of Mark: the mark is not saved before the dex file is touched.
MarkUnsaved ==
  /\ pc = "scan"
  /\ slot < NumSlots
  /\ Sees(slot)
  /\ LET idx == CookieIndex(mem, KeyOf[table[slot]])
     IN  /\ idx # -1
         /\ CookieStatus(mem, idx) = "Wait"
         /\ cur' = idx
         /\ mem' = SetCookieStatus(mem, idx, "Unpack")
  /\ dex' = table[slot]
  /\ LookAt(slot)
  /\ pc' = "rebuild"
  /\ UNCHANGED <<resume, slot, table, loader, diskVars, faults>>

\* A dex file that waits: it is marked before it is touched.
Mark ==
  /\ pc = "scan"
  /\ slot < NumSlots
  /\ Sees(slot)
  /\ LET idx == CookieIndex(mem, KeyOf[table[slot]])
     IN  /\ idx # -1
         /\ CookieStatus(mem, idx) = "Wait"
         /\ cur' = idx
         /\ mem' = SetCookieStatus(mem, idx, "Unpack")
  /\ dex' = table[slot]
  /\ LookAt(slot)
  /\ pc' = "trunc"
  /\ resume' = "rebuild"
  /\ UNCHANGED <<slot, table, loader, diskVars, faults>>

\* Mutant of TakeUnrecorded: the slot itself is taken for an index.
TakeUnrecordedAsIndex ==
  /\ pc = "scan"
  /\ slot < NumSlots
  /\ Sees(slot)
  /\ CookieIndex(mem, KeyOf[table[slot]]) = -1
  /\ cur' = slot
  /\ dex' = table[slot]
  /\ LookAt(slot)
  /\ pc' = "rebuild"
  /\ UNCHANGED <<resume, slot, mem, table, loader, diskVars, faults>>

\* A dex file that restoreLastStatus did not see: "no recorded in config.json???"
TakeUnrecorded ==
  /\ pc = "scan"
  /\ slot < NumSlots
  /\ Sees(slot)
  /\ CookieIndex(mem, KeyOf[table[slot]]) = -1
  /\ cur' = -slot
  /\ dex' = table[slot]
  /\ LookAt(slot)
  /\ pc' = "rebuild"
  /\ UNCHANGED <<resume, slot, mem, table, loader, diskVars, faults>>

ScanEnd ==
  /\ pc = "scan"
  /\ slot = NumSlots
  /\ pc' = "done"
  /\ UNCHANGED <<resume, slot, cur, dex, mem, appVars, diskVars, faults>>

----------------------------------------------------------------------------
(* One dump file: written twice, each time opened with "w+" first *)

FilesWith(id) == {f \in dumps : f.id = id}

\* The file id is opened: what it held is gone.
Opened(id) ==
  (dumps \ FilesWith(id)) \cup {[id |-> id, dex |-> dex, stage |-> "partial"]}

\* The open file receives its content, unless it was deleted meanwhile.
Filled(id, stage) ==
  (dumps \ FilesWith(id))
  \cup {[f EXCEPT !.stage = IF loader THEN stage ELSE "empty"] : f \in FilesWith(id)}

\* DexDumper::rebuild, whose answer nobody looks at, then the first myfopen.
Rebuild ==
  /\ pc = "rebuild"
  /\ dex \notin Crashing
  /\ dir
  /\ dumps' = Opened(cur)
  /\ pc' = "raw"
  /\ UNCHANGED <<resume, slot, cur, dex, mem, appVars, disk, dir, faults>>

\* Mutant of WriteRaw: the first write is taken for the whole work.
WriteRawSuccess ==
  /\ pc = "raw"
  /\ dumps' = Filled(cur, "raw")
  /\ mem' = SetCookieStatus(mem, cur, "Success")
  /\ slot' = slot + 1
  /\ cur' = 0
  /\ dex' = NoDex
  /\ pc' = "trunc"
  /\ resume' = "scan"
  /\ UNCHANGED <<appVars, disk, dir, faults>>

WriteRaw ==
  /\ pc = "raw"
  /\ dumps' = Filled(cur, "raw")
  /\ pc' = "fix"
  /\ UNCHANGED <<resume, slot, cur, dex, mem, appVars, disk, dir, faults>>

\* DexFixer::fixAll on the buffer, then the second myfopen.
Fix ==
  /\ pc = "fix"
  /\ dir
  /\ dumps' = Opened(cur)
  /\ pc' = "fixed"
  /\ UNCHANGED <<resume, slot, cur, dex, mem, appVars, disk, dir, faults>>

\* dumpIndex and dvmDex end their lives with the round of the loop.
WriteFixed ==
  /\ pc = "fixed"
  /\ dumps' = Filled(cur, "fixed")
  /\ mem' = SetCookieStatus(mem, cur, "Success")
  /\ slot' = slot + 1
  /\ cur' = 0
  /\ dex' = NoDex
  /\ pc' = "trunc"
  /\ resume' = "scan"
  /\ UNCHANGED <<appVars, disk, dir, faults>>

----------------------------------------------------------------------------
(* The specification *)

Thread ==
  \/ Begin \/ Load \/ Add \/ Turn
  \/ SaveTrunc \/ SaveWrite
  \/ Refresh \/ Skip \/ Mark \/ TakeUnrecorded \/ ScanEnd
  \/ Rebuild \/ WriteRaw \/ Fix \/ WriteFixed
  \/ DieRebuilding \/ DieWithoutDirectory

App == \E d \in Dex, s \in Slots, covered \in BOOLEAN : AppLoads(d, s, covered)

Next == Thread \/ App \/ Launch \/ Die \/ Exit \/ Delete

Spec == Init /\ [][Next]_vars

\* The app goes on with the dex files it always loads.
LoadResident == \E d \in Resident, s \in Slots, covered \in BOOLEAN : AppLoads(d, s, covered)

\* The scheduler runs the thread; the app loads what it always loads; the
\* user starts the app again and again (Readme.md: "click UPK a few times").
FairSpec ==
  /\ Spec
  /\ WF_vars(Thread)
  /\ WF_vars(LoadResident)
  /\ WF_vars(Launch)
  /\ WF_vars(Exit)

----------------------------------------------------------------------------
(* Safety *)

\* The table in memory and the table on disk name every dex file by one entry
\* and one index, whatever files were cut off, deleted or read back half
\* (UnpackInfo.cpp: addCookie, getCookieIndex).
RecordsIndexed == WellIndexed(mem) /\ WellIndexed(disk)

Dumping == pc \in {"rebuild", "raw", "fix", "fixed"}

\* While a dex file is being dumped, the entries that say "Unpack" on disk are
\* exactly its own: if the process dies now, the next run blames the dex file
\* that killed it and no other (Fupk.cpp:117-123).
BlameIsExact ==
  Dumping /\ dir =>
    {p \in DOMAIN disk : disk[p].status = "Unpack"}
      = {p \in DOMAIN disk : disk[p].key = KeyOf[dex]}

\* What the entry at place p of tab claims is so: if it says "Success", the
\* dump file of its index was written to the end, and from the dex file the
\* entry is about.
ShownAt(tab, p) ==
  tab[p].status = "Success" =>
    /\ FilesWith(p - 1) # {}
    /\ \A f \in FilesWith(p - 1) :
         KeyOf[f.dex] = tab[p].key /\ f.stage \in {"fixed", "empty"}

\* No entry on disk claims a success its dump file does not show
\* (Fupk.cpp:84-90: the status is set after the last write).
SuccessIsDumped == \A p \in DOMAIN disk : ShownAt(disk, p)

\* The same without the first entry, whose file and status the run also uses
\* for an unrecorded dex file in slot 0 (Fupk.cpp:47-50).
LaterSuccessIsDumped == \A p \in DOMAIN disk \ {1} : ShownAt(disk, p)

\* What information.json says, or will say when the write under way is done.
Persisted == IF pc = "write" /\ dir THEN mem ELSE disk

\* A dex file that is unpacked stays unpacked ("avoid re unpack if crash",
\* Fupk.cpp:102), except when the user deletes everything and when the process
\* dies between the truncation and the end of a write.
SuccessSticks ==
  [][ \A k \in Keys :
        StatusOf(Persisted, k) = "Success" =>
          \/ StatusOf(Persisted, k)' = "Success"
          \/ ~dir'
          \/ pc = "write" /\ pc' = "off" ]_vars

\* At the end of a run nothing the run could see is left waiting, or marked as
\* being unpacked.
NothingLeftWaiting ==
  pc = "done" =>
    \A s \in Slots : table[s] \in Dex \ Ignored =>
      StatusOf(mem, KeyOf[table[s]]) \in {"Success", "Fail"}

\* The persisted statuses live as UnpackJob says: attempts one at a time,
\* failures tried again only after everything that waits, a success for good; and
\* a death costs what is persisted only between the truncation and the end of a
\* write, a file cut off no more than its end.
JobStatus == [k \in Keys |-> StatusOf(Persisted, k)]

JobRecord == IF ~dir THEN "gone" ELSE IF pc = "write" THEN "open" ELSE "kept"

Job == INSTANCE UnpackJob
         WITH Tearable <- MayTear, status <- JobStatus, record <- JobRecord

ImplementsJob == Job!Spec

----------------------------------------------------------------------------
(* Liveness *)

\* An entry waits whose dex file need not come again, or never existed: as long as it
\* does, no failure is given another try (Fupk.cpp:126-132).
Blocked ==
  \E p \in DOMAIN Persisted :
    /\ Persisted[p].status = "Wait"
    /\ \A d \in Resident \ Ignored : KeyOf[d] # Persisted[p].key

\* A dex file that does not kill its process is unpacked in the end, for good,
\* also when others do: this is what skipping the dex file of the last crash
\* is for (Fupk.cpp:117-139).  What can prevent it is a blocking entry alone.
GoodDexUnpacked ==
  []<>~Blocked =>
    \A d \in Resident \ (Crashing \cup Ignored) :
      <>[](StatusOf(Persisted, KeyOf[d]) = "Success")

\* No dex file is given up: one that is not unpacked is tried again and again, also
\* when it kills its process each time, and also after a process that died for
\* another reason was blamed on it (Fupk.cpp:124-139).  Again a blocking entry
\* alone can prevent it.
FailuresRetried ==
  []<>~Blocked =>
    \A d \in Resident \ Ignored :
      []<>(StatusOf(Persisted, KeyOf[d]) \in {"Unpack", "Success"})

====
