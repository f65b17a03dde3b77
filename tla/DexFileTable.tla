---------------------------- MODULE DexFileTable ----------------------------
(***************************************************************************)
(* gDvm.userDexFiles: the VM's hash table of the dex files an application  *)
(* has opened (dalvik/vm/Hash.cpp, native/dalvik_system_DexFile.cpp), and  *)
(* the dump thread that walks over it (DexHelper/Cookie.cpp).              *)
(*                                                                         *)
(* The application's threads take the table's lock, so one of them at a    *)
(* time is inside; what it writes there is split into the writes another   *)
(* thread can see.  The dump thread takes no lock.  It walks over the      *)
(* table three times, in print, restoreLastStatus and unpackAll.  For each *)
(* slot it reads tableSize and pEntries and then, three times, the data of *)
(* the slot.  The first two are one step here: tableSize only grows, and   *)
(* pEntries is written before it.  When the table grows its array is freed *)
(* before pEntries is set.                                                 *)
(*                                                                         *)
(* A dex file is known by the address of its DexOrJar, which is its cookie *)
(* and its hash; the address may be used again when the dex file is        *)
(* closed.  That the application closes a dex file twice at the same time, *)
(* or while it defines a class from it, is left out: it breaks the VM      *)
(* without a dump.  So is running out of memory, which ends the process.   *)
(***************************************************************************)
EXTENDS Integers, FiniteSets

CONSTANTS Dexes,                  \* addresses of DexOrJar structures
          Address,                \* Dexes -> Nat, in units of the alignment
          InitialSize, MaxSize,   \* of the table; the bound is the model's
          Null, Tombstone, Junk,  \* data that is no DexOrJar
          NoDex

ASSUME DexesAssumption ==
  /\ IsFiniteSet(Dexes)
  /\ Address \in [Dexes -> Nat]
  /\ NoDex \notin Dexes
ASSUME DataAssumption ==
  /\ {Null, Tombstone, Junk} \cap Dexes = {}
  /\ Null # Tombstone /\ Null # Junk /\ Tombstone # Junk
ASSUME SizeAssumption == InitialSize \in Nat \ {0, 1} /\ MaxSize \in Nat

VARIABLES
  entries, length,            \* the array at pEntries and how long it is
  tableSize, numEntries, numDeadEntries,
  owner, step,                \* whose operation holds the lock, and where it is
  fresh, copied,              \* pNewEntries and i in resizeHash
  life, okayToFree,           \* each DexOrJar
  pass,                       \* the dump thread: which walk it is at or before,
  scan, i, at, datum,         \* where in it, idx, hashEntry, dexOrJar
  mapped,                     \* the DexOrJars that are sure to lie in RWGuard's maps
  seen, again,                \* the dex files it was given, and those twice
  held, closed, moved         \* what the table has held since the walk began, and
                              \* what happened to it since

table == <<entries, length, tableSize, numEntries, numDeadEntries>>
lock == <<owner, step, fresh, copied>>
dexes == <<life, okayToFree>>
walk == <<pass, scan, i, at, datum, mapped, seen, again, held>>
vars == <<table, lock, dexes, walk, closed, moved>>

Data == Dexes \cup {Null, Tombstone}
Slots(n) == 0 .. (n - 1)
Live(a, n) == {a[s] : s \in Slots(n)} \cap Dexes

-----------------------------------------------------------------------------
(* Probing.                                                                *)

Home(d, n) == Address[d] % n

\* k lies on the way from slot h to slot s, with a wrap at the end of the array
OnWay(h, k, s) == IF h <= s THEN h <= k /\ k < s ELSE h <= k \/ k < s

\* a search for d in a, of length n, ends in slot s
EndsAt(a, n, d, s) ==
  /\ a[s] \in {d, Null}
  /\ \A k \in Slots(n) : OnWay(Home(d, n), k, s) => a[k] \notin {d, Null}

\* Mutant of FreeAt: the entry is put into its home slot, whatever is there.
FreeAtHome(a, n, d, s) == s = Home(d, n) /\ a[s] \in Data

\* resizeHash looks for a slot that is free and compares nothing
FreeAt(a, n, d, s) ==
  /\ a[s] = Null
  /\ \A k \in Slots(n) : OnWay(Home(d, n), k, s) => a[k] # Null

\* LOAD_NUMER and LOAD_DENOM
TooFull(used, n) == used * 8 > n * 5

\* the dump thread walks; it holds the address of a slot
Walking == {"check", "null", "readable", "take", "use"}
Holding == {"null", "readable", "take"}

Init ==
  /\ entries = [s \in Slots(InitialSize) |-> Null]
  /\ length = InitialSize /\ tableSize = InitialSize
  /\ numEntries = 0 /\ numDeadEntries = 0
  /\ owner = NoDex /\ step = "idle" /\ copied = 0
  /\ fresh = <<>>
  /\ life = [d \in Dexes |-> "absent"]
  /\ okayToFree = [d \in Dexes |-> FALSE]
  /\ pass = "print" /\ scan = "off" /\ i = 0 /\ at = "here" /\ datum = Null
  /\ mapped = {} /\ seen = {} /\ again = {} /\ held = {} /\ closed = {} /\ moved = FALSE

-----------------------------------------------------------------------------
(* The application's threads.                                              *)

Free == owner = NoDex

\* openDexFileNative: a DexOrJar is allocated, and the lock is taken
Open(d) ==
  /\ life[d] = "absent" /\ Free
  /\ TooFull(numEntries + numDeadEntries + 1, tableSize) => tableSize * 2 <= MaxSize
  /\ owner' = d /\ step' = "add"
  /\ life' = [life EXCEPT ![d] = "opening"]
  /\ UNCHANGED <<table, fresh, copied, okayToFree, walk, closed, moved>>

\* Mutant of Add: removed entries do not count as used.
AddLiveOnly(d) ==
  /\ owner = d /\ step = "add"
  /\ \E s \in Slots(tableSize) :
       /\ EndsAt(entries, tableSize, d, s)
       /\ entries' = [entries EXCEPT ![s] = d]
       /\ numEntries' = numEntries + (IF entries[s] = Null THEN 1 ELSE 0)
  /\ step' = IF TooFull(numEntries', tableSize) THEN "grow" ELSE "unlock"
  /\ UNCHANGED <<length, tableSize, numDeadEntries, owner, fresh, copied,
                 dexes, walk, closed, moved>>

\* dvmHashTableLookup with doAdd; a slot that holds d already is left as it is
Add(d) ==
  /\ owner = d /\ step = "add"
  /\ \E s \in Slots(tableSize) :
       /\ EndsAt(entries, tableSize, d, s)
       /\ entries' = [entries EXCEPT ![s] = d]
       /\ numEntries' = numEntries + (IF entries[s] = Null THEN 1 ELSE 0)
  /\ step' = IF TooFull(numEntries' + numDeadEntries, tableSize) THEN "grow" ELSE "unlock"
  /\ UNCHANGED <<length, tableSize, numDeadEntries, owner, fresh, copied,
                 dexes, walk, closed, moved>>

\* addToDexFileTable after the lookup; the cookie is known to nobody before
OpenReturns(d) ==
  /\ owner = d /\ step = "unlock"
  /\ owner' = NoDex /\ step' = "idle"
  /\ life' = [life EXCEPT ![d] = "open"]
  /\ okayToFree' = [okayToFree EXCEPT ![d] = TRUE]
  /\ UNCHANGED <<table, fresh, copied, walk, closed, moved>>

\* resizeHash: calloc
Grow ==
  /\ step = "grow"
  /\ fresh' = [s \in Slots(2 * tableSize) |-> Null]
  /\ copied' = 0 /\ step' = "copy"
  /\ UNCHANGED <<table, owner, dexes, walk, closed, moved>>

\* ... one round of its loop
Copy ==
  /\ step = "copy" /\ copied < tableSize
  /\ copied' = copied + 1
  /\ LET d == entries[copied] IN
       IF d \in Dexes
       THEN \E s \in Slots(2 * tableSize) :
              /\ FreeAt(fresh, 2 * tableSize, d, s)
              /\ fresh' = [fresh EXCEPT ![s] = d]
       ELSE UNCHANGED fresh
  /\ UNCHANGED <<table, owner, step, dexes, walk, closed, moved>>

\* ... free(pEntries), while pEntries still leads there
FreeOld ==
  /\ step = "copy" /\ copied = tableSize
  /\ step' = "publish"
  /\ at' = IF scan \in Holding THEN "freed" ELSE at
  /\ moved' = (moved \/ scan \in Walking)
  /\ UNCHANGED <<table, owner, fresh, copied, dexes, pass, scan, i, datum, mapped,
                 seen, again, held, closed>>

\* ... pEntries = pNewEntries
Publish ==
  /\ step = "publish"
  /\ entries' = fresh /\ length' = 2 * tableSize
  /\ step' = "setsize"
  /\ UNCHANGED <<tableSize, numEntries, numDeadEntries, owner, fresh, copied,
                 dexes, walk, closed, moved>>

\* Mutant of SetSize: the count of removed entries is kept.
SetSizeOnly ==
  /\ step = "setsize"
  /\ tableSize' = 2 * tableSize
  /\ step' = "unlock"
  /\ fresh' = <<>> /\ copied' = 0
  /\ UNCHANGED <<entries, length, numEntries, numDeadEntries, owner, dexes,
                 walk, closed, moved>>

\* ... tableSize = newSize, numDeadEntries = 0
SetSize ==
  /\ step = "setsize"
  /\ tableSize' = 2 * tableSize /\ numDeadEntries' = 0
  /\ step' = "unlock"
  /\ fresh' = <<>> /\ copied' = 0
  /\ UNCHANGED <<entries, length, numEntries, owner, dexes, walk, closed, moved>>

\* validateCookie, which looks for the cookie under the lock
Validate(d, found) ==
  /\ Free
  /\ \E s \in Slots(tableSize) :
       EndsAt(entries, tableSize, d, s) /\ found = (entries[s] = d)

\* Mutant of Close: the dex file is freed and stays in the table.
CloseOnly(d) ==
  /\ life[d] = "open" /\ okayToFree[d] /\ Free
  /\ life' = [life EXCEPT ![d] = "removed"]
  /\ UNCHANGED <<table, lock, okayToFree, walk, closed, moved>>

\* closeDexFile up to the test of okayToFree
Close(d) ==
  /\ life[d] = "open"
  /\ \E found \in BOOLEAN :
       /\ Validate(d, found)
       /\ found => okayToFree[d]
       /\ life' = [life EXCEPT ![d] = IF found THEN "closing" ELSE "refused"]
  /\ UNCHANGED <<table, lock, okayToFree, walk, closed, moved>>

\* A dex file that is taken out is no longer followed: at its address may be another
\* one next.
Forget(d) ==
  /\ mapped' = mapped \ {d} /\ held' = held \ {d}
  /\ seen' = seen \ {d} /\ again' = again \ {d}
  /\ closed' = IF scan \in Walking THEN closed \cup {d} ELSE closed

\* Mutant of Remove: the slot is emptied.
RemoveToNull(d) ==
  /\ life[d] = "closing" /\ Free
  /\ \E s \in Slots(tableSize) :
       /\ EndsAt(entries, tableSize, d, s)
       /\ IF entries[s] = d
          THEN /\ entries' = [entries EXCEPT ![s] = Null]
               /\ numEntries' = numEntries - 1
          ELSE UNCHANGED <<entries, numEntries>>
  /\ life' = [life EXCEPT ![d] = "removed"]
  /\ Forget(d)
  /\ UNCHANGED <<length, tableSize, numDeadEntries, lock, okayToFree, pass, scan, i, at, datum, moved>>

\* ... dvmHashTableRemove; if it finds nothing there is a warning
Remove(d) ==
  /\ life[d] = "closing" /\ Free
  /\ \E s \in Slots(tableSize) :
       /\ EndsAt(entries, tableSize, d, s)
       /\ IF entries[s] = d
          THEN /\ entries' = [entries EXCEPT ![s] = Tombstone]
               /\ numEntries' = numEntries - 1
               /\ numDeadEntries' = numDeadEntries + 1
          ELSE UNCHANGED <<entries, numEntries, numDeadEntries>>
  /\ life' = [life EXCEPT ![d] = "removed"]
  /\ Forget(d)
  /\ UNCHANGED <<length, tableSize, lock, okayToFree, pass, scan, i, at, datum, moved>>

\* ... dvmFreeDexOrJar; malloc may give the address away again
FreeDexOrJar(d) ==
  /\ life[d] = "removed"
  /\ life' = [life EXCEPT ![d] = "absent"]
  /\ okayToFree' = [okayToFree EXCEPT ![d] = FALSE]
  /\ UNCHANGED <<table, lock, walk, closed, moved>>

\* defineClassNative: a dex file with a class in use stays for ever
Define(d) ==
  /\ life[d] = "open" /\ okayToFree[d]
  /\ \E found \in BOOLEAN :
       /\ Validate(d, found)
       /\ life' = [life EXCEPT ![d] = IF found THEN "open" ELSE "refused"]
       /\ okayToFree' = [okayToFree EXCEPT ![d] = ~found]
  /\ UNCHANGED <<table, lock, walk, closed, moved>>

-----------------------------------------------------------------------------
(* The dump thread: for (i = 0; i < size(); i++) getCookieAt(i).           *)

\* there is a DexOrJar structure at v
IsDexOrJar(v) == v \in Dexes /\ life[v] # "absent"

\* what a read of hashEntry->data may give: after free, whatever is there
DataRead == IF at = "here" THEN {entries[i]} ELSE Data \cup {Junk}

WalkOnly == UNCHANGED <<table, lock, dexes, pass, closed, moved>>

\* Mutant of StartScan: the maps are not read again.
StartScanUnrefreshed ==
  /\ scan = "off"
  /\ scan' = "check"
  /\ held' = Live(entries, length)
  /\ mapped' = IF pass = "print" THEN held' ELSE mapped
  /\ moved' = (step \in {"publish", "setsize"})
  /\ UNCHANGED <<table, lock, dexes, closed, pass, i, at, datum, seen, again>>

\* RWGuard reads the maps when print first looks at one (the application's own dex
\* file is in the table by then), and again in front of the walk of the dump; that
\* of restoreLastStatus has those of print.  closed and moved are told of what
\* happens from here on; a table that is being moved already counts as moved
StartScan ==
  /\ scan = "off"
  /\ scan' = "check"
  /\ held' = Live(entries, length)
  /\ mapped' = IF pass = "restore" THEN mapped ELSE held'
  /\ moved' = (step \in {"publish", "setsize"})
  /\ UNCHANGED <<table, lock, dexes, closed, pass, i, at, datum, seen, again>>

\* Mutant of CheckSize: i <= size().
CheckSizeFar ==
  /\ scan = "check" /\ i <= tableSize
  /\ scan' = "null"
  /\ at' = IF step = "publish" THEN "freed" ELSE "here"
  /\ WalkOnly /\ UNCHANGED <<i, datum, mapped, seen, again, held>>

\* i < size(), and pEntries + idx
CheckSize ==
  /\ scan = "check" /\ i < tableSize
  /\ scan' = "null"
  /\ at' = IF step = "publish" THEN "freed" ELSE "here"
  /\ WalkOnly /\ UNCHANGED <<i, datum, mapped, seen, again, held>>

WalkOver == scan = "check" /\ i >= tableSize

\* after the walk of print comes that of restoreLastStatus, then that of the dump
EndScan ==
  /\ WalkOver
  /\ pass' = IF pass = "print" THEN "restore" ELSE "unpack"
  /\ scan' = IF pass = "unpack" THEN "finished" ELSE "off"
  /\ i' = 0
  /\ seen' = {} /\ again' = {} /\ held' = {} /\ closed' = {} /\ moved' = FALSE
  /\ UNCHANGED <<table, lock, dexes, at, datum, mapped>>

NextSlot == scan' = "check" /\ i' = i + 1 /\ at' = "here"

\* hashEntry->data == nullptr
CheckNull ==
  /\ scan = "null"
  /\ \E v \in DataRead :
       IF v = Null THEN NextSlot ELSE scan' = "readable" /\ UNCHANGED <<i, at>>
  /\ WalkOnly /\ UNCHANGED <<datum, mapped, seen, again, held>>

\* Mutant of CheckReadable: what is not null is taken for readable.
CheckReadableAll ==
  /\ scan = "readable"
  /\ \E v \in DataRead :
       IF v # Null THEN scan' = "take" /\ UNCHANGED <<i, at>> ELSE NextSlot
  /\ WalkOnly /\ UNCHANGED <<datum, mapped, seen, again, held>>

\* RWGuard::isReadable: the structures in its maps are readable, neither nullptr nor
\* HASH_TOMBSTONE is, and others may be
CheckReadable ==
  /\ scan = "readable"
  /\ \E v \in DataRead, readable \in BOOLEAN :
       /\ v \in {Null, Tombstone} => ~readable
       /\ v \in mapped => readable
       /\ IF readable THEN scan' = "take" /\ UNCHANGED <<i, at>> ELSE NextSlot
  /\ WalkOnly /\ UNCHANGED <<datum, mapped, seen, again, held>>

\* dexOrJar = hashEntry->data
Take ==
  /\ scan = "take"
  /\ datum' \in DataRead
  /\ scan' = "use" /\ at' = "here"
  /\ WalkOnly /\ UNCHANGED <<i, mapped, seen, again, held>>

\* Mutant of Use: the walk stays at the slot.
UseAndStay ==
  /\ scan = "use" /\ IsDexOrJar(datum)
  /\ seen' = seen \cup {datum}
  /\ again' = again \cup ({datum} \cap seen)
  /\ scan' = "check" /\ datum' = Null
  /\ WalkOnly /\ UNCHANGED <<i, at, mapped, held>>

\* isDex, pRawDexFile, pDvmDex and fileName are read through dexOrJar
Use ==
  /\ scan = "use" /\ IsDexOrJar(datum)
  /\ seen' = seen \cup {datum}
  /\ again' = again \cup ({datum} \cap seen)
  /\ NextSlot /\ datum' = Null
  /\ WalkOnly /\ UNCHANGED <<mapped, held>>

\* ... through something else: the process dies, or the memory happens to hold
\* pointers, and the walk goes on with whatever it took for a dex file
UseGarbage ==
  /\ scan = "use" /\ ~IsDexOrJar(datum)
  /\ \/ scan' = "dead" /\ UNCHANGED <<i, at>>
     \/ datum \notin {Null, Tombstone} /\ NextSlot
  /\ datum' = Null
  /\ WalkOnly /\ UNCHANGED <<mapped, seen, again, held>>

App(d) == Open(d) \/ Add(d) \/ OpenReturns(d) \/ Close(d) \/ Remove(d)
            \/ FreeDexOrJar(d) \/ Define(d)
Resize == Grow \/ Copy \/ FreeOld \/ Publish \/ SetSize
Walk == StartScan \/ CheckSize \/ EndScan \/ CheckNull \/ CheckReadable \/ Take
          \/ Use \/ UseGarbage

\* a read of an address that is not mapped ends the process
Next == scan # "dead" /\ ((\E d \in Dexes : App(d)) \/ Resize \/ Walk)

Spec == Init /\ [][Next]_vars

-----------------------------------------------------------------------------
(* Properties.                                                             *)

Step == {"idle", "add", "unlock", "grow", "copy", "publish", "setsize"}
Life == {"absent", "opening", "open", "closing", "removed", "refused"}
Scan == Walking \cup {"off", "finished", "dead"}
Pass == {"print", "restore", "unpack"}

\* The types of the variables, with the lengths of the two arrays.
TypeOK ==
  /\ tableSize \in Nat \ {0} /\ length \in Nat \ {0}
  /\ length = IF step = "setsize" THEN 2 * tableSize ELSE tableSize
  /\ entries \in [Slots(length) -> Data]
  /\ numEntries \in Int /\ numDeadEntries \in Int
  /\ owner \in Dexes \cup {NoDex} /\ step \in Step
  /\ owner = NoDex <=> step = "idle"
  /\ step \in {"copy", "publish", "setsize"} => fresh \in [Slots(2 * tableSize) -> Data]
  /\ copied \in 0 .. tableSize
  /\ life \in [Dexes -> Life] /\ okayToFree \in [Dexes -> BOOLEAN]
  /\ pass \in Pass /\ scan \in Scan /\ i \in Nat /\ at \in {"here", "freed"}
  /\ datum \in Data \cup {Junk}
  /\ mapped \subseteq Dexes /\ seen \subseteq Dexes /\ again \subseteq Dexes
  /\ held \subseteq Dexes /\ closed \subseteq Dexes /\ moved \in BOOLEAN

\* Whenever the lock is free there is an empty slot, so that a search for a cookie
\* that is not there ends ("full table is bad -- search for nonexistent never
\* halts", Hash.cpp:219): removed entries count as well, until the table grows.
SearchesEnd == Free => \E s \in Slots(length) : entries[s] = Null

\* Whenever the lock is free the counters say what is in the table: the assertion
\* at the beginning of resizeHash, and of a count of the live entries.
CountsExact ==
  Free => /\ numEntries = Cardinality({s \in Slots(length) : entries[s] \in Dexes})
          /\ numDeadEntries = Cardinality({s \in Slots(length) : entries[s] = Tombstone})

\* No entry is a dex file that was freed, and none is there twice, even in the
\* middle of an operation: what is freed was taken out first, and stays out
\* when the table grows.
EntriesAlive ==
  \A s \in Slots(length) : entries[s] \in Dexes =>
    /\ life[entries[s]] \notin {"absent", "removed"}
    /\ \A r \in Slots(length) : entries[r] = entries[s] => r = s

\* The cookie of an open dex file is never refused ("invalid DexFile cookie"): it is
\* found whatever was added, removed and moved around it.
CookiesAccepted == \A d \in Dexes : life[d] # "refused"

\* The dump thread never looks behind the end of the array it has the address of.
WalkInBounds == scan \in Holding /\ at = "here" => i < length

\* restoreLastStatus goes by the maps that print read: what was opened since may
\* look unreadable to it.
Overlooked(d) == pass = "restore" /\ d \notin mapped

\* If the table is not moved during the walk, every dex file that was in it from
\* the beginning to the end of the walk is given to the dump thread, but for those
\* that restoreLastStatus overlooks (Fupk.cpp:35-41, 108-115); the dump, for which
\* the maps are read anew, overlooks none.
WalkComplete == WalkOver /\ ~moved => \A d \in held : d \in seen \/ Overlooked(d)

\* ... and none is given to it twice, unless it was closed and its address used again.
WalkOnce == ~moved => again \subseteq closed

\* The walk reads an address that is not a dex file's, which may end the process,
\* only when the table was moved or a dex file closed meanwhile.
DeathHasCause == scan = "dead" => moved \/ closed # {}

\* The table is a set that answers every caller rightly; its growth and the
\* order of its slots do not show.
Set == INSTANCE LoadedDexes WITH
         loaded <- Live(entries, length),
         leaving <- {d \in Dexes : life[d] = "closing"},
         refused <- {d \in Dexes : life[d] = "refused"}
ImplementsSet == Set!Spec

\* README.md:51: the dump thread gets all cookies, the loaded dex files.  The code
\* does without the lock, and the dump loses those that move behind it (see the run).
EveryLoadedDexListed == WalkOver /\ pass = "unpack" => held \subseteq seen

=============================================================================
