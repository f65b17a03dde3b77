# FUPK3 in TLA+

FUPK3 unpacks packed Android applications. It is a modified Dalvik VM, a
library `libFupk3.so` that the VM loads into the target application, an
application with which the user chooses the target, and a desktop tool that
repairs the dex files that were dumped. This directory holds TLA+ models of
its own logic, the TLC runs that check them and the TLAPS proofs about them.
Paths are relative to the repository; `DexHelper/` stands for
`FUpk3/app/src/main/cpp/DexHelper/`.

## 1. The system

### Components

| Component | State it keeps | Operations |
|---|---|---|
| Bind hook (`ActivityThread.java:4213`, `app/fupk3/UpkConfig.java`, `Fupk.java`) | the target package, the class loader | read `/data/local/tmp/FUpk3.txt`, start the dump thread, sleep 10 s, find the loader, call `unpackAll` |
| Dump thread (`DexHelper/Fupk.cpp`) | loop variable, index of the dex file being dumped | `restoreLastStatus`, `unpackAll` |
| Table of cookies (`DexHelper/UnpackInfo.cpp`) | `mConfig` and `.fupk3/information.json` | load, save, add, find, get and set a status |
| Table of dex files (`dalvik/vm/Hash.cpp`, `native/dalvik_system_DexFile.cpp`) | `gDvm.userDexFiles`: slots, size, counters of entries | add, look up, remove, grow; open, close, define a class from a dex file |
| Cookies (`DexHelper/Cookie.cpp`, `utils/RWGuard.cpp`) | the VM's table of dex files (shared with the app), a snapshot of `/proc/self/maps` | look at a slot, refresh the snapshot |
| Rebuilding (`DexHelper/DexDumper.cpp`, `ClassDefBuilder.cpp`, `DexHashTable.cpp`) | the new class definitions and the extra data, `gUpkInterface->reserved0` | rebuild a class from the VM's objects, export a code item, lay the file out |
| Export hook (`dalvik/vm/interp/Interp.cpp`, `Stack.cpp`) | `gFupk`, the magic result value, the thread's frames and pending exception | `fupkInvokeMethod`, the test at the entry of the interpreter |
| Instruction repair (`DexHelper/DexFixer.cpp`) | the buffer of the rebuilt file | replace optimised instructions |
| User interface (`f8left/fupk3/MainActivity.java`, `RootUtil.java`, `UpkConfig.java`) | the root shell, the package, the list of results | UPK, DEL, CPY, choose a package, a timer that re-reads the results |
| Repair tool (`FUnpackServer/upkserver`) | none | rewrite every dumped dex file |

### How they interact

The user interface writes `FUpk3.txt` and starts the target. The target's
process reads it when it binds the application and starts one thread. That
thread runs beside the application's own threads and shares the VM's table of
dex files with them, without a lock. It leaves its results in
`/data/data/<package>/.fupk3`: `information.json` and one numbered file per dex
file. The user interface reads and deletes that directory through a root shell
whenever it likes. Nothing tells the two apart but the files.

### What is hard

* The target may die at any instruction: protectors kill the process when they
  are looked at, the user force-stops it, and the only memory between two runs
  is `information.json`, rewritten in place.
* The application loads dex files while they are being listed and dumped.
* The directory can be deleted during a dump.
* A dump must be retried, but a dex file that always kills its process must not
  keep the others from being unpacked.
* The VM's table is read without its lock while the application makes it grow, and
  growing frees the array that is being read.
* A method is handed out by pretending to invoke it: a call is told from an export
  by a value in memory that most callers do not initialise, and what the class
  initialisers of the application throw stays pending on the dump thread.
* The user interface reads results that are being rewritten, through one copy and
  one shell, from timers that outlive their activity.

## 2. The modules

| Module | What it models |
|---|---|
| `UnpackInfo` | `UnpackInfo.cpp`: the table, its operations, what a cut file reads back as; the status turning of `restoreLastStatus` |
| `UnpackSession` | `Fupk.cpp`, `core_Fupk.cpp`, `Cookie.cpp`, `RWGuard.cpp`: runs of the dump thread, one after the other, with the app's loads, deaths and deletions |
| `UnpackJob` | the abstract life of the attempts and of the record of them, which `UnpackSession` implements |
| `DexFileTable` | `Hash.cpp`, `dalvik_system_DexFile.cpp`: the VM's table of dex files under its lock, and the walk of `Cookie.cpp` over it without the lock |
| `LoadedDexes` | the set of cookies that the table promises its callers, which `DexFileTable` implements |
| `InvokeHook` | `fupkInvokeMethod`, `dvmInvokeMethod`, the test in `dvmInterpret`, and the loops of `DexDumper.cpp` that use them: what is exported, what stays behind on the stack and pending |
| `DexRebuild` | `DexDumper.cpp`, `ClassDefBuilder.cpp`: the rebuilding of one dex file and its layout |
| `DexFixer` | `DexFixer.cpp`: the walk that puts replaced instructions back |
| `RootShell` | `RootUtil.java` and the jobs of `MainActivity.java` that share the root shell |
| `UserInterface` | `MainActivity.java`, the two `UpkConfig.java`, the insertion in `ActivityThread.java`: the choice of a target, how a starting process learns of it, and the results shown |
| `MC*` | the instances TLC checks |
| `*_proofs` | the TLAPS proofs, one module per component |

`UnpackSession` extends `UnpackInfo`; `DexRebuild` and `DexFixer` are what
happens inside its steps `Rebuild` and `Fix`, `InvokeHook` inside the steps `FixByDvm`
and `OpenClass` of `DexRebuild`, and `DexFileTable` between `Refresh` and `ScanEnd`. `UserInterface`
sees of a dump only the saves of `information.json`, and of the shell only what
its commands do to the files. What they contribute there is
only whether they return: `Crashing` dex files and `Die` stand for a rebuild or a
repair that does not.

### UnpackSession: state and actions

`pc` is the place of the dump thread in `restoreLastStatus` and `unpackAll`;
`slot`, `cur`, `dex` are its `i`, `dumpIndex` and `dvmDex`; `mem` is
`mInfo.mConfig`, `disk` what `information.json` parses to, `dumps` the numbered
files; `table` is `gDvm.userDexFiles`, `guard` the snapshot of the `RWGuard`
singleton. A dex file shows a key (name and signature); an entry of the table is a
key, an index and a status.

| Action | Code |
|---|---|
| `Launch`, `Begin` | `Fupk.unpackAfter`, `unpackNow`, native `unpackAll` |
| `Load`, `Add`, `Turn` | `restoreLastStatus`: read the file, list the cookies, turn the statuses |
| `SaveTrunc`, `SaveWrite` | `saveConfigFile`, in two steps because the file is empty between them; `resume` is where it returns to |
| `Refresh`, `Skip`, `Mark`, `TakeUnrecorded`, `ScanEnd` | one round of the loop of `unpackAll` |
| `Rebuild`, `WriteRaw`, `Fix`, `WriteFixed` | the two writes of a dump file, each time opened with `w+` first |
| `AppLoads` | a thread of the application opens a dex file |
| `Die`, `DieRebuilding`, `DieWithoutDirectory`, `Exit` | the ends of the process |
| `Delete` | the DEL button |

A file that was being written when the process died reads back as `CutTable`
says: jsoncpp keeps the entries it has read, and the last of them may lack its
status, its index or be null (`getCookieIndex` adds such an entry back).

In `UnpackJob` every change of a status opens the record, and nothing else changes until it
is closed. Only a death while it is open loses something: everything, or, where a
file can be cut off (`Tearable`), what stood at its end, with at most one dex file that
then seems to wait. While the record is closed a status changes by an attempt, by a
new run or not at all, so a success is lost only there or by `Delete`.
`UnpackSession` maps it to `JobRecord`: open from `SaveTrunc` to `SaveWrite`.

### DexRebuild: state and actions

The dex file has `NumClasses` classes and a set `MethodId` of indices in `method_ids`, of
which `Method` are defined in it; the others are only referred to. For each class
`SkipClass` or `OpenClass` chooses what it is rebuilt from: an object of this
dex file, a class of the same name of another one, or the class data in memory. `methods` is
what the builder finds there: which list each method is in, and how long its code is.
An object of this dex file has this dex file's methods, and of what was erased
from memory any part; a class of another dex file (`Foreign`) may have any methods under
any index this dex file has for the name of the class, in either list, native or
abstract where this dex file has code and the other way round, or none at all. A class
whose `class_data_off` was erased (`NoData`) is given no class data if no object comes, or
one that was made without it. `FixByDvm` and
`FixByMemory` fix one method; `NextList` ends a list, `EncodeClass` writes the class
data, `LayOut` puts the file together. `chunks` are the items of `extra`, `size` its
length, `point` is `total_point`, `last` is `lastIndex`, `entries` the encoded
methods with their deltas, `defs` the class definitions with their data offsets. What each
was rebuilt from, and what methods it had there, is recorded in `defs` for the properties.

### DexFixer: state and actions

`insns` is the file, unit by unit; a unit is what it means as the first unit
of an instruction (`what`, `kind`, `form`) and what it means as the index of a field
(`names`). `NextMethod` and `End` are `fixAll`, `Fix` and `Leave` a round of
`fixOptInSns`. `left` is `len`, a `size_t` modulo `Word`.

### DexFileTable: state and actions

`entries` is the array at `pEntries`, `length` how long it is, which differs from
`tableSize` between the two writes at the end of `resizeHash`; `owner` and `step` say who holds
the lock and where it is in the operation. `life` and `okayToFree` are a `DexOrJar`.

| Action | Code |
|---|---|
| `Open`, `Add`, `OpenReturns` | `addToDexFileTable`: lock, `dvmHashTableLookup`, unlock |
| `Grow`, `Copy`, `FreeOld`, `Publish`, `SetSize` | `resizeHash`, split at the writes that the dump thread can see |
| `Close`, `Remove`, `Validate`, `Define` | `closeDexFile` with `validateCookie`, `dvmHashTableRemove` and the freeing; `defineClassNative` |
| `StartScan`, `EndScan` | the three walks of the dump thread, in `print`, `restoreLastStatus` and `unpackAll` (`pass`) |
| `CheckSize`, `CheckNull`, `CheckReadable`, `Take`, `Use`, `UseGarbage` | `getCookieAt`: `tableSize` and `pEntries`, then the data of the slot, three times |

Each read of a slot is a step. `tableSize` and `pEntries` are read in one: `tableSize` only
grows and is written after `pEntries`, so nothing can come between that matters (a
processor that reorders the two writes is left out).

`mapped` are the structures that are sure to lie in the maps of `RWGuard`. The maps are read when
`print` first looks at an entry (the model has them read when that walk starts: the
application's own dex file is in the table by then) and again in front of the walk of the
dump. `restoreLastStatus` has those of `print`, so that what was opened since may look
unreadable to it and be passed over (`Overlooked`).

`at = "freed"` means that the walk holds the address of an array that was freed:
what it reads there is any value. `held`, `closed`, `moved` record what the table has held
since the walk began and what happened to it since; the code has nothing like them. A dex
file that is taken out is no longer followed (`Forget`).

### InvokeHook: state and actions

`pc`, `class`, `k` are the place in the loops of `rebuild`; `code` is what each `code_off`
leads to (`"garbage"` is what `new char[]` left), `frames` what the dump thread pushed on
the interpreter's stack, `exception` what is pending, `overflowed` the open reserve of
the stack. `magic` says whether the magic value lies in memory that an uninitialised
result may be made of; then each such result may or may not hold it.

| Action | Code |
|---|---|
| `LoadReturns`, `LoadThrows`, `LoadIsExport` | `tryLoadClass` through JNI: it returns, an `Error` passes its `catch`, or the call itself is taken for an export |
| `Skip`, `Push`, `Export`, `Check` | `fixMethodByDvm`, `fupkInvokeMethod`, `dvmInvokeMethod`, `fupk_ExportMethod`, `dvmWrapException` |
| `Overflow`, `OverflowAgain` | `dvmHandleStackOverflow`, the second time without its reserve |

### UserInterface: state and actions

`ui` is the UI thread (`"save"`: `FUpk3.txt` is open and empty), `front` the activity on the
screen, `chosen` and `timer` each activity's choice and timer thread, `queue` what was posted
to the UI thread, `shown` the copies whose results are in `mInfoTable`. `file` is
`FUpk3.txt`, `tmp` the copy in `/data/local/tmp`, `info` each package's `information.json`,
`proc` the processes of the packages. `calm` and `due` are history: nothing came between
since the timer's tick began; UPK started this process and nothing was saved since.

| Action | Code |
|---|---|
| `UiStart`, `Reopen`, `UiKilled` | `onCreate`, in a new process or in the same; the end of the process |
| `Choose`, `ChooseUnsaved`, `SaveWrite` | `onActivityResult`, CLEAR and the module button with `UpkConfig.save`, in two steps |
| `Upk`, `Delete` | the buttons UPK and DEL |
| `Tick`, `CopyBegins`, `CopyEnds`, `Post`, `RunPosted` | the timer: clear, ask, copy, post; and the UI thread, which runs what was posted |
| `Start`, `ReadConfig`, `Die` | a process binds its application: `UpkConfig.load` of the framework, and the comparison in `ActivityThread` |
| `MakeDir`, `InfoTrunc`, `InfoWrite`, `DumpEnds` | its dump thread: the directory, the saves, which do nothing without it, and the end |

### RootShell: state and actions

`Script` lists the calls of each button and of the timer; `Begin` starts a job,
and each call is a step into the monitor (`OpenShell`, `OpenFails`, `Execute`) and a
step out of it (`OpenReturns`, `RunReturns`, `AskReturns`, `AskThrows`), or neither
(`FindShell`, `ExecuteWithoutShell`). `lock` is the monitor of the `RootUtil`,
`running` is `mCommandRunning`, `last` the two fields with the last answer.
libsuperuser is outside the repository: `ShellAnswers`,
`WatchdogFindsDead`, `WatchdogExpires` post an answer, `Deliver` is the listener
on the callback thread. An uncaught exception ends the application (`Crash`), which the user
starts again (`Restart`). Every creation of the activity makes a new timer and
none is ever cancelled, so there can be several timer threads.

## 3. The runs

| Run | Question | Result |
|---|---|---|
| `session_any` | what holds whatever happens: late loads, a loader that is not found, cut files, a death or a deletion at any step | `RecordsIndexed`, `BlameIsExact`, `LaterSuccessIsDumped`, `SuccessSticks` hold |
| `session_stable` | what holds if the application loads its dex files before the dump starts | `SuccessIsDumped`, `NothingLeftWaiting` and the refinement `ImplementsJob` hold |
| `session_live` | does clicking UPK again unpack everything that can be unpacked, and is every failure tried again? | yes (`GoodDexUnpacked`, `FailuresRetried`), unless an entry that nobody comes for waits (`Blocked`) |
| `slot_zero` | is every recorded success dumped? | no: a dex file loaded late into slot 0 takes the entry and the file with index 0 |
| `table` | does the table stay a set for the application's threads, and is each of the three walks complete, exact and harmless? | yes; for a walk, unless the table is moved or a dex file closed under it, and but for what `restoreLastStatus` overlooks |
| `table_moved` | is every dex file that stays loaded given to the dump thread? | no: one that moves behind the walk is not |
| `hook` | does each method keep its own code, and the stack its frames, whatever is thrown? | yes, unless an `Error` or an overflow leaves an exception pending; a death has one of three causes |
| `rebuild_layout` | does a reader of the file find every method and its own code? | yes, those of the class it was rebuilt from; these are not the dex file's own where another dex file's class was taken or `class_data_off` erased |
| `fixer` | are exactly the replaced instructions put back, does the walk end? | yes, in files as compilers make them; a code item that is cut off does not keep it from ending |
| `fixer_hangs` | does the walk end whatever the code item holds? | no: an opcode without an instruction has width 0 |
| `shell` | does every caller get its own answer and leave the monitor? | yes, whatever the answer is (`NeverStuck`); without a death or a hang of the shell nothing crashes |
| `view` | does a process that UPK starts dump, and are the right results shown, once, again and again? | yes, if nothing came between; a crash has one of two causes |

### Bounds, and why they are enough

* Session: two or three dex files and slots are enough for what the properties
  compare (one being dumped, one marked before it, one that waits; slot 0 and
  another). Two faults give a death in a run that follows another death or a
  deletion; `session_any`, where dex files also come late and files are
  cut off, and `session_live`, where files are cut off, have one. In `session_live` the third dex file
  comes in some runs only, so that an entry can wait for it for ever. `MaxFaults` bounds `Die` and `Delete`; ends of the process that the
  state causes (`DieRebuilding`, `DieWithoutDirectory`, `Exit`) are not bounded. The
  number of runs is not bounded.
* Rebuild: five classes: one with both lists, a method without code and one whose code
  was erased, one in whose place another dex file's may come, with its own method and
  one more or without either, one with fields only, one with nothing, one whose
  `class_data_off` was erased. Lengths cover every
  remainder modulo 4, on which alignment depends.
* Fixer: one file of 17 units holds every kind of instruction width, a code
  item that ends at the next one, units that look like replaced instructions in
  every place where a wrong width would lead; every set of replaced instructions
  is tried. `Word` is 64 and larger than any code item, as a `size_t` is.
* Table: two dex files and a table that grows twice, with addresses that meet in the
  last slot (a probe that wraps) and part in the larger array: every order of
  openings, closings and growths with every step of the three walks. `MaxSize` bounds the
  growth; the walk needs one growth to lose a dex file (three dex files in
  `table_moved`, one of which leaves a removed entry).
* Hook: four classes with six methods: native, abstract, one that just fits the
  stack, one that fits only into its reserve and one that does not, in an order that puts
  an overflow before another one and before a method that is exported. Any number of
  dex files follow one another. No bound is needed.
* View: two packages (results of one are shown while the other is chosen), one
  process that is followed, an activity made twice (`MaxActivities`) and so two timers.
  `MaxQueue` bounds what is posted and has not run; two is what one tick posts. A timer
  that finds the queue full waits, where the code goes on posting: with the bound of
  two a clear can meet rows of either timer.
* Shell: the UI thread with three buttons and two timers (the activity was made
  twice), two faults.

### Fairness

* `UnpackSession!FairSpec`: the thread is scheduled (the application's process
  is not stopped for ever while it runs), the user clicks UPK again and again, and
  the application loads its resident dex files each time (`LoadResident`). Deaths and deletions have
  no fairness, and are bounded: a user who deletes the directory for ever gets
  nothing unpacked.
* `RootShell!FairSpec`: a woken thread runs, the callback thread runs, a command
  is answered by the shell or ended by its watchdog (`setWatchdogTimeout(10)`). Who
  gets the monitor is left open, as Java leaves it, so nothing is claimed of a
  thread that waits to enter.
* `DexFixer!FairSpec`: the dump thread is scheduled.
* `UserInterface!FairSpec`: the UI thread, the timers and the processes that run are
  scheduled, and a dump ends (strong fairness of `DumpEnds`: `unpackAll` saves
  once or twice for each dex file and there are finitely many). The user need do
  nothing. `ResultsShown` assumes that the UI thread has run what was posted when
  the first timer ticks again, which is ten seconds later: otherwise each clear
  could find the rows of the tick before.

## 4. The proofs

TLAPS proves these for every value of the constants; assumptions are only the
types of the constants and these: `DexAssumption`, `NoKeyAssumption` and
`BoundAssumption` (`UnpackSession`), `MethodAssumption` and `LayoutAssumption`
(`DexRebuild`), `ProgramAssumption` and `WordAssumption` (`DexFixer`: an offset in
the file fits a `size_t`, a code item begins in the file), `ThreadAssumption` and
`BoundAssumption` (`RootShell`), `DexesAssumption`, `DataAssumption` and `SizeAssumption`
(`DexFileTable`), `MethodsAssumption` and `StackAssumption` (`InvokeHook`), `PackageAssumption` and
`BoundAssumption` (`UserInterface`). The inductive invariants named below stand at the head of
the modules that prove them.

* `UnpackSession_proofs`: type correctness, `RecordsIndexed`, `BlameIsExact`,
  `LaterSuccessIsDumped`, and the action property `SuccessSticks`. None is inductive.
  `IInv` adds what links memory, disk and dump files at each point of the run:
  `AttemptInv` (the only entry marked in memory is the one of the dex file in
  hand, and `cur` is its index or not positive), `SavedInv` (between two saves the
  file holds what the memory holds, which is why a death blames the right dex
  file), `FileInv` (the dump file being written is open and this dex file's),
  `ShownInv` (the claims of the table in memory are true too, for it is the table
  on disk after the next save), `KeptInv` (a success on disk is one in the memory
  that will replace it). It begins with lemmas about the table's
  operations, among them that a cut table is still well indexed.
  If no dex file is loaded late (`~LateLoads`), `StableInv` is inductive as well, and
  `SuccessIsDumped` and `NothingLeftWaiting` follow: the snapshot covers every dex file
  there is (`CoveredInv`), the first scan gives an entry to each that the second will
  see (`RecordedInv`), and what the second has passed is a success or a failure
  (`PassedInv`). `JobInv` adds how the table on disk differs from the one the
  next save writes at each point of the run (`PendingInv`), from which each step is
  one of `UnpackJob` or a stutter: the refinement `ImplementsJob`. That a cut file costs no
  more than the end of the record is the lemma `CutMaps`.
* `DexRebuild_proofs`: type correctness (no delta is negative, because the
  builder sorts), `ItemsApart`, `LookupSucceeds` (an assertion of the code),
  `OffsetsLead`. `IInv` says how far `point` and `extra` have come together and that
  the list in hand is ascending, with the sum of its deltas in `last`. `ReaderFindsCode`
  rests on `ReadInv`: what is fixed of a list begins the sorted list's entries, each
  with the offset of its own method's code, and a class definition that is done has
  both lists whole, with the methods found in the class it was rebuilt from, another
  dex file's too. That a reader who adds up deltas gets the sorted list back
  (`IndexReadIs`) would be an induction over the list; it is proved by a least
  counterexample instead (`LeastNat`, from the well-foundedness of the naturals).
* `DexFixer_proofs`: type correctness, `WritesInstructions`, `Restored`, for every
  dex file that is `WellFormed` and whatever the optimiser replaced in it. `WalkInv`
  says that the walk stands on an instruction of the method or at the method's end,
  which a replaced instruction does not change because it is as wide as the
  original; `BehindInv` that what lies behind it is restored. That a replaced
  instruction comes back as it was, with the kind of its field, is the lemma
  `RewrittenBack`.
* `DexFileTable_proofs`: every property of the run `table`, the refinement of `LoadedDexes`
  included, for any dex files, addresses and sizes. `TableInv`: each entry is found on the
  way from its home slot, also past removed ones. `FreshInv`: while the table
  grows, the new array has what was copied and nothing twice. `CountInv`: the counters
  and the load factor at each point of an operation, from which an empty slot
  follows. `WalkInv`: what the walk has passed, as long as the table is not moved, and that the
  maps hold everything the table held, but for the walk of `restoreLastStatus`.
* `InvokeHook_proofs`: every property of the run `hook`, for any classes, methods and
  sizes of the stack. `FramesInv` gives the frames at each place, `BlameInv` says that
  no method is in hand while a class is loaded (why a call that is taken for an
  export cannot reach another method's code) and that an exception left pending has a
  fault behind it, `LeftInv` that what was exported is not garbage.
* `UserInterface_proofs`: type correctness, `UpkDumps`, `CrashHasCause`, `RowsOnce`, `RowsRight`, for
  any packages, processes, activities and any bound of the queue. `FileInv` ties the
  file to the choice of the activity on the screen, `CopyInv` says that what parses the
  copy was posted after one was made, `TableInv` that every posted runnable that
  shows rows finds the table empty when it runs (`EmptyAfter`), `SourceInv` that the
  copy an undisturbed tick made is not replaced by another package's.
* `RootShell_proofs`: type correctness, `OwnAnswer`, `Answered`, `CrashHasCause`,
  for any number of threads, any jobs of theirs and any number of faults. `LockInv`: only
  the thread in the monitor waits. `AnswerInv`: there is one command or one
  answer at a time, and it is that thread's. `CauseInv`: without a fault a shell
  is there for every thread that was told so.

### Liveness

In `RootShell` and `DexFixer`, `NeverStuck` says of each fair action where it is enabled. TLC
evaluates it as an invariant of `shell`; in `fixer` a state without it would be
the end of a run that violates `FixEnds`. The prover takes ENABLED for an opaque
formula, so that one thing has to be assumed in all four components: `GuardsSuffice`, that an
action is enabled where the conditions written in it hold (`CanAnswer`, `CanGo`, `CanGoOn` and so on:
the unprimed conjuncts of its disjuncts, and each disjunct changes a variable and
gives a value to every other). TLC, given it as an invariant
of these instances, finds it in every state; no run of the project repeats that. That the
conditions do hold wherever the system waits for the action is proved
(`[]GuardsSuffice => []NeverStuck`, where there is a `NeverStuck`):

* `RootShell_proofs!NobodyIsStuck`: a command in the shell can be answered or ended by
  the watchdog, because nobody asks a shell that was disposed of (`AskedInv`), what was posted
  can be handed over, and who was woken can return or throw whatever the answer was.
* `DexFixer_proofs!NothingHoldsUp`: where the walk stands on something it has a width
  (`WidthPositive`), for files that are `WellFormed` or `Sized`.
* `UnpackSession_proofs!FairIsEnabled`, a lemma: each place of the run has its actions, and the app can load what it always loads, because
  no dex file is in two slots (`DistinctInv`), so that by the pigeonhole principle a slot is
  free (`SlotIsFree`) if there are as many as dex files, as in `session_live`.

Two theorems need neither fairness nor ENABLED: `StepsLeadOn` (each step of the fixer lowers
a natural number, what is left of the file) and `RunsAreBounded` (each step of a run
but a deletion lowers a number of at most `8 + 12 * NumSlots`): no step goes in a
circle. In `UserInterface` the places where an action has to be possible are the conditions of the
actions, so that there is nothing to prove: `GuardsSuffice` is the hypothesis of
`ResultsAreShown`.

What follows from these, proved but for the induction at the end of this section:

* `CallsReturn` (`CallReturns`): a thread in the monitor has its command in the shell, or its
  answer under way, or was woken; each leads to the next and the last out of the
  monitor. For any number of threads and faults, from `GuardsSuffice` alone.
* `FixerEnds` (`FixEnds`): for files that are `WellFormed` or have no opcode without an
  instruction (`Sized`). The walk goes down a number made of the methods left and
  the units of the file left; `SameWhatInv` says that a rewritten unit keeps its
  width. The run `fixer_hangs` shows what the hypothesis excludes.
* `RunsEnd` and `GoodDexesUnpacked` (`GoodDexUnpacked`). A run ends because each
  step of the thread lowers `RunLeft`. Faults are bounded, so in the end
  the directory stays and the table holds an entry of every dex file; from then on
  `Chances`, which counts what waits and whose turn comes before the dex file's,
  goes down with every run until the dex file is taken, and what is taken is
  persisted. The hypotheses are what the argument needs and what section 5
  tells of: no dex file comes late; no file is cut off, for an entry without a
  name would wait for ever (`GhostEntry`); every dex file that is not ignored
  comes in each run, for an entry whose dex file does not come waits for ever, and
  no failure is tried again while one waits; and no dex file that kills the
  process shows the same name and signature (`Harmless`). They exclude that an entry blocks
  the others (`Blocked`). The run `session_live` goes further: files are cut off, one
  dex file does not come each time, and what is claimed is claimed of the behaviours
  in which a blocking entry does not stay.
* `ResultsAreShown` (`ResultsShown`): the dump of a process that is left alone ends and leaves
  `information.json` whole (`DueInv`); the timer gets back to its tick, wherever it was; a
  tick then finds the queue empty and the file there, and the clear, the copy and the
  rows follow one another (`AtCopy`, `AtCopying`, `AtPost`, `ToClear`, `ToShow`). It is
  proved when each process that is followed is its package's only one
  (`OneProcess`), as in the run: two dump threads over one file are not modelled.

`FixerEnds`, `RunsEnd` and `GoodDexesUnpacked` go down a number, and each lemma before
them proves the two parts of an induction on it: the formula holds of 0, and of n + 1
when it holds of n. That it then holds of every number is a hypothesis of the theorems
(`StepInduction`, `RunInduction`, `FaultInduction`, `TryInduction`: instances of
`Induction`). It is true of every formula, the library's `NatInduction`; but
these formulas are temporal, a theorem with an operator parameter is out of the
provers' reach, and TLA+ has no set of the numbers that a temporal formula is true of, from which
a least counterexample could be taken. `CallsReturn` and `ResultsAreShown` need no
induction.

Only model-checked: `FailuresRetried`, and `GoodDexUnpacked` where files are cut off or a dex
file stays away. Taken as valid: `GuardsSuffice`, which
is the meaning of ENABLED, and the four instances of induction.

## 5. Findings

Each is a run that TLC finds violated, listed in `PROJECT.json` with the line
that says otherwise: `slot_zero`, `table_moved`, `fixer_hangs`.

Met while modelling, and not runs:

* A failed dex file is tried again only when nothing waits (`Fupk.cpp:126-132`). An entry
  whose dex file is not loaded any more waits for ever and blocks every retry, though
  `Readme.md:43` says that failures are retried by clicking UPK again. A file cut off
  inside an entry leaves one without a name that waits (`GhostEntry`), with the
  same effect. `GoodDexUnpacked` and `FailuresRetried` except just this (`Blocked`).
* `saveConfigFile` truncates the only copy before it writes the new one
  (`UnpackInfo.cpp:40-46`): a death in between loses every success, though the file is there
  to "avoid re unpack if crash" (`Fupk.cpp:102`). `SuccessSticks` excepts just this.
* A class is loaded by its name (`DexDumper.cpp:103-113`), and another dex file's class of
  that name gives its code to the dump of this one. `ReaderFindsCode` allows just that.
* `execute` "executes a single command, waits for its termination and returns the
  result" (`RootUtil.java:112-114`), but throws when the shell was disposed of since
  `startShell`, and no caller catches it. `CrashHasCause` of `RootShell` allows just that.
* `unpackAll` drops what `rebuild` returns (`Fupk.cpp:71`). A process that did not
  find its class loader writes empty dump files and records them as successes.
  `SuccessIsDumped` counts such a file (`"empty"`) as written.
* Dex files are told apart by name and signature (`Fupk.cpp:45-46`). Two of the same
  name whose signatures were erased share an entry, and one is dumped.
* The length of the old data comes from the header (`DexDumper.cpp:68, 202`); if a
  protector erased the data offsets it wraps, and the process dies in `LayOut`.
* Every process of the target package starts a dump thread (`ActivityThread.java:4213`), and
  all of them rewrite one `information.json` and number their dump files alike.
* A method that does not fit the stack leaves a `StackOverflowError` pending; the next
  export wraps it, so the reserve of the stack stays open, and the next method that does
  not fit aborts the VM (`Stack.cpp:1041`).
* After a death in the middle of a save of `FUpk3.txt` the user interface does not start
  again: `load` takes `isEmpty()` of null outside its `try` (`UpkConfig.java:55`), until
  somebody writes the file by other means.
* The timers of activities that are gone go on (`MainActivity.java:213`), and copy the
  results of what was chosen there over the one copy that is shown.
* `RWGuard` opens `/proc/self/maps` with each refresh and does not close it.

## 6. Not modelled, and the plan

Not modelled yet, in the order planned:

1. Two processes of one package over one `.fupk3`: two `UnpackSession` instances composed
   over the files. `UserInterface` lets a package have several processes, but sees of
   them only who dumps.
2. CPY and the repair tool: the copies in `/data/local/tmp/.fupk3`, decrypted in place, and
   what `upkserver` makes of them.

Not planned: `JniInfo`, `FRefInvoke` and `DexHashTable` (wrappers and maps without behaviour of
their own), the vendored libraries, the rest of the VM and of the framework. Left out
of the models that exist: the XOR of dump files, access flags and field lists, the
LEB128 coding, log output, the wording of the interface, running out of memory, an
overflow of the stack inside the application's class loader.
