---------------------------- MODULE UserInterface ----------------------------
(***************************************************************************)
(* From the choice of an application to its results on the screen: the     *)
(* user interface (MainActivity.java, UpkConfig.java), the configuration   *)
(* file through which a starting process learns that it is the target      *)
(* (ActivityThread.handleBindApplication, UpkConfig.load of the            *)
(* framework), and the copy of information.json that is shown.             *)
(*                                                                         *)
(* Each time the activity is made it gets a timer thread, which is never   *)
(* cancelled: the timers of activities that are gone go on with the choice *)
(* of their own activity, through the one root shell and the one copy.     *)
(* The shell is taken as reliable here, and one command runs at a time     *)
(* (RootShell); of a process's dump only its saves of information.json     *)
(* are seen (UnpackSession).                                               *)
(***************************************************************************)
EXTENDS Integers, Sequences

CONSTANTS
  Packages, NoPackage,
  Processes,      \* the processes that are followed, and a value for others
  NoProcess,
  PackageOf,      \* the package of a process; it may have several
  MainProcess,    \* the process of a package that "am start" starts
  MaxActivities,  \* bound: how often the activity is made in one process
  MaxQueue        \* bound: what is posted to the UI thread and has not run

ASSUME PackageAssumption ==
  /\ NoPackage \notin Packages
  /\ {"absent", "empty", "cut"} \cap (Packages \cup {NoPackage}) = {}
  /\ PackageOf \in [Processes -> Packages]
  /\ NoProcess \notin Processes
  /\ MainProcess \in [Packages -> Processes \cup {NoProcess}]
  /\ \A p \in Packages : MainProcess[p] # NoProcess => PackageOf[MainProcess[p]] = p
ASSUME BoundAssumption == MaxActivities \in Nat \ {0} /\ MaxQueue \in Nat \ {0, 1}

VARIABLES
  ui,      \* the UI thread; "save": between the truncation and the write
  front,   \* the activity on the screen; those before it are gone
  chosen,  \* mConfig.mTargetPackage of each activity
  timer,   \* where each activity's timer thread is
  queue,   \* what was posted to the UI thread
  shown,   \* whose results mInfoTable holds
  calm,    \* is front's timer at its work, and nothing came between since it began?
  file,    \* FUpk3.txt: a package, NoPackage, "empty" or "absent"
  tmp,     \* the copy of information.json: a package's, "cut" or "absent"
  source,  \* the package whose file "cp" copies
  info,    \* information.json of each package; "unsaved": its directory only
  proc,    \* the processes of the packages
  due,     \* processes that UPK started, nothing saved or deleted since
  faults   \* what went wrong so far

uiVars == <<ui, front, chosen, timer>>
view   == <<queue, shown, calm>>
copy   == <<tmp, source>>
target == <<info, proc, due>>
vars   == <<uiVars, view, file, copy, target, faults>>

Activities == 1 .. MaxActivities

\* Is information.json of p there?
Exists(p) == info[p] \in {"cut", "whole"}

Init ==
  /\ ui = "off" /\ front = 0
  /\ chosen = [a \in Activities |-> NoPackage]
  /\ timer = [a \in Activities |-> "off"]
  /\ queue = <<>> /\ shown = <<>> /\ calm = FALSE
  /\ file = "absent" /\ tmp = "absent" /\ source = NoPackage
  /\ info \in [Packages -> {"absent", "whole"}]
  /\ proc = [q \in Processes |-> "off"]
  /\ due = {} /\ faults = {}

-----------------------------------------------------------------------------
(* The process of the user interface.                                      *)

Alive == ui \in {"idle", "save"}

\* The process is gone, and with it its activities, timers and posted runnables; a
\* copy that the shell was making is finished or not.
UiEnds(how) ==
  /\ ui' = how /\ front' = 0
  /\ chosen' = [a \in Activities |-> NoPackage]
  /\ timer' = [a \in Activities |-> "off"]
  /\ queue' = <<>> /\ shown' = <<>> /\ calm' = FALSE
  /\ source' = NoPackage
  /\ UNCHANGED <<file, target>>

\* What is posted: to empty the table, to show the copy (what it shows may be doubtful,
\* or the table gone), to empty a table that is gone.
Posted == {"clear", "rows", "doubtful", "old", "gone"}
Parses == {"rows", "doubtful", "old"}

\* The table that what was posted is about is gone.
QueueOfGone == [i \in DOMAIN queue |-> IF queue[i] \in Parses THEN "old" ELSE "gone"]

\* onCreate: load, of a file that is empty, takes isEmpty() of null
OnCreate ==
  IF file = "empty"
  THEN /\ UiEnds("crashed")
       /\ UNCHANGED <<tmp, faults>>
  ELSE /\ ui' = "idle" /\ front' = front + 1
       /\ chosen' = [chosen EXCEPT ![front + 1] = IF file = "absent" THEN NoPackage ELSE file]
       /\ timer' = [timer EXCEPT ![front + 1] = "wait"]
       /\ queue' = QueueOfGone
       /\ shown' = <<>> /\ calm' = FALSE
       /\ UNCHANGED <<file, copy, target, faults>>

UiStart == ui \in {"off", "crashed"} /\ OnCreate

\* Mutant of Reopen: the configuration is saved by a thread of its own.
ReopenWhileSaving == ui \in {"idle", "save"} /\ front < MaxActivities /\ OnCreate

\* The user leaves the activity and comes back: another one is made.
Reopen == ui = "idle" /\ front < MaxActivities /\ OnCreate

UiKilled ==
  /\ Alive
  /\ UiEnds("off")
  /\ tmp' \in {tmp} \cup
       {IF source # NoPackage /\ info[source] = "whole" THEN source ELSE "cut" :
          a \in {b \in Activities : timer[b] = "copying"}}
  /\ faults' = IF ui = "save" THEN faults \cup {"torn"} ELSE faults

-----------------------------------------------------------------------------
(* The buttons.                                                            *)

\* What was read before is about another choice, or about what was deleted.
QueueDisturbed == [i \in DOMAIN queue |-> IF queue[i] = "rows" THEN "doubtful" ELSE queue[i]]
ShownDisturbed == [i \in DOMAIN shown |-> [of |-> shown[i].of, calm |-> FALSE]]

\* onActivityResult, CLEAR and the module button: the choice (or none, or the same)
\* is set, and save opens the file, which truncates it
Choose(p) ==
  /\ ui = "idle"
  /\ chosen' = [chosen EXCEPT ![front] = p]
  /\ ui' = "save" /\ file' = "empty"
  /\ queue' = QueueDisturbed /\ shown' = ShownDisturbed /\ calm' = FALSE
  /\ due' = {}
  /\ UNCHANGED <<front, timer, copy, info, proc, faults>>

\* ... or cannot make it, which nobody looks at
ChooseUnsaved(p) ==
  /\ ui = "idle" /\ file = "absent"
  /\ chosen' = [chosen EXCEPT ![front] = p]
  /\ queue' = QueueDisturbed /\ shown' = ShownDisturbed /\ calm' = FALSE
  /\ due' = {}
  /\ UNCHANGED <<ui, front, timer, file, copy, info, proc, faults>>

SaveWrite ==
  /\ ui = "save"
  /\ file' = chosen[front]
  /\ ui' = "idle"
  /\ UNCHANGED <<front, chosen, timer, view, copy, target, faults>>

Stopped(p) == {q \in Processes : PackageOf[q] = p}

\* Mutant of Upk: the configuration is saved by a thread of its own.
UpkWhileSaving ==
  /\ ui \in {"idle", "save"} /\ chosen[front] # NoPackage
  /\ LET p == chosen[front]
     IN  /\ proc' = [q \in Processes |->
                       IF q = MainProcess[p] THEN "bind"
                       ELSE IF q \in Stopped(p) THEN "off" ELSE proc[q]]
         /\ due' = (due \ Stopped(p)) \cup
                    (IF file = "absent" THEN {} ELSE {MainProcess[p]} \cap Processes)
  /\ UNCHANGED <<uiVars, view, file, copy, info, faults>>

\* UPK: am force-stop, am start
Upk ==
  /\ ui = "idle" /\ chosen[front] # NoPackage
  /\ LET p == chosen[front]
     IN  /\ proc' = [q \in Processes |->
                       IF q = MainProcess[p] THEN "bind"
                       ELSE IF q \in Stopped(p) THEN "off" ELSE proc[q]]
         /\ due' = (due \ Stopped(p)) \cup
                    (IF file = "absent" THEN {} ELSE {MainProcess[p]} \cap Processes)
  /\ UNCHANGED <<uiVars, view, file, copy, info, faults>>

\* DEL: rm -rf .fupk3, removeAllViews
Delete ==
  /\ ui = "idle"
  /\ info' = [p \in Packages |-> IF p = chosen[front] THEN "absent" ELSE info[p]]
  /\ shown' = <<>> /\ queue' = QueueDisturbed /\ calm' = FALSE
  /\ due' = {}
  /\ UNCHANGED <<uiVars, file, copy, proc, faults>>

-----------------------------------------------------------------------------
(* A timer, and what it posts to the UI thread.                            *)

\* Mutant of Tick: the table is not cleared.
TickNoClear(a) ==
  /\ timer[a] = "wait" /\ Len(queue) < MaxQueue
  /\ timer' = [timer EXCEPT ![a] =
                 IF chosen[a] # NoPackage /\ Exists(chosen[a]) THEN "copy" ELSE "wait"]
  /\ IF a = front THEN calm' = (timer'[a] = "copy") ELSE UNCHANGED calm
  /\ UNCHANGED <<ui, front, chosen, queue, shown, file, copy, target, faults>>

\* run posts removeAllViews, then asks whether the file is there (isUnpackConfigExit)
Tick(a) ==
  /\ timer[a] = "wait" /\ Len(queue) < MaxQueue
  /\ timer' = [timer EXCEPT ![a] =
                 IF chosen[a] # NoPackage /\ Exists(chosen[a]) THEN "copy" ELSE "wait"]
  /\ IF a = front THEN queue' = Append(queue, "clear") /\ calm' = (timer'[a] = "copy")
     ELSE UNCHANGED <<queue, calm>>
  /\ UNCHANGED <<ui, front, chosen, shown, file, copy, target, faults>>

\* Mutant of CopyBegins: a copy that is there is not made again.
CopyBeginsOnce(a) ==
  /\ timer[a] = "copy"
  /\ IF tmp = "absent" /\ chosen[a] # NoPackage
     THEN /\ timer' = [timer EXCEPT ![a] = "copying"]
          /\ tmp' = "cut" /\ source' = chosen[a]
     ELSE timer' = [timer EXCEPT ![a] = "post"] /\ UNCHANGED copy
  /\ UNCHANGED <<ui, front, chosen, view, file, target, faults>>

\* The choice is read again; "cp -f" opens the copy, if the file is still there.
CopyBegins(a) ==
  /\ timer[a] = "copy"
  /\ \A b \in Activities : timer[b] # "copying"
  /\ IF chosen[a] # NoPackage /\ Exists(chosen[a])
     THEN /\ timer' = [timer EXCEPT ![a] = "copying"]
          /\ tmp' = "cut" /\ source' = chosen[a]
          /\ IF chosen[a] # chosen[front]
             THEN queue' = QueueDisturbed /\ calm' = FALSE
             ELSE UNCHANGED <<queue, calm>>
          /\ UNCHANGED faults
     ELSE /\ timer' = [timer EXCEPT ![a] = "post"]
          /\ faults' = faults \cup {"missed"}
          /\ UNCHANGED <<copy, queue, calm>>
  /\ UNCHANGED <<ui, front, chosen, shown, file, target>>

CopyEnds(a) ==
  /\ timer[a] = "copying"
  /\ tmp' = IF info[source] = "whole" THEN source ELSE "cut"
  /\ source' = NoPackage
  /\ timer' = [timer EXCEPT ![a] = "post"]
  /\ UNCHANGED <<ui, front, chosen, view, file, target, faults>>

\* Mutant of Post: the timer runs once.
PostOnce(a) ==
  /\ timer[a] = "post" /\ Len(queue) < MaxQueue
  /\ queue' = Append(queue, IF a # front THEN "old" ELSE IF calm THEN "rows" ELSE "doubtful")
  /\ timer' = [timer EXCEPT ![a] = "off"]
  /\ calm' = (calm /\ a # front)
  /\ UNCHANGED <<ui, front, chosen, shown, file, copy, target, faults>>

Post(a) ==
  /\ timer[a] = "post" /\ Len(queue) < MaxQueue
  /\ queue' = Append(queue, IF a # front THEN "old" ELSE IF calm THEN "rows" ELSE "doubtful")
  /\ timer' = [timer EXCEPT ![a] = "wait"]
  /\ calm' = (calm /\ a # front)
  /\ UNCHANGED <<ui, front, chosen, shown, file, copy, target, faults>>

\* A runnable is run.  A copy that is not there is read as null, which JSONArray
\* does not take; one that is cut off shows nothing.
RunPosted ==
  /\ ui = "idle" /\ queue # <<>>
  /\ IF Head(queue) \in Parses /\ tmp = "absent"
     THEN UiEnds("crashed") /\ UNCHANGED tmp
     ELSE /\ queue' = Tail(queue)
          /\ shown' = CASE Head(queue) = "clear" -> <<>>
                        [] Head(queue) \in {"rows", "doubtful"} /\ tmp # "cut" ->
                             Append(shown, [of |-> tmp, calm |-> Head(queue) = "rows"])
                        [] OTHER -> shown
          /\ UNCHANGED <<uiVars, calm, file, copy, target>>
  /\ UNCHANGED faults

-----------------------------------------------------------------------------
(* The processes of the packages.                                          *)

Becomes(q, s) == proc' = [proc EXCEPT ![q] = s]

\* The user or another application starts a process; the system, a crash, ends it.
Start(q) ==
  /\ proc[q] = "off" /\ Becomes(q, "bind")
  /\ UNCHANGED <<uiVars, view, file, copy, info, due, faults>>

Die(q) ==
  /\ proc[q] # "off" /\ Becomes(q, "off")
  /\ due' = due \ {q}
  /\ UNCHANGED <<uiVars, view, file, copy, info, faults>>

\* UpkConfig.load.  readLine of a file that is empty gives null; what is written to
\* it then is taken for the lines after the first, and the package is not the third.
ReadConfig(q) ==
  /\ proc[q] = "bind"
  /\ Becomes(q, IF file = PackageOf[q] THEN "sleep" ELSE "quiet")
  /\ UNCHANGED <<uiVars, view, file, copy, info, due, faults>>

\* core_Fupk::unpackAll, after the sleep, makes the directory if there is none.
MakeDir(q) ==
  /\ proc[q] = "sleep" /\ Becomes(q, "load")
  /\ info' = [info EXCEPT ![PackageOf[q]] = IF @ = "absent" THEN "unsaved" ELSE @]
  /\ UNCHANGED <<uiVars, view, file, copy, due, faults>>

\* The dump thread saves information.json, which truncates it first, or, without the
\* directory, does nothing ...
InfoTrunc(q) ==
  /\ proc[q] \in {"load", "dump"}
  /\ IF info[PackageOf[q]] = "absent"
     THEN Becomes(q, "dump") /\ UNCHANGED info
     ELSE Becomes(q, "saving") /\ info' = [info EXCEPT ![PackageOf[q]] = "cut"]
  /\ UNCHANGED <<uiVars, view, file, copy, due, faults>>

\* ... and what is written to a file that was deleted is lost ...
InfoWrite(q) ==
  /\ proc[q] = "saving" /\ Becomes(q, "dump")
  /\ info' = [info EXCEPT ![PackageOf[q]] = IF Exists(PackageOf[q]) THEN "whole" ELSE @]
  /\ UNCHANGED <<uiVars, view, file, copy, due, faults>>

\* ... and comes to the end of unpackAll.
DumpEnds(q) ==
  /\ proc[q] = "dump" /\ Becomes(q, "ended")
  /\ UNCHANGED <<uiVars, view, file, copy, info, due, faults>>

-----------------------------------------------------------------------------
Ui ==
  \/ UiStart \/ Reopen \/ UiKilled \/ SaveWrite \/ Upk \/ Delete \/ RunPosted
  \/ \E p \in Packages \cup {NoPackage} : Choose(p) \/ ChooseUnsaved(p)

Timer(a) == Tick(a) \/ CopyBegins(a) \/ CopyEnds(a) \/ Post(a)

Dump(q) == ReadConfig(q) \/ MakeDir(q) \/ InfoTrunc(q) \/ InfoWrite(q) \/ DumpEnds(q)

Next ==
  \/ Ui
  \/ \E a \in Activities : Timer(a)
  \/ \E q \in Processes : Start(q) \/ Die(q) \/ Dump(q)

Spec == Init /\ [][Next]_vars

TimerFairness(a) == WF_vars(Timer(a))

\* A run of unpackAll saves finitely often.
DumpFairness(q) == WF_vars(Dump(q)) /\ SF_vars(DumpEnds(q))

\* The threads of the processes that run are scheduled.  The user need do nothing.
FairSpec ==
  /\ Spec
  /\ WF_vars(SaveWrite) /\ WF_vars(RunPosted)
  /\ \A u \in Activities : TimerFairness(u)
  /\ \A u \in Processes : DumpFairness(u)

-----------------------------------------------------------------------------
(* Properties.                                                             *)

\* The types of the variables; only activities that were made have a timer, and only
\* a timer that is at its work can have been left alone since it began.
UiTypeOK ==
  /\ ui \in {"off", "idle", "save", "crashed"}
  /\ front \in 0 .. MaxActivities /\ (Alive <=> front > 0)
  /\ chosen \in [Activities -> Packages \cup {NoPackage}]
  /\ timer \in [Activities -> {"off", "wait", "copy", "copying", "post"}]
  /\ \A a \in Activities : timer[a] = "off" <=> a > front
ViewTypeOK ==
  /\ queue \in Seq(Posted) /\ Len(queue) <= MaxQueue
  /\ shown \in Seq([of : Packages, calm : BOOLEAN])
  /\ calm \in BOOLEAN /\ (calm => Alive /\ timer[front] \in {"copy", "copying", "post"})
FilesTypeOK ==
  /\ file \in Packages \cup {NoPackage, "empty", "absent"}
  /\ tmp \in Packages \cup {"cut", "absent"}
  /\ source \in Packages \cup {NoPackage}
  /\ faults \subseteq {"torn", "missed"}
TargetTypeOK ==
  /\ info \in [Packages -> {"absent", "unsaved", "cut", "whole"}]
  /\ proc \in [Processes -> {"off", "bind", "sleep", "load", "saving", "dump", "quiet", "ended"}]
  /\ due \subseteq Processes
TypeOK == UiTypeOK /\ ViewTypeOK /\ FilesTypeOK /\ TargetTypeOK

\* A process that UPK started as the target finds itself the target, unless the
\* choice could not be saved, or was saved again since.
UpkDumps == \A q \in due : proc[q] # "quiet"

\* The user interface crashes only because a death cut off a save of the
\* configuration, or because the results vanished before they were copied.
CrashHasCause == ui = "crashed" => faults \cap {"torn", "missed"} # {}

\* The table never holds the results of two copies.
RowsOnce == Len(shown) <= 1

\* The results shown are those of the chosen package, unless the choice changed, they
\* were deleted, or the timer of an activity that is gone made a copy of another
\* package's while they were read.
RowsRight == \A i \in DOMAIN shown : shown[i].calm => shown[i].of = chosen[front]

\* The user does not click UPK, and the UI thread keeps up with the timer.
LeftAlone == ~Upk /\ (Tick(1) => queue = <<>>)

\* UPK has started p, and neither it nor the choice was disturbed since.
Dumping(p) ==
  /\ front = 1 /\ chosen[1] = p /\ MainProcess[p] \in due
  /\ \A q \in Stopped(p) : proc[q] # "off"

ResultsOf(p) == shown = <<[of |-> p, calm |-> TRUE]>>

\* Once UPK was clicked, and the user and the processes are left alone, and the UI
\* thread keeps up with the timer, the results are shown again and again.
ResultsShown ==
  <>[][LeftAlone]_vars =>
    \A p \in Packages : <>[]Dumping(p) => []<>ResultsOf(p)
=============================================================================
