------------------------ MODULE UserInterface_proofs ------------------------
(***************************************************************************)
(* TLAPS proofs about UserInterface: for every set of packages and         *)
(* processes and every number of activities, a process that UPK started    *)
(* finds itself the target, the user interface crashes for a cause, and    *)
(* the table holds one copy's results, of the package that was chosen;     *)
(* they are shown again and again when nobody comes between.               *)
(***************************************************************************)
EXTENDS UserInterface, TLAPS, SequenceTheorems

\* The file holds what the activity on the screen holds, when it is not being
\* written; it is empty after a save that was cut off.
FileInv ==
  /\ ui = "idle" => file \in {chosen[front], "absent"}
  /\ ui = "save" => file = "empty"
  /\ file = "empty" => ui = "save" \/ "torn" \in faults
  /\ \A q \in due : file = PackageOf[q] /\ ui # "save" /\ proc[q] # "quiet"

\* A copy was made before one is read, or was missed.
CopyInv ==
  tmp = "absent" /\ "missed" \notin faults =>
    /\ \A i \in DOMAIN queue : queue[i] \notin Parses
    /\ \A a \in Activities : timer[a] \notin {"copying", "post"}

IsRows(what) == what \in {"rows", "doubtful"}

\* When the first n of the posted runnables q have run on the table s, it is empty.
EmptyAfter(s, q, n) ==
  \/ s = <<>> /\ \A i \in 1 .. n : ~IsRows(q[i])
  \/ \E j \in 1 .. n : q[j] = "clear" /\ \A i \in (j + 1) .. n : ~IsRows(q[i])

\* What shows rows finds an empty table.
RowsFindNone(s, q) == \A i \in DOMAIN q : IsRows(q[i]) => EmptyAfter(s, q, i - 1)

TableInv ==
  /\ RowsFindNone(shown, queue)
  /\ Alive /\ timer[front] \in {"copy", "copying", "post"} =>
       EmptyAfter(shown, queue, Len(queue))
  /\ RowsOnce

\* The copy that an undisturbed tick made is not replaced by another package's.
Awaited ==
  \/ calm /\ timer[front] \in {"copying", "post"}
  \/ \E i \in DOMAIN queue : queue[i] = "rows"

SourceInv ==
  /\ Awaited => tmp \in {"cut", chosen[front]}
  /\ Awaited /\ (\E a \in Activities : timer[a] = "copying") => source = chosen[front]
  /\ calm /\ timer[front] = "copy" => chosen[front] \in Packages /\ Exists(chosen[front])
  /\ RowsRight

\* One timer copies at a time, and a package's file.
CopyingInv ==
  /\ \A a, b \in Activities : timer[a] = "copying" /\ timer[b] = "copying" => a = b
  /\ \A a \in Activities : timer[a] = "copying" => source \in Packages

IInv == TypeOK /\ CopyingInv /\ FileInv /\ CrashHasCause /\ CopyInv /\ TableInv /\ SourceInv

-----------------------------------------------------------------------------
\* What is posted keeps its place and its kind when it becomes doubtful.
LEMMA QueueDisturbedType ==
  ASSUME queue \in Seq(Posted)
  PROVE  /\ QueueDisturbed \in Seq(Posted)
         /\ Len(QueueDisturbed) = Len(queue) /\ DOMAIN QueueDisturbed = DOMAIN queue
         /\ \A i \in DOMAIN queue :
              /\ IsRows(QueueDisturbed[i]) <=> IsRows(queue[i])
              /\ QueueDisturbed[i] = "clear" <=> queue[i] = "clear"
              /\ QueueDisturbed[i] \in Parses <=> queue[i] \in Parses
              /\ QueueDisturbed[i] # "rows"
BY DEF QueueDisturbed, Posted, IsRows, Parses

LEMMA QueueOfGoneType ==
  ASSUME queue \in Seq(Posted)
  PROVE  /\ QueueOfGone \in Seq(Posted)
         /\ Len(QueueOfGone) = Len(queue) /\ DOMAIN QueueOfGone = DOMAIN queue
         /\ \A i \in DOMAIN queue :
              /\ QueueOfGone[i] \in {"old", "gone"}
              /\ QueueOfGone[i] \in Parses <=> queue[i] \in Parses
BY DEF QueueOfGone, Posted, Parses

LEMMA ShownDisturbedType ==
  ASSUME shown \in Seq([of : Packages, calm : BOOLEAN])
  PROVE  /\ ShownDisturbed \in Seq([of : Packages, calm : BOOLEAN])
         /\ Len(ShownDisturbed) = Len(shown) /\ DOMAIN ShownDisturbed = DOMAIN shown
         /\ \A i \in DOMAIN shown : ~ShownDisturbed[i].calm
<1>1. \A i \in 1 .. Len(shown) : shown[i] \in [of : Packages, calm : BOOLEAN]
  BY ElementOfSeq
<1>2. \A i \in 1 .. Len(shown) : [of |-> shown[i].of, calm |-> FALSE] \in [of : Packages, calm : BOOLEAN]
  BY <1>1
<1>3. DOMAIN shown = 1 .. Len(shown) /\ Len(shown) \in Nat
  OBVIOUS
<1>4. ShownDisturbed \in [1 .. Len(shown) -> [of : Packages, calm : BOOLEAN]]
  BY <1>2, <1>3 DEF ShownDisturbed
<1>5. \A i \in DOMAIN shown : ~ShownDisturbed[i].calm
  BY DEF ShownDisturbed
<1>6. QED
  BY <1>3, <1>4, <1>5, SeqDef

-----------------------------------------------------------------------------
\* The types, a part at a time.
LEMMA InitType == Init => TypeOK
<1> SUFFICES ASSUME Init
             PROVE  TypeOK
  OBVIOUS
<1>1. UiTypeOK
  BY BoundAssumption DEF Init, UiTypeOK, Activities, Alive
<1>2. ViewTypeOK
  <2>1. shown \in Seq([of : Packages, calm : BOOLEAN])
    BY EmptySeq DEF Init
  <2>2. queue \in Seq(Posted) /\ Len(queue) <= MaxQueue
    BY BoundAssumption DEF Init
  <2>3. calm = FALSE
    BY DEF Init
  <2>4. QED
    BY <2>1, <2>2, <2>3 DEF ViewTypeOK
<1>3. FilesTypeOK
  BY DEF Init, FilesTypeOK
<1>4. TargetTypeOK
  BY DEF Init, TargetTypeOK
<1>5. QED
  BY <1>1, <1>2, <1>3, <1>4 DEF TypeOK

LEMMA UiTypeStep ==
  ASSUME TypeOK, [Next]_vars
  PROVE  UiTypeOK'
<1> USE DEF TypeOK, UiTypeOK
<1>1. ASSUME NEW how \in {"off", "crashed"}, UiEnds(how)
      PROVE  UiTypeOK'
  BY <1>1, BoundAssumption DEF UiEnds, Alive, Activities
<1>2. CASE OnCreate /\ (ui \in {"off", "crashed"} \/ front < MaxActivities)
  <2>1. CASE file = "empty"
    BY <1>1, <1>2, <2>1 DEF OnCreate
  <2>2. CASE file # "empty"
    <3>1. front' = front + 1 /\ front + 1 \in Activities /\ front' \in 1 .. MaxActivities
      BY <1>2, <2>2, BoundAssumption DEF OnCreate, Alive, Activities
    <3>2. chosen' \in [Activities -> Packages \cup {NoPackage}]
      BY <1>2, <2>2 DEF OnCreate, FilesTypeOK
    <3>3. timer' = [timer EXCEPT ![front + 1] = "wait"] /\ ui' = "idle"
      BY <1>2, <2>2 DEF OnCreate
    <3>4. QED
      BY <3>1, <3>2, <3>3 DEF Alive, Activities
  <2>3. QED
    BY <2>1, <2>2
<1>3. CASE UiKilled
  BY <1>1, <1>3 DEF UiKilled
<1>4. CASE RunPosted
  BY <1>1, <1>4 DEF RunPosted, uiVars, Alive
<1>5. CASE SaveWrite \/ Upk \/ Delete
  BY <1>5 DEF SaveWrite, Upk, Delete, uiVars, Alive
<1>6. ASSUME NEW p \in Packages \cup {NoPackage}, Choose(p) \/ ChooseUnsaved(p)
      PROVE  UiTypeOK'
  BY <1>6 DEF Choose, ChooseUnsaved, Alive
<1>7. ASSUME NEW a \in Activities, Timer(a)
      PROVE  UiTypeOK'
  <2>1. /\ UNCHANGED <<ui, front, chosen>> /\ timer[a] # "off"
        /\ \E s \in {"wait", "copy", "copying", "post"} : timer' = [timer EXCEPT ![a] = s]
    BY <1>7 DEF Timer, Tick, CopyBegins, CopyEnds, Post
  <2>2. QED
    BY <2>1 DEF Alive
<1>8. ASSUME NEW q \in Processes, Start(q) \/ Die(q) \/ Dump(q)
      PROVE  UNCHANGED uiVars
  BY <1>8 DEF Start, Die, Dump, ReadConfig, MakeDir, InfoTrunc, InfoWrite, DumpEnds
<1>9. CASE UNCHANGED uiVars
  BY <1>9 DEF uiVars, Alive
<1>10. QED
  BY <1>2, <1>3, <1>4, <1>5, <1>6, <1>7, <1>8, <1>9 DEF Next, Ui, UiStart, Reopen, vars

LEMMA FilesTypeStep ==
  ASSUME TypeOK, CopyingInv, [Next]_vars
  PROVE  FilesTypeOK'
<1> USE DEF TypeOK, FilesTypeOK
<1>1. CASE UiStart \/ Reopen
  BY <1>1 DEF UiStart, Reopen, OnCreate, UiEnds, copy
<1>2. CASE UiKilled
  <2>1. tmp' \in Packages \cup {"cut", "absent"} /\ faults' \subseteq {"torn", "missed"}
    BY <1>2 DEF UiKilled
  <2>2. QED
    BY <1>2, <2>1 DEF UiKilled, UiEnds
<1>3. CASE SaveWrite
  BY <1>3 DEF SaveWrite, UiTypeOK, Alive, Activities, copy
<1>4. CASE Upk \/ Delete
  BY <1>4 DEF Upk, Delete, copy
<1>5. CASE RunPosted
  BY <1>5 DEF RunPosted, UiEnds, copy
<1>6. ASSUME NEW p \in Packages \cup {NoPackage}, Choose(p) \/ ChooseUnsaved(p)
      PROVE  FilesTypeOK'
  BY <1>6 DEF Choose, ChooseUnsaved, copy
<1>7. ASSUME NEW a \in Activities, Timer(a)
      PROVE  FilesTypeOK'
  <2>1. CASE CopyEnds(a)
    BY <2>1 DEF CopyEnds, CopyingInv
  <2>2. CASE CopyBegins(a)
    BY <2>2 DEF CopyBegins, UiTypeOK, copy
  <2>3. CASE Tick(a) \/ Post(a)
    BY <2>3 DEF Tick, Post, copy
  <2>4. QED
    BY <1>7, <2>1, <2>2, <2>3 DEF Timer
<1>8. ASSUME NEW q \in Processes, Start(q) \/ Die(q) \/ Dump(q)
      PROVE  UNCHANGED <<file, copy, faults>>
  BY <1>8 DEF Start, Die, Dump, ReadConfig, MakeDir, InfoTrunc, InfoWrite, DumpEnds
<1>9. CASE UNCHANGED <<file, copy, faults>>
  BY <1>9 DEF copy
<1>10. QED
  BY <1>1, <1>2, <1>3, <1>4, <1>5, <1>6, <1>7, <1>8, <1>9 DEF Next, Ui, vars

LEMMA TargetTypeStep ==
  ASSUME TypeOK, [Next]_vars
  PROVE  TargetTypeOK'
<1> USE DEF TypeOK, TargetTypeOK
<1>1. CASE UNCHANGED target
  BY <1>1 DEF target
<1>2. CASE Upk
  BY <1>2 DEF Upk
<1>3. CASE Delete
  BY <1>3 DEF Delete
<1>4. ASSUME NEW p \in Packages \cup {NoPackage}, Choose(p) \/ ChooseUnsaved(p)
      PROVE  TargetTypeOK'
  BY <1>4 DEF Choose, ChooseUnsaved
<1>5. ASSUME NEW q \in Processes, Start(q) \/ Die(q) \/ Dump(q)
      PROVE  TargetTypeOK'
  BY <1>5, PackageAssumption
  DEF Exists, Start, Die, Dump, ReadConfig, MakeDir, InfoTrunc, InfoWrite, DumpEnds, Becomes
<1>6. UiStart \/ Reopen \/ UiKilled \/ SaveWrite \/ RunPosted => UNCHANGED target
  BY DEF UiStart, Reopen, OnCreate, UiEnds, UiKilled, SaveWrite, RunPosted, target
<1>7. ASSUME NEW a \in Activities, Timer(a)
      PROVE  UNCHANGED target
  BY <1>7 DEF Timer, Tick, CopyBegins, CopyEnds, Post
<1>8. QED
  BY <1>1, <1>2, <1>3, <1>4, <1>5, <1>6, <1>7 DEF Next, Ui, vars

LEMMA ViewTypeStep ==
  ASSUME TypeOK, [Next]_vars
  PROVE  ViewTypeOK'
<1> USE DEF ViewTypeOK
<1>1. ASSUME NEW how \in {"off", "crashed"}, UiEnds(how)
      PROVE  ViewTypeOK'
  <2>1. shown' \in Seq([of : Packages, calm : BOOLEAN])
    BY <1>1, EmptySeq DEF UiEnds
  <2>2. queue' \in Seq(Posted) /\ Len(queue') <= MaxQueue
    BY <1>1, BoundAssumption DEF UiEnds
  <2>3. calm' = FALSE
    BY <1>1 DEF UiEnds
  <2>4. QED
    BY <2>1, <2>2, <2>3
<1>2. CASE UiStart \/ Reopen
  <2>1. CASE file = "empty"
    BY <1>1, <1>2, <2>1 DEF UiStart, Reopen, OnCreate
  <2>2. CASE file # "empty"
    <3>1. shown' \in Seq([of : Packages, calm : BOOLEAN])
      BY <1>2, <2>2, EmptySeq DEF UiStart, Reopen, OnCreate
    <3>2. queue' \in Seq(Posted) /\ Len(queue') <= MaxQueue
      BY <1>2, <2>2, QueueOfGoneType DEF UiStart, Reopen, OnCreate, TypeOK
    <3>3. QED
      BY <1>2, <2>2, <3>1, <3>2 DEF UiStart, Reopen, OnCreate
  <2>3. QED
    BY <2>1, <2>2
<1>3. CASE UiKilled
  BY <1>1, <1>3 DEF UiKilled
<1>4. CASE SaveWrite
  BY <1>4 DEF SaveWrite, view, TypeOK, UiTypeOK, Alive
<1>5. CASE Upk
  BY <1>5 DEF Upk, view, uiVars, TypeOK, Alive
<1>6. CASE Delete
  <2>1. shown' \in Seq([of : Packages, calm : BOOLEAN])
    BY <1>6, EmptySeq DEF Delete
  <2>2. QED
    BY <1>6, <2>1, QueueDisturbedType DEF Delete, TypeOK
<1>7. CASE RunPosted
  <2>1. CASE Head(queue) \in Parses /\ tmp = "absent"
    BY <1>1, <1>7, <2>1 DEF RunPosted
  <2>2. CASE ~(Head(queue) \in Parses /\ tmp = "absent")
    <3>1. queue' \in Seq(Posted) /\ Len(queue') <= MaxQueue
      <4>1. queue' = Tail(queue) /\ queue # <<>> /\ queue \in Seq(Posted)
        BY <1>7, <2>2 DEF RunPosted, TypeOK
      <4>2. QED
        BY <4>1, HeadTailProperties, BoundAssumption DEF TypeOK
    <3>2. ASSUME Head(queue) \in {"rows", "doubtful"}, tmp # "cut"
          PROVE  [of |-> tmp, calm |-> Head(queue) = "rows"] \in [of : Packages, calm : BOOLEAN]
      <4>1. tmp \in Packages
        BY <2>2, <3>2 DEF TypeOK, FilesTypeOK, Parses
      <4>2. (Head(queue) = "rows") \in BOOLEAN
        OBVIOUS
      <4>3. QED
        BY <4>1, <4>2
    <3>3. \/ shown' \in {<<>>, shown}
          \/ \E r \in [of : Packages, calm : BOOLEAN] : shown' = Append(shown, r)
      <4>1. CASE Head(queue) \in {"rows", "doubtful"} /\ tmp # "cut"
        BY <1>7, <2>2, <3>2, <4>1 DEF RunPosted
      <4>2. CASE ~(Head(queue) \in {"rows", "doubtful"} /\ tmp # "cut")
        BY <1>7, <2>2, <4>2 DEF RunPosted
      <4>3. QED
        BY <4>1, <4>2
    <3>4. shown' \in Seq([of : Packages, calm : BOOLEAN])
      <4> DEFINE R == [of : Packages, calm : BOOLEAN]
      <4>1. shown \in Seq(R)
        BY DEF TypeOK
      <4>2. shown' \in {<<>>, shown} \/ \E r \in R : shown' = Append(shown, r)
        BY <3>3
      <4> HIDE DEF R
      <4>3. \A r \in R : Append(shown, r) \in Seq(R)
        BY <4>1, AppendProperties
      <4>4. <<>> \in Seq(R)
        BY EmptySeq
      <4>5. shown' \in Seq(R)
        BY <4>1, <4>2, <4>3, <4>4
      <4>6. QED
        BY <4>5 DEF R
    <3>5. QED
      BY <1>7, <2>2, <3>1, <3>4 DEF RunPosted, uiVars, TypeOK, Alive
  <2>3. QED
    BY <2>1, <2>2
<1>8. ASSUME NEW p \in Packages \cup {NoPackage}, Choose(p) \/ ChooseUnsaved(p)
      PROVE  ViewTypeOK'
  <2>1. queue' = QueueDisturbed /\ shown' = ShownDisturbed /\ ~calm' /\ calm' \in BOOLEAN
    BY <1>8 DEF Choose, ChooseUnsaved
  <2>2. shown' \in Seq([of : Packages, calm : BOOLEAN])
    BY <2>1, ShownDisturbedType DEF TypeOK
  <2>3. QED
    BY <2>1, <2>2, QueueDisturbedType DEF TypeOK
<1>9. ASSUME NEW a \in Activities, Timer(a)
      PROVE  ViewTypeOK'
  <2>1. UNCHANGED <<ui, front, shown>> /\ timer[a] # "off"
    BY <1>9 DEF Timer, Tick, CopyBegins, CopyEnds, Post, view
  <2>2. queue' \in Seq(Posted) /\ Len(queue') <= MaxQueue
    <3>1. \/ queue' \in {queue, QueueDisturbed}
          \/ Len(queue) < MaxQueue /\ \E e \in Posted : queue' = Append(queue, e)
      BY <1>9 DEF Timer, Tick, CopyBegins, CopyEnds, Post, view, Posted
    <3>2. ASSUME NEW e \in Posted, queue' = Append(queue, e), Len(queue) < MaxQueue
          PROVE  queue' \in Seq(Posted) /\ Len(queue') <= MaxQueue
      BY <3>2, AppendProperties, BoundAssumption DEF TypeOK
    <3>3. QED
      BY <3>1, <3>2, QueueDisturbedType DEF TypeOK
  <2>3. calm' \in BOOLEAN
    BY <1>9 DEF Timer, Tick, CopyBegins, CopyEnds, Post, view, TypeOK
  <2>4. ASSUME calm'
        PROVE  Alive' /\ timer'[front] \in {"copy", "copying", "post"}
    <3>1. Alive'
      BY <2>1 DEF TypeOK, UiTypeOK, Alive, Activities
    <3>2. CASE a = front
      <4>1. timer'[a] \in {"copy", "copying", "post"}
        <5>1. CASE Tick(a)
          BY <2>4, <3>2, <5>1 DEF Tick
        <5>2. CASE CopyBegins(a) \/ CopyEnds(a)
          BY <5>2 DEF CopyBegins, CopyEnds, TypeOK, UiTypeOK
        <5>3. CASE Post(a)
          BY <2>4, <3>2, <5>3 DEF Post
        <5>4. QED
          BY <1>9, <5>1, <5>2, <5>3 DEF Timer
      <4>2. QED
        BY <3>1, <3>2, <4>1
    <3>3. CASE a # front
      <4>1. calm
        BY <1>9, <2>4, <3>3 DEF Timer, Tick, CopyBegins, CopyEnds, Post, view
      <4>2. timer'[front] = timer[front]
        <5>1. front \in Activities
          BY <4>1 DEF TypeOK, ViewTypeOK, UiTypeOK, Alive, Activities
        <5>2. \E s \in {"wait", "copy", "copying", "post"} : timer' = [timer EXCEPT ![a] = s]
          BY <1>9 DEF Timer, Tick, CopyBegins, CopyEnds, Post
        <5>3. QED
          BY <3>3, <5>1, <5>2 DEF TypeOK, UiTypeOK
      <4>3. QED
        BY <3>1, <4>1, <4>2 DEF TypeOK
    <3>4. QED
      BY <3>1, <3>2, <3>3
  <2>5. QED
    BY <2>1, <2>2, <2>3, <2>4 DEF TypeOK
<1>10. ASSUME NEW q \in Processes, Start(q) \/ Die(q) \/ Dump(q)
       PROVE  UNCHANGED <<uiVars, view>>
  BY <1>10 DEF Start, Die, Dump, ReadConfig, MakeDir, InfoTrunc, InfoWrite, DumpEnds
<1>11. CASE UNCHANGED <<uiVars, view>>
  BY <1>11 DEF uiVars, view, Alive, TypeOK
<1>12. QED
  BY <1>2, <1>3, <1>4, <1>5, <1>6, <1>7, <1>8, <1>9, <1>10, <1>11 DEF Next, Ui, vars

LEMMA TypeStep ==
  ASSUME TypeOK, CopyingInv, [Next]_vars
  PROVE  TypeOK'
BY UiTypeStep, ViewTypeStep, FilesTypeStep, TargetTypeStep DEF TypeOK

-----------------------------------------------------------------------------
\* One timer copies at a time.
LEMMA CopyingStep ==
  ASSUME TypeOK, CopyingInv, [Next]_vars
  PROVE  CopyingInv'
<1> USE DEF CopyingInv
<1>1. UiKilled => CopyingInv'
  BY DEF UiKilled, UiEnds
<1>2. CASE UiStart \/ Reopen
  <2>1. CASE file = "empty"
    BY <1>2, <2>1 DEF UiStart, Reopen, OnCreate, UiEnds
  <2>2. CASE file # "empty"
    BY <1>2, <2>2 DEF UiStart, Reopen, OnCreate, copy, TypeOK, UiTypeOK
  <2>3. QED
    BY <2>1, <2>2, <1>2
<1>3. CASE RunPosted
  BY <1>3 DEF RunPosted, UiEnds, uiVars, copy
<1>4. SaveWrite \/ Upk \/ Delete => UNCHANGED <<timer, copy>>
  BY DEF SaveWrite, Upk, Delete, uiVars
<1>5. ASSUME NEW p \in Packages \cup {NoPackage}, Choose(p) \/ ChooseUnsaved(p)
      PROVE  UNCHANGED <<timer, copy>>
  BY <1>5 DEF Choose, ChooseUnsaved
<1>6. ASSUME NEW a \in Activities, Timer(a)
      PROVE  CopyingInv'
  <2>1. CASE CopyBegins(a)
    BY <2>1 DEF CopyBegins, copy, TypeOK, UiTypeOK, FilesTypeOK
  <2>2. CASE CopyEnds(a)
    BY <2>2 DEF CopyEnds, TypeOK, UiTypeOK
  <2>3. CASE Tick(a) \/ Post(a)
    BY <2>3 DEF Tick, Post, copy, TypeOK, UiTypeOK
  <2>4. QED
    BY <1>6, <2>1, <2>2, <2>3 DEF Timer
<1>7. ASSUME NEW q \in Processes, Start(q) \/ Die(q) \/ Dump(q)
      PROVE  UNCHANGED <<timer, copy>>
  BY <1>7 DEF Start, Die, Dump, ReadConfig, MakeDir, InfoTrunc, InfoWrite, DumpEnds, uiVars
<1>8. CASE UNCHANGED <<timer, copy>>
  BY <1>8 DEF copy
<1>9. QED
  BY <1>1, <1>2, <1>3, <1>4, <1>5, <1>6, <1>7, <1>8 DEF Next, Ui, vars, uiVars

\* The file, and the processes that UPK started.
LEMMA FileStep ==
  ASSUME TypeOK, FileInv, [Next]_vars
  PROVE  FileInv'
<1> USE DEF FileInv
<1>1. ASSUME NEW how \in {"off", "crashed"}, UiEnds(how), faults \subseteq faults',
             ui = "save" => "torn" \in faults'
      PROVE  FileInv'
  BY <1>1 DEF UiEnds, target
<1>2. CASE UiStart \/ Reopen
  <2>1. ui # "save"
    BY <1>2 DEF UiStart, Reopen
  <2>2. CASE file = "empty"
    BY <1>1, <1>2, <2>1, <2>2 DEF UiStart, Reopen, OnCreate
  <2>3. CASE file # "empty"
    BY <1>2, <2>1, <2>3, BoundAssumption
    DEF UiStart, Reopen, OnCreate, target, TypeOK, UiTypeOK, Alive, Activities
  <2>4. QED
    BY <2>2, <2>3
<1>3. CASE UiKilled
  BY <1>1, <1>3 DEF UiKilled
<1>4. CASE SaveWrite
  <2>1. file' \notin {"empty"} /\ file' = chosen'[front'] /\ ui' = "idle"
    BY <1>4, PackageAssumption DEF SaveWrite, TypeOK, UiTypeOK, Alive, Activities
  <2>2. due = {} /\ due' = {}
    BY <1>4 DEF SaveWrite, target
  <2>3. QED
    BY <2>1, <2>2
<1>5. CASE Upk
  <2>1. UNCHANGED <<ui, front, chosen, file, faults>>
    BY <1>5 DEF Upk, uiVars
  <2>2. ASSUME NEW q \in due'
        PROVE  file = PackageOf[q] /\ proc'[q] # "quiet"
    <3>1. q \in Processes
      BY <1>5 DEF Upk, TypeOK, TargetTypeOK
    <3>2. CASE q \in due
      BY <1>5, <3>1, <3>2 DEF Upk
    <3>3. CASE q \notin due
      <4>1. file # "absent" /\ q = MainProcess[chosen[front]]
        BY <1>5, <3>3 DEF Upk
      <4>2. file = chosen[front] /\ chosen[front] \in Packages
        BY <1>5, <4>1 DEF Upk, TypeOK, UiTypeOK, Alive, Activities
      <4>3. PackageOf[q] = chosen[front]
        BY <3>1, <4>1, <4>2, PackageAssumption
      <4>4. QED
        BY <1>5, <3>1, <4>1, <4>2, <4>3 DEF Upk
    <3>4. QED
      BY <3>2, <3>3
  <2>3. ui = "idle"
    BY <1>5 DEF Upk
  <2>4. QED
    BY <2>1, <2>2, <2>3
<1>6. CASE Delete
  BY <1>6 DEF Delete, uiVars
<1>7. CASE RunPosted
  <2>1. CASE Head(queue) \in Parses /\ tmp = "absent"
    BY <1>1, <1>7, <2>1 DEF RunPosted
  <2>2. CASE ~(Head(queue) \in Parses /\ tmp = "absent")
    BY <1>7, <2>2 DEF RunPosted, uiVars, target
  <2>3. QED
    BY <2>1, <2>2
<1>8. ASSUME NEW p \in Packages \cup {NoPackage}, Choose(p) \/ ChooseUnsaved(p)
      PROVE  FileInv'
  BY <1>8 DEF Choose, ChooseUnsaved
<1>9. ASSUME NEW a \in Activities, Timer(a)
      PROVE  UNCHANGED <<ui, front, chosen, file, due, proc>> /\ faults \subseteq faults'
  BY <1>9 DEF Timer, Tick, CopyBegins, CopyEnds, Post, target
<1>10. ASSUME NEW q \in Processes, Start(q) \/ Die(q) \/ Dump(q)
       PROVE  FileInv'
  <2>1. UNCHANGED <<ui, front, chosen, file, faults>> /\ due' \subseteq due
    BY <1>10 DEF Start, Die, Dump, ReadConfig, MakeDir, InfoTrunc, InfoWrite, DumpEnds, uiVars
  <2>2. \A r \in due' : proc'[r] # "quiet"
    BY <1>10
    DEF Start, Die, Dump, ReadConfig, MakeDir, InfoTrunc, InfoWrite, DumpEnds, Becomes, TypeOK, TargetTypeOK
  <2>3. QED
    BY <2>1, <2>2
<1>11. CASE UNCHANGED <<ui, front, chosen, file, due, proc>> /\ faults \subseteq faults'
  BY <1>11
<1>12. QED
  BY <1>2, <1>3, <1>4, <1>5, <1>6, <1>7, <1>8, <1>9, <1>10, <1>11
  DEF Next, Ui, vars, uiVars, target

\* A copy was made before it is read, or was missed.
LEMMA CopyStep ==
  ASSUME TypeOK, CopyInv, [Next]_vars
  PROVE  CopyInv'
<1> USE DEF CopyInv
<1>1. ASSUME NEW how \in {"off", "crashed"}, UiEnds(how)
      PROVE  CopyInv'
  BY <1>1 DEF UiEnds
<1>2. CASE UiStart \/ Reopen
  <2>1. CASE file = "empty"
    BY <1>1, <1>2, <2>1 DEF UiStart, Reopen, OnCreate
  <2>2. CASE file # "empty"
    BY <1>2, <2>2, QueueOfGoneType
    DEF UiStart, Reopen, OnCreate, copy, TypeOK, UiTypeOK, ViewTypeOK
  <2>3. QED
    BY <2>1, <2>2
<1>3. CASE UiKilled
  BY <1>1, <1>3 DEF UiKilled
<1>4. CASE RunPosted
  <2>1. CASE Head(queue) \in Parses /\ tmp = "absent"
    BY <1>1, <1>4, <2>1 DEF RunPosted
  <2>2. CASE ~(Head(queue) \in Parses /\ tmp = "absent")
    <3>1. queue # <<>> /\ queue' = Tail(queue) /\ UNCHANGED <<uiVars, copy, faults>>
      BY <1>4, <2>2 DEF RunPosted
    <3>2. QED
      BY <3>1 DEF uiVars, copy, TypeOK, ViewTypeOK
  <2>3. QED
    BY <2>1, <2>2
<1>5. SaveWrite \/ Upk => UNCHANGED <<timer, queue, copy, faults>>
  BY DEF SaveWrite, Upk, uiVars, view
<1>6. CASE Delete
  BY <1>6, QueueDisturbedType DEF Delete, uiVars, copy, TypeOK, ViewTypeOK
<1>7. ASSUME NEW p \in Packages \cup {NoPackage}, Choose(p) \/ ChooseUnsaved(p)
      PROVE  CopyInv'
  BY <1>7, QueueDisturbedType DEF Choose, ChooseUnsaved, copy, TypeOK, ViewTypeOK
<1>8. ASSUME NEW a \in Activities, Timer(a)
      PROVE  CopyInv'
  <2>1. CASE Tick(a)
    <3>1. queue' = queue \/ queue' = Append(queue, "clear")
      BY <2>1 DEF Tick
    <3>2. \A i \in DOMAIN queue' : (i \in DOMAIN queue /\ queue'[i] = queue[i]) \/ queue'[i] = "clear"
      BY <3>1 DEF TypeOK, ViewTypeOK
    <3>3. \A b \in Activities : timer'[b] \in {"copy", "wait", timer[b]}
      BY <2>1 DEF Tick, TypeOK, UiTypeOK
    <3>4. QED
      BY <2>1, <3>2, <3>3 DEF Tick, copy, Parses
  <2>2. CASE CopyBegins(a)
    BY <2>2, QueueDisturbedType DEF CopyBegins, copy, TypeOK, UiTypeOK, ViewTypeOK
  <2>3. CASE CopyEnds(a)
    BY <2>3, PackageAssumption DEF CopyEnds, view, TypeOK, UiTypeOK, FilesTypeOK
  <2>4. CASE Post(a)
    BY <2>4 DEF Post, copy, TypeOK, UiTypeOK, ViewTypeOK
  <2>5. QED
    BY <1>8, <2>1, <2>2, <2>3, <2>4 DEF Timer
<1>9. ASSUME NEW q \in Processes, Start(q) \/ Die(q) \/ Dump(q)
      PROVE  UNCHANGED <<timer, queue, copy, faults>>
  BY <1>9 DEF Start, Die, Dump, ReadConfig, MakeDir, InfoTrunc, InfoWrite, DumpEnds, uiVars, view
<1>10. CASE UNCHANGED <<timer, queue, copy, faults>>
  BY <1>10 DEF copy
<1>11. QED
  BY <1>2, <1>3, <1>4, <1>5, <1>6, <1>7, <1>8, <1>9, <1>10 DEF Next, Ui, vars, uiVars, view

\* A crash has a cause.
LEMMA CrashStep ==
  ASSUME TypeOK, FileInv, CopyInv, CrashHasCause, [Next]_vars
  PROVE  CrashHasCause'
<1> USE DEF CrashHasCause
<1>1. faults \subseteq faults'
  <2>1. ASSUME NEW p \in Packages \cup {NoPackage}, Choose(p) \/ ChooseUnsaved(p)
        PROVE  UNCHANGED faults
    BY <2>1 DEF Choose, ChooseUnsaved
  <2>2. ASSUME NEW a \in Activities, Timer(a)
        PROVE  faults \subseteq faults'
    BY <2>2 DEF Timer, Tick, CopyBegins, CopyEnds, Post
  <2>3. ASSUME NEW q \in Processes, Start(q) \/ Die(q) \/ Dump(q)
        PROVE  UNCHANGED faults
    BY <2>3 DEF Start, Die, Dump, ReadConfig, MakeDir, InfoTrunc, InfoWrite, DumpEnds
  <2>4. UiStart \/ Reopen \/ UiKilled \/ SaveWrite \/ Upk \/ Delete \/ RunPosted =>
          faults \subseteq faults'
    BY DEF UiStart, Reopen, OnCreate, UiKilled, SaveWrite, Upk, Delete, RunPosted
  <2>5. QED
    BY <2>1, <2>2, <2>3, <2>4 DEF Next, Ui, vars
<1>2. CASE UiStart \/ Reopen
  <2>1. CASE file = "empty"
    <3>1. ui # "save"
      BY <1>2 DEF UiStart, Reopen
    <3>2. QED
      BY <1>1, <2>1, <3>1 DEF FileInv
  <2>2. CASE file # "empty"
    BY <1>2, <2>2 DEF UiStart, Reopen, OnCreate
  <2>3. QED
    BY <2>1, <2>2
<1>3. CASE RunPosted
  <2>1. CASE Head(queue) \in Parses /\ tmp = "absent"
    <3>1. 1 \in DOMAIN queue /\ queue[1] \in Parses
      BY <1>3, <2>1 DEF RunPosted, TypeOK, ViewTypeOK
    <3>2. QED
      BY <1>1, <2>1, <3>1 DEF CopyInv
  <2>2. CASE ~(Head(queue) \in Parses /\ tmp = "absent")
    BY <1>3, <2>2 DEF RunPosted, uiVars
  <2>3. QED
    BY <2>1, <2>2
<1>4. UiKilled \/ SaveWrite \/ Upk \/ Delete => ui' # "crashed" \/ ui' = ui
  BY DEF UiKilled, UiEnds, SaveWrite, Upk, Delete, uiVars
<1>5. ASSUME NEW p \in Packages \cup {NoPackage}, Choose(p) \/ ChooseUnsaved(p)
      PROVE  ui' # "crashed" \/ ui' = ui
  BY <1>5 DEF Choose, ChooseUnsaved
<1>6. ASSUME NEW a \in Activities, Timer(a)
      PROVE  ui' = ui
  BY <1>6 DEF Timer, Tick, CopyBegins, CopyEnds, Post
<1>7. ASSUME NEW q \in Processes, Start(q) \/ Die(q) \/ Dump(q)
      PROVE  ui' = ui
  BY <1>7 DEF Start, Die, Dump, ReadConfig, MakeDir, InfoTrunc, InfoWrite, DumpEnds, uiVars
<1>8. CASE ui' # "crashed" \/ ui' = ui
  BY <1>1, <1>8
<1>9. QED
  BY <1>2, <1>3, <1>4, <1>5, <1>6, <1>7, <1>8 DEF Next, Ui, vars, uiVars

-----------------------------------------------------------------------------
\* What is posted at the end, or becomes doubtful, leaves what is before as it was.
LEMMA EmptyKeeps ==
  ASSUME NEW s, NEW t, NEW q, NEW r, NEW n \in Nat,
         EmptyAfter(s, q, n), s = <<>> => t = <<>>,
         \A i \in 1 .. n : /\ IsRows(r[i]) <=> IsRows(q[i])
                           /\ r[i] = "clear" <=> q[i] = "clear"
  PROVE  EmptyAfter(t, r, n)
<1>1. CASE s = <<>> /\ \A i \in 1 .. n : ~IsRows(q[i])
  <2>1. \A i \in 1 .. n : IsRows(r[i]) <=> IsRows(q[i])
    OBVIOUS
  <2>2. \A i \in 1 .. n : ~IsRows(r[i])
    BY <1>1, <2>1, Zenon
  <2>3. QED
    BY <1>1, <2>2 DEF EmptyAfter
<1>2. ASSUME NEW j \in 1 .. n, q[j] = "clear", \A i \in (j + 1) .. n : ~IsRows(q[i])
      PROVE  EmptyAfter(t, r, n)
  <2>1. r[j] = "clear"
    BY <1>2
  <2>2. \A i \in (j + 1) .. n : i \in 1 .. n
    BY <1>2
  <2>3. \A i \in 1 .. n : IsRows(r[i]) <=> IsRows(q[i])
    OBVIOUS
  <2>4. \A i \in (j + 1) .. n : ~IsRows(r[i])
    BY <1>2, <2>2, <2>3, Zenon
  <2>5. QED
    BY <2>1, <2>4 DEF EmptyAfter
<1>3. QED
  BY <1>1, <1>2 DEF EmptyAfter

\* Running the first of them takes it from the front.
LEMMA EmptyTail ==
  ASSUME NEW s, NEW t, NEW q \in Seq(Posted), q # <<>>, NEW n \in 1 .. Len(q),
         EmptyAfter(s, q, n), Head(q) = "clear" => t = <<>>,
         ~IsRows(Head(q)) /\ s = <<>> => t = <<>>
  PROVE  EmptyAfter(t, Tail(q), n - 1)
<1>1. \A i \in 1 .. n - 1 : Tail(q)[i] = q[i + 1] /\ i + 1 \in 2 .. n
  OBVIOUS
<1>2. Head(q) = q[1]
  OBVIOUS
<1>3. CASE s = <<>> /\ \A i \in 1 .. n : ~IsRows(q[i])
  BY <1>1, <1>2, <1>3 DEF EmptyAfter
<1>4. ASSUME NEW j \in 1 .. n, q[j] = "clear", \A i \in (j + 1) .. n : ~IsRows(q[i])
      PROVE  EmptyAfter(t, Tail(q), n - 1)
  <2>1. CASE j = 1
    BY <1>1, <1>2, <1>4, <2>1 DEF EmptyAfter
  <2>2. CASE j # 1
    <3>1. /\ j - 1 \in 1 .. n - 1 /\ Tail(q)[j - 1] = "clear"
          /\ \A i \in (j - 1 + 1) .. n - 1 : ~IsRows(Tail(q)[i])
      BY <1>1, <1>4, <2>2
    <3>2. QED
      BY <3>1 DEF EmptyAfter
  <2>3. QED
    BY <2>1, <2>2
<1>5. QED
  BY <1>3, <1>4 DEF EmptyAfter

LEMMA RowsKeep ==
  ASSUME NEW s, NEW t, NEW q \in Seq(Posted), NEW r \in Seq(Posted), Len(r) = Len(q),
         RowsFindNone(s, q), s = <<>> => t = <<>>,
         \A i \in DOMAIN q : /\ IsRows(r[i]) <=> IsRows(q[i])
                             /\ r[i] = "clear" <=> q[i] = "clear"
  PROVE  RowsFindNone(t, r)
<1> SUFFICES ASSUME NEW i \in DOMAIN r, IsRows(r[i])
             PROVE  EmptyAfter(t, r, i - 1)
  BY DEF RowsFindNone
<1>1. i \in DOMAIN q /\ i - 1 \in Nat /\ \A j \in 1 .. i - 1 : j \in DOMAIN q
  OBVIOUS
<1>2. IsRows(q[i])
  BY <1>1, Zenon
<1>3. EmptyAfter(s, q, i - 1)
  BY <1>1, <1>2 DEF RowsFindNone
<1>4. QED
  BY <1>1, <1>3, EmptyKeeps

LEMMA RowsAppend ==
  ASSUME NEW s, NEW q \in Seq(Posted), NEW e \in Posted, RowsFindNone(s, q),
         IsRows(e) => EmptyAfter(s, q, Len(q))
  PROVE  RowsFindNone(s, Append(q, e))
<1> SUFFICES ASSUME NEW i \in DOMAIN Append(q, e), IsRows(Append(q, e)[i])
             PROVE  EmptyAfter(s, Append(q, e), i - 1)
  BY DEF RowsFindNone
<1>1. i - 1 \in 0 .. Len(q) /\ \A j \in 1 .. i - 1 : Append(q, e)[j] = q[j]
  OBVIOUS
<1>2. EmptyAfter(s, q, i - 1)
  <2>1. CASE i = Len(q) + 1
    BY <2>1
  <2>2. CASE i # Len(q) + 1
    <3>1. i \in DOMAIN q /\ Append(q, e)[i] = q[i]
      BY <2>2
    <3>2. QED
      BY <3>1 DEF RowsFindNone
  <2>3. QED
    BY <2>1, <2>2
<1>3. \A j \in 1 .. i - 1 : /\ IsRows(Append(q, e)[j]) <=> IsRows(q[j])
                            /\ Append(q, e)[j] = "clear" <=> q[j] = "clear"
  BY <1>1 DEF IsRows
<1>4. i - 1 \in Nat
  BY <1>1
<1>5. QED
  BY <1>2, <1>3, <1>4, EmptyKeeps

LEMMA RowsTail ==
  ASSUME NEW s, NEW t, NEW q \in Seq(Posted), q # <<>>, RowsFindNone(s, q),
         Head(q) = "clear" => t = <<>>, ~IsRows(Head(q)) /\ s = <<>> => t = <<>>
  PROVE  RowsFindNone(t, Tail(q))
<1> SUFFICES ASSUME NEW i \in DOMAIN Tail(q), IsRows(Tail(q)[i])
             PROVE  EmptyAfter(t, Tail(q), i - 1)
  BY DEF RowsFindNone
<1>1. i + 1 \in DOMAIN q /\ i \in 1 .. Len(q) /\ Tail(q)[i] = q[i + 1] /\ (i + 1) - 1 = i
  OBVIOUS
<1>2. EmptyAfter(s, q, i)
  BY <1>1 DEF RowsFindNone
<1>3. QED
  BY <1>1, <1>2, EmptyTail

LEMMA TableStep ==
  ASSUME TypeOK, TableInv, [Next]_vars
  PROVE  TableInv'
<1>1. queue \in Seq(Posted) /\ QueueDisturbed \in Seq(Posted) /\ QueueOfGone \in Seq(Posted)
  BY QueueDisturbedType, QueueOfGoneType DEF TypeOK, ViewTypeOK
<1>2. ASSUME queue' = <<>>, shown' = <<>>
      PROVE  TableInv'
  BY <1>2 DEF TableInv, RowsFindNone, EmptyAfter, RowsOnce
<1>3. CASE UiStart \/ Reopen
  <2>1. CASE file = "empty"
    BY <1>2, <1>3, <2>1 DEF UiStart, Reopen, OnCreate, UiEnds
  <2>2. CASE file # "empty"
    <3>1. shown' = <<>> /\ queue' = QueueOfGone
      BY <1>3, <2>2 DEF UiStart, Reopen, OnCreate
    <3>2. \A i \in DOMAIN queue' : ~IsRows(queue'[i])
      BY <3>1, QueueOfGoneType DEF IsRows, TypeOK, ViewTypeOK
    <3>3. QED
      BY <1>1, <3>1, <3>2 DEF TableInv, RowsFindNone, EmptyAfter, RowsOnce
  <2>3. QED
    BY <2>1, <2>2
<1>4. CASE UiKilled
  BY <1>2, <1>4 DEF UiKilled, UiEnds
<1>5. ASSUME UNCHANGED <<front, timer>>, Alive' <=> Alive, queue' = QueueDisturbed,
             shown' \in {<<>>, shown, ShownDisturbed}
      PROVE  TableInv'
  <2>1. /\ shown = <<>> => shown' = <<>>
        /\ Len(shown') <= Len(shown) \/ shown' = <<>>
    BY <1>5, ShownDisturbedType DEF ShownDisturbed, TypeOK, ViewTypeOK
  <2>2. Len(shown') <= 1
    BY <2>1, <1>5, ShownDisturbedType DEF TableInv, RowsOnce, TypeOK, ViewTypeOK
  <2>3. RowsFindNone(shown', queue')
    BY <1>1, <1>5, <2>1, RowsKeep, QueueDisturbedType DEF TableInv
  <2>4. ASSUME EmptyAfter(shown, queue, Len(queue))
        PROVE  EmptyAfter(shown', queue', Len(queue'))
    <3>1. \A i \in 1 .. Len(queue) : /\ IsRows(queue'[i]) <=> IsRows(queue[i])
                                     /\ queue'[i] = "clear" <=> queue[i] = "clear"
      BY <1>1, <1>5, QueueDisturbedType
    <3>2. Len(queue) \in Nat /\ Len(queue') = Len(queue)
      BY <1>1, <1>5, QueueDisturbedType
    <3>3. QED
      BY <2>1, <2>4, <3>1, <3>2, EmptyKeeps
  <2>5. QED
    BY <1>5, <2>2, <2>3, <2>4 DEF TableInv, RowsOnce
<1>6. CASE Delete
  BY <1>5, <1>6 DEF Delete, uiVars, Alive
<1>7. ASSUME NEW p \in Packages \cup {NoPackage}, Choose(p) \/ ChooseUnsaved(p)
      PROVE  TableInv'
  BY <1>5, <1>7 DEF Choose, ChooseUnsaved, Alive
<1>8. CASE RunPosted
  <2>1. CASE Head(queue) \in Parses /\ tmp = "absent"
    BY <1>2, <1>8, <2>1 DEF RunPosted, UiEnds
  <2>2. CASE ~(Head(queue) \in Parses /\ tmp = "absent")
    <3>1. queue # <<>> /\ queue' = Tail(queue) /\ UNCHANGED uiVars
      BY <1>8, <2>2 DEF RunPosted
    <3>2. /\ Head(queue) = "clear" => shown' = <<>>
          /\ ~IsRows(Head(queue)) => shown' \in {<<>>, shown}
          /\ \/ shown' \in {<<>>, shown}
             \/ \E e : shown' = Append(shown, e)
      BY <1>8, <2>2 DEF RunPosted, IsRows
    <3>3. ASSUME IsRows(Head(queue))
          PROVE  shown = <<>>
      <4>1. 1 \in DOMAIN queue /\ Head(queue) = queue[1]
        BY <1>1, <3>1
      <4>2. EmptyAfter(shown, queue, 1 - 1)
        BY <3>3, <4>1 DEF TableInv, RowsFindNone
      <4>3. QED
        BY <4>2 DEF EmptyAfter
    <3>4. Len(shown') <= 1
      <4>1. CASE IsRows(Head(queue))
        <5>1. \A e : Len(Append(shown, e)) = 1
          BY <3>3, <4>1
        <5>2. QED
          BY <3>2, <3>3, <4>1, <5>1
      <4>2. CASE ~IsRows(Head(queue))
        BY <3>2, <4>2 DEF TableInv, RowsOnce
      <4>3. QED
        BY <4>1, <4>2
    <3>5. RowsFindNone(shown', queue')
      BY <1>1, <3>1, <3>2, RowsTail DEF TableInv
    <3>6. ASSUME EmptyAfter(shown, queue, Len(queue))
          PROVE  EmptyAfter(shown', queue', Len(queue'))
      <4>1. Len(queue) \in 1 .. Len(queue) /\ Len(queue') = Len(queue) - 1
        BY <1>1, <3>1
      <4>2. QED
        BY <1>1, <3>1, <3>2, <3>6, <4>1, EmptyTail
    <3>7. QED
      BY <3>1, <3>4, <3>5, <3>6 DEF TableInv, RowsOnce, uiVars, Alive
  <2>3. QED
    BY <2>1, <2>2
<1>9. ASSUME NEW a \in Activities, Tick(a) \/ Post(a)
      PROVE  TableInv'
  <2>1. UNCHANGED <<ui, front, shown>> /\ front > 0 /\ front \in Activities
    BY <1>9 DEF Tick, Post, TypeOK, UiTypeOK, Alive, Activities
  <2>2. ASSUME NEW e \in Posted, queue' = Append(queue, e),
               IsRows(e) => EmptyAfter(shown, queue, Len(queue)),
               \/ e = "clear" \/ timer'[front] = "wait"
               \/ ~IsRows(e) /\ timer'[front] = timer[front]
        PROVE  TableInv'
    <3>1. RowsFindNone(shown', queue')
      BY <1>1, <2>1, <2>2, RowsAppend DEF TableInv
    <3>2. ASSUME timer'[front] # "wait", timer'[front] \in {"copy", "copying", "post"}, Alive
          PROVE  EmptyAfter(shown', queue', Len(queue'))
      <4>1. Len(queue') = Len(queue) + 1 /\ Len(queue) \in Nat /\ queue'[Len(queue')] = e
            /\ \A i \in 1 .. Len(queue) : queue'[i] = queue[i]
        BY <1>1, <2>2
      <4>2. CASE e = "clear"
        BY <4>1, <4>2 DEF EmptyAfter
      <4>3. CASE e # "clear"
        <5>1. ~IsRows(e) /\ EmptyAfter(shown, queue, Len(queue))
          BY <2>2, <3>2, <4>3 DEF TableInv
        <5>2. EmptyAfter(shown, queue', Len(queue))
          BY <4>1, <5>1, EmptyKeeps
        <5>3. EmptyAfter(shown, queue', Len(queue) + 1)
          BY <4>1, <5>1, <5>2 DEF EmptyAfter
        <5>4. QED
          BY <2>1, <4>1, <5>3
      <4>4. QED
        BY <4>2, <4>3
    <3>3. QED
      BY <2>1, <3>1, <3>2 DEF TableInv, RowsOnce, Alive
  <2>3. CASE Tick(a) /\ a = front
    BY <2>2, <2>3 DEF Tick, Posted, IsRows
  <2>4. CASE Tick(a) /\ a # front
    <3>1. queue' = queue /\ timer'[front] = timer[front]
      BY <2>1, <2>4 DEF Tick, TypeOK, UiTypeOK
    <3>2. QED
      BY <2>1, <3>1 DEF TableInv, RowsOnce, Alive
  <2>5. CASE Post(a) /\ a # front
    <3>1. queue' = Append(queue, "old") /\ timer'[front] = timer[front]
      BY <2>1, <2>5 DEF Post, TypeOK, UiTypeOK
    <3>2. QED
      BY <2>2, <3>1 DEF Posted, IsRows
  <2>6. CASE Post(a) /\ a = front
    <3>1. \E e \in {"rows", "doubtful"} : queue' = Append(queue, e)
      BY <2>6 DEF Post
    <3>2. timer[front] = "post" /\ timer'[front] = "wait"
      BY <2>1, <2>6 DEF Post, TypeOK, UiTypeOK
    <3>3. EmptyAfter(shown, queue, Len(queue))
      BY <2>1, <3>2 DEF TableInv, TypeOK, UiTypeOK
    <3>4. QED
      BY <2>2, <3>1, <3>2, <3>3 DEF Posted
  <2>7. QED
    BY <1>9, <2>3, <2>4, <2>5, <2>6
<1>10. ASSUME NEW a \in Activities, CopyBegins(a) \/ CopyEnds(a)
       PROVE  TableInv'
  <2>1. /\ UNCHANGED <<ui, front, shown>> /\ queue' \in {queue, QueueDisturbed}
        /\ timer[a] \in {"copy", "copying"}
        /\ \E s \in {"copying", "post"} : timer' = [timer EXCEPT ![a] = s]
    BY <1>10 DEF CopyBegins, CopyEnds, view
  <2>2. /\ front \in Activities
        /\ timer'[front] \in {"copy", "copying", "post"} =>
             timer[front] \in {"copy", "copying", "post"}
    BY <2>1 DEF TypeOK, UiTypeOK, Alive, Activities
  <2>3. CASE queue' = queue
    BY <2>1, <2>2, <2>3 DEF TableInv, RowsOnce, Alive
  <2>4. CASE queue' = QueueDisturbed
    <3>1. \A i \in DOMAIN queue : /\ IsRows(queue'[i]) <=> IsRows(queue[i])
                                  /\ queue'[i] = "clear" <=> queue[i] = "clear"
      BY <1>1, <2>4, QueueDisturbedType
    <3>2. RowsFindNone(shown', queue')
      BY <1>1, <2>1, <2>4, <3>1, QueueDisturbedType, RowsKeep DEF TableInv
    <3>3. ASSUME EmptyAfter(shown, queue, Len(queue))
          PROVE  EmptyAfter(shown', queue', Len(queue'))
      <4>1. Len(queue) \in Nat /\ Len(queue') = Len(queue) /\ DOMAIN queue = 1 .. Len(queue)
        BY <1>1, <2>4, QueueDisturbedType
      <4>2. QED
        BY <2>1, <3>1, <3>3, <4>1, EmptyKeeps
    <3>4. QED
      BY <2>1, <2>2, <3>2, <3>3 DEF TableInv, RowsOnce, Alive
  <2>5. QED
    BY <2>1, <2>3, <2>4
<1>11. ASSUME UNCHANGED <<front, timer, queue, shown>>, Alive' => Alive
       PROVE  TableInv'
  BY <1>11 DEF TableInv, RowsOnce
<1>12. CASE SaveWrite \/ Upk
  BY <1>11, <1>12 DEF SaveWrite, Upk, uiVars, view, Alive
<1>13. ASSUME NEW q \in Processes, Start(q) \/ Die(q) \/ Dump(q)
       PROVE  TableInv'
  BY <1>11, <1>13
  DEF Start, Die, Dump, ReadConfig, MakeDir, InfoTrunc, InfoWrite, DumpEnds, uiVars, view, Alive
<1>14. CASE UNCHANGED vars
  BY <1>11, <1>14 DEF vars, uiVars, view, Alive
<1>15. QED
  BY <1>3, <1>4, <1>6, <1>7, <1>8, <1>9, <1>10, <1>12, <1>13, <1>14 DEF Next, Ui, Timer

\* The results that are awaited are the chosen package's, and so are those shown.
LEMMA SourceStep ==
  ASSUME TypeOK, CopyingInv, SourceInv, [Next]_vars
  PROVE  SourceInv'
<1> USE DEF Exists
<1>1. queue \in Seq(Posted)
  BY DEF TypeOK, ViewTypeOK
<1>2. ASSUME ~calm', \A i \in DOMAIN queue' : queue'[i] # "rows",
             \A i \in DOMAIN shown' : ~shown'[i].calm
      PROVE  SourceInv'
  BY <1>2 DEF SourceInv, Awaited, RowsRight
<1>3. ASSUME NEW how, UiEnds(how)
      PROVE  SourceInv'
  BY <1>2, <1>3 DEF UiEnds
<1>4. CASE UiStart \/ Reopen
  <2>1. CASE file = "empty"
    BY <1>3, <1>4, <2>1 DEF UiStart, Reopen, OnCreate
  <2>2. CASE file # "empty"
    <3>1. shown' = <<>> /\ queue' = QueueOfGone /\ ~calm'
      BY <1>4, <2>2 DEF UiStart, Reopen, OnCreate
    <3>2. \A i \in DOMAIN queue' : queue'[i] # "rows"
      BY <1>1, <3>1, QueueOfGoneType
    <3>3. QED
      BY <1>2, <3>1, <3>2
  <2>3. QED
    BY <2>1, <2>2
<1>5. CASE UiKilled
  BY <1>3, <1>5 DEF UiKilled
<1>6. CASE Delete
  BY <1>1, <1>2, <1>6, QueueDisturbedType DEF Delete
<1>7. ASSUME NEW p \in Packages \cup {NoPackage}, Choose(p) \/ ChooseUnsaved(p)
      PROVE  SourceInv'
  <2>1. queue' = QueueDisturbed /\ shown' = ShownDisturbed /\ ~calm'
    BY <1>7 DEF Choose, ChooseUnsaved
  <2>2. \A i \in DOMAIN shown' : ~shown'[i].calm
    BY <2>1, ShownDisturbedType DEF TypeOK, ViewTypeOK
  <2>3. QED
    BY <1>1, <1>2, <2>1, <2>2, QueueDisturbedType
<1>8. CASE RunPosted
  <2>1. CASE Head(queue) \in Parses /\ tmp = "absent"
    BY <1>3, <1>8, <2>1 DEF RunPosted
  <2>2. CASE ~(Head(queue) \in Parses /\ tmp = "absent")
    <3>1. /\ queue # <<>> /\ queue' = Tail(queue)
          /\ UNCHANGED <<uiVars, calm, copy, target>>
      BY <1>8, <2>2 DEF RunPosted
    <3>2. Awaited' => Awaited
      BY <1>1, <3>1 DEF Awaited, uiVars
    <3>3. \/ shown' \in {<<>>, shown}
          \/ tmp # "cut" /\ shown' = Append(shown, [of |-> tmp, calm |-> Head(queue) = "rows"])
      BY <1>8, <2>2 DEF RunPosted
    <3>4. RowsRight'
      <4>1. CASE shown' \in {<<>>, shown}
        BY <3>1, <4>1 DEF SourceInv, RowsRight, uiVars
      <4>2. CASE tmp # "cut" /\ shown' = Append(shown, [of |-> tmp, calm |-> Head(queue) = "rows"])
        <5>1. Head(queue) = "rows" => tmp = chosen[front]
          BY <1>1, <3>1, <4>2 DEF SourceInv, Awaited
        <5>2. DOMAIN shown = 1 .. Len(shown) /\ Len(shown) \in Nat
          BY LenProperties DEF TypeOK, ViewTypeOK
        <5>3. /\ DOMAIN shown' = 1 .. Len(shown) + 1
              /\ \A i \in 1 .. Len(shown) : shown'[i] = shown[i]
              /\ shown'[Len(shown) + 1] = [of |-> tmp, calm |-> Head(queue) = "rows"]
          BY <4>2, <5>2, AppendProperties DEF TypeOK, ViewTypeOK
        <5>4. ASSUME NEW i \in DOMAIN shown', shown'[i].calm
              PROVE  shown'[i].of = chosen[front]
          <6>1. CASE i = Len(shown) + 1
            <7>1. shown'[i] = [of |-> tmp, calm |-> Head(queue) = "rows"]
              BY <5>3, <6>1
            <7>2. shown'[i].calm = (Head(queue) = "rows") /\ shown'[i].of = tmp
              BY <7>1
            <7>3. QED
              BY <5>1, <5>4, <7>2
          <6>2. CASE i \in 1 .. Len(shown)
            BY <5>2, <5>3, <5>4, <6>2 DEF SourceInv, RowsRight
          <6>3. QED
            BY <5>2, <5>3, <5>4, <6>1, <6>2
        <5>5. QED
          BY <3>1, <5>4 DEF RowsRight, uiVars
      <4>3. QED
        BY <3>3, <4>1, <4>2
    <3>5. QED
      BY <3>1, <3>2, <3>4 DEF SourceInv, uiVars, copy, target
  <2>3. QED
    BY <2>1, <2>2
<1>9. ASSUME NEW a \in Activities, Timer(a)
      PROVE  SourceInv'
  <2>1. /\ UNCHANGED <<ui, front, chosen, shown, info>> /\ front \in Activities
        /\ timer[a] # "off"
    BY <1>9 DEF Timer, Tick, CopyBegins, CopyEnds, Post, view, target, TypeOK, UiTypeOK, Alive,
                Activities
  <2>2. RowsRight'
    BY <2>1 DEF SourceInv, RowsRight
  <2>3. CASE Tick(a)
    <3>1. UNCHANGED <<tmp, source>> /\ \A b \in Activities : timer'[b] = "copying" => timer[b] = "copying"
      BY <2>3 DEF Tick, copy, TypeOK, UiTypeOK
    <3>2. Awaited' => Awaited
      <4>1. (\E i \in DOMAIN queue' : queue'[i] = "rows") => \E i \in DOMAIN queue : queue[i] = "rows"
        <5>1. queue' = queue \/ queue' = Append(queue, "clear")
          BY <2>3 DEF Tick
        <5>2. QED
          BY <1>1, <5>1
      <4>2. calm' /\ timer'[front'] \in {"copying", "post"} => calm /\ timer[front] \in {"copying", "post"}
        <5>1. CASE a = front
          BY <2>1, <2>3, <5>1 DEF Tick, TypeOK, UiTypeOK
        <5>2. CASE a # front
          BY <2>1, <2>3, <5>2 DEF Tick, TypeOK, UiTypeOK
        <5>3. QED
          BY <5>1, <5>2
      <4>3. QED
        BY <4>1, <4>2 DEF Awaited
    <3>3. calm' /\ timer'[front'] = "copy" => chosen[front] \in Packages /\ Exists(chosen[front])
      <4>1. CASE a = front
        BY <2>1, <2>3, <4>1 DEF Tick, TypeOK, UiTypeOK
      <4>2. CASE a # front
        <5>1. calm' = calm /\ timer'[front'] = timer[front]
          BY <2>1, <2>3, <4>2 DEF Tick, TypeOK, UiTypeOK
        <5>2. QED
          BY <5>1 DEF SourceInv
      <4>3. QED
        BY <4>1, <4>2
    <3>4. QED
      BY <2>1, <2>2, <3>1, <3>2, <3>3 DEF SourceInv
  <2>4. CASE CopyBegins(a)
    <3>1. CASE chosen[a] # NoPackage /\ Exists(chosen[a])
      <4>1. tmp' = "cut" /\ source' = chosen[a] /\ timer' = [timer EXCEPT ![a] = "copying"]
        BY <2>4, <3>1 DEF CopyBegins
      <4>2. CASE chosen[a] # chosen[front]
        <5>1. queue' = QueueDisturbed /\ ~calm'
          BY <2>4, <3>1, <4>2 DEF CopyBegins
        <5>2. ~Awaited'
          BY <1>1, <5>1, QueueDisturbedType DEF Awaited
        <5>3. QED
          BY <2>2, <5>1, <5>2 DEF SourceInv
      <4>3. CASE chosen[a] = chosen[front]
        <5>1. UNCHANGED <<queue, calm>>
          BY <2>4, <3>1, <4>3 DEF CopyBegins
        <5>2. timer'[front] = "copy" => timer[front] = "copy"
          BY <2>1, <4>1 DEF TypeOK, UiTypeOK
        <5>3. QED
          BY <2>1, <2>2, <4>1, <4>3, <5>1, <5>2 DEF SourceInv
      <4>4. QED
        BY <4>2, <4>3
    <3>2. CASE ~(chosen[a] # NoPackage /\ Exists(chosen[a]))
      <4>1. UNCHANGED <<tmp, source, queue, calm>> /\ timer' = [timer EXCEPT ![a] = "post"]
            /\ timer[a] = "copy"
        BY <2>4, <3>2 DEF CopyBegins, copy
      <4>2. ~(a = front /\ calm)
        BY <3>2, <4>1, PackageAssumption DEF SourceInv
      <4>3. calm => timer'[front] = timer[front]
        BY <2>1, <4>1, <4>2 DEF TypeOK, UiTypeOK
      <4>4. \A b \in Activities : timer'[b] = "copying" => timer[b] = "copying"
        BY <4>1 DEF TypeOK, UiTypeOK
      <4>5. QED
        BY <2>1, <2>2, <4>1, <4>3, <4>4 DEF SourceInv, Awaited
    <3>3. QED
      BY <3>1, <3>2
  <2>5. CASE CopyEnds(a)
    <3>1. /\ UNCHANGED <<queue, calm>> /\ timer' = [timer EXCEPT ![a] = "post"]
          /\ timer[a] = "copying" /\ tmp' \in {source, "cut"}
      BY <2>5 DEF CopyEnds, view
    <3>2. Awaited' => Awaited
      BY <2>1, <3>1 DEF Awaited, TypeOK, UiTypeOK
    <3>3. \A b \in Activities : timer'[b] # "copying"
      BY <3>1 DEF CopyingInv, TypeOK, UiTypeOK
    <3>4. timer'[front] = "copy" => timer[front] = "copy"
      BY <2>1, <3>1 DEF TypeOK, UiTypeOK
    <3>5. QED
      BY <2>1, <2>2, <3>1, <3>2, <3>3, <3>4 DEF SourceInv
  <2>6. CASE Post(a)
    <3>1. /\ UNCHANGED copy /\ timer' = [timer EXCEPT ![a] = "wait"] /\ timer[a] = "post"
          /\ calm' = (calm /\ a # front)
          /\ queue' = Append(queue, IF a # front THEN "old" ELSE IF calm THEN "rows" ELSE "doubtful")
      BY <2>6 DEF Post
    <3>2. /\ \A b \in Activities : timer'[b] = "copying" => timer[b] = "copying"
          /\ timer'[front] \in {timer[front], "wait"}
      BY <2>1, <3>1 DEF TypeOK, UiTypeOK
    <3>3. calm' => calm
      BY <3>1
    <3>4. (\E i \in DOMAIN queue' : queue'[i] = "rows") => Awaited
      <4>1. CASE a = front /\ calm
        BY <2>1, <3>1, <4>1 DEF Awaited
      <4>2. CASE ~(a = front /\ calm)
        <5>1. \E e \in {"old", "doubtful"} : queue' = Append(queue, e)
          BY <3>1, <4>2
        <5>2. QED
          BY <1>1, <5>1 DEF Awaited
      <4>3. QED
        BY <4>1, <4>2
    <3>5. Awaited' => Awaited
      BY <2>1, <3>2, <3>3, <3>4 DEF Awaited
    <3>6. QED
      BY <2>1, <2>2, <3>1, <3>2, <3>3, <3>5 DEF SourceInv, copy
  <2>7. QED
    BY <1>9, <2>3, <2>4, <2>5, <2>6 DEF Timer
<1>10. ASSUME UNCHANGED <<front, chosen, timer, view, copy>>,
              \A p \in Packages : Exists(p) => Exists(p)'
       PROVE  SourceInv'
  BY <1>10 DEF SourceInv, Awaited, RowsRight, view, copy
<1>11. CASE SaveWrite \/ Upk
  BY <1>10, <1>11 DEF SaveWrite, Upk, uiVars, target
<1>12. ASSUME NEW q \in Processes, Start(q) \/ Die(q) \/ Dump(q)
       PROVE  SourceInv'
  <2>1. UNCHANGED <<front, chosen, timer, view, copy>>
    BY <1>12 DEF Start, Die, Dump, ReadConfig, MakeDir, InfoTrunc, InfoWrite, DumpEnds, uiVars
  <2>2. \A p \in Packages : Exists(p) => Exists(p)'
    BY <1>12 DEF Start, Die, Dump, ReadConfig, MakeDir, InfoTrunc, InfoWrite, DumpEnds, TypeOK, TargetTypeOK
  <2>3. QED
    BY <1>10, <2>1, <2>2
<1>13. CASE UNCHANGED vars
  BY <1>10, <1>13 DEF vars, uiVars, target
<1>14. QED
  BY <1>4, <1>5, <1>6, <1>7, <1>8, <1>9, <1>11, <1>12, <1>13 DEF Next, Ui

-----------------------------------------------------------------------------
LEMMA InitIInv == Init => IInv
<1> SUFFICES ASSUME Init
             PROVE  IInv
  OBVIOUS
<1>1. CopyingInv /\ FileInv /\ CrashHasCause /\ CopyInv
  BY DEF Init, CopyingInv, FileInv, CrashHasCause, CopyInv
<1>2. TableInv /\ SourceInv
  BY DEF Init, TableInv, RowsFindNone, EmptyAfter, RowsOnce, SourceInv, Awaited, RowsRight
<1>3. QED
  BY <1>1, <1>2, InitType DEF IInv

LEMMA NextIInv == IInv /\ [Next]_vars => IInv'
BY TypeStep, CopyingStep, FileStep, CrashStep, CopyStep, TableStep, SourceStep DEF IInv

\* The inductive invariant holds in every run.
THEOREM IInvHolds == Spec => []IInv
BY InitIInv, NextIInv, PTL DEF Spec

\* Every variable keeps its type.
THEOREM TypesHold == Spec => []TypeOK
<1>1. IInv => TypeOK
  BY DEF IInv
<1>2. QED
  BY <1>1, IInvHolds, PTL

\* UpkConfig.load, in a process that UPK started as the target, finds the package in
\* the file, unless the choice could not be saved, or was saved again since.
THEOREM UpkDumpsHolds == Spec => []UpkDumps
<1>1. IInv => UpkDumps
  BY DEF IInv, FileInv, UpkDumps
<1>2. QED
  BY <1>1, IInvHolds, PTL

\* onCreate and reparse throw only after a save that a death cut off, or a copy that
\* found no file.
THEOREM CrashHasCauseHolds == Spec => []CrashHasCause
<1>1. IInv => CrashHasCause
  BY DEF IInv
<1>2. QED
  BY <1>1, IInvHolds, PTL

\* However many timers there are, reparse adds rows to a table that was cleared.
THEOREM RowsOnceHolds == Spec => []RowsOnce
<1>1. IInv => RowsOnce
  BY DEF IInv, TableInv
<1>2. QED
  BY <1>1, IInvHolds, PTL

\* The rows of an undisturbed tick are the chosen package's.
THEOREM RowsRightHolds == Spec => []RowsRight
<1>1. IInv => RowsRight
  BY DEF IInv, SourceInv
<1>2. QED
  BY <1>1, IInvHolds, PTL

-----------------------------------------------------------------------------
(* The results are shown, if each package that is followed has one process. *)

OneProcess == \A q \in Processes : MainProcess[PackageOf[q]] = q

\* What a process that UPK started has saved is there, and whole between two saves.
HasSaved(q) ==
  /\ proc[q] # "off"
  /\ info[PackageOf[q]] = "absent" => proc[q] \in {"bind", "sleep"}
  /\ info[PackageOf[q]] = "unsaved" => proc[q] \in {"bind", "sleep", "load"}
  /\ info[PackageOf[q]] = "cut" => proc[q] \in {"bind", "sleep", "load", "saving"}

DueInv == \A q \in due : HasSaved(q)

\* A process of another package does not touch the file.
LEMMA DueStep ==
  ASSUME OneProcess, TypeOK, FileInv, DueInv, [Next]_vars
  PROVE  DueInv'
<1> SUFFICES ASSUME NEW q \in due'
             PROVE  HasSaved(q)'
  BY DEF DueInv
<1> USE PackageAssumption
<1>0. due' \subseteq Processes /\ due \subseteq Processes
  BY TargetTypeStep DEF TypeOK, TargetTypeOK
<1>1. CASE UNCHANGED target
  BY <1>1 DEF target, DueInv, HasSaved
<1>2. CASE Upk
  <2>1. chosen[front] \in Packages
    BY <1>2 DEF Upk, TypeOK, UiTypeOK, Alive, Activities
  <2>2. CASE q \in Stopped(chosen[front])
    BY <1>0, <1>2, <2>1, <2>2 DEF Upk, OneProcess, Stopped, HasSaved
  <2>3. CASE q \notin Stopped(chosen[front])
    BY <1>0, <1>2, <2>1, <2>3 DEF Upk, Stopped, DueInv, HasSaved, TypeOK, TargetTypeOK
  <2>4. QED
    BY <2>2, <2>3
<1>3. Delete \/ (\E p \in Packages \cup {NoPackage} : Choose(p) \/ ChooseUnsaved(p)) => due' = {}
  BY DEF Delete, Choose, ChooseUnsaved
<1>4. ASSUME NEW r \in Processes, Start(r) \/ Die(r) \/ Dump(r)
      PROVE  HasSaved(q)'
  <2>1. q \in due /\ (Die(r) => q # r)
    BY <1>0, <1>4 DEF Start, Die, Dump, ReadConfig, MakeDir, InfoTrunc, InfoWrite, DumpEnds
  <2>2. HasSaved(q)
    BY <2>1 DEF DueInv
  <2>3. CASE q # r
    <3>1. PackageOf[q] # PackageOf[r] /\ PackageOf[q] \in Packages
      BY <1>0, <2>3 DEF OneProcess
    <3>2. proc'[q] = proc[q] /\ info'[PackageOf[q]] = info[PackageOf[q]]
      BY <1>0, <1>4, <2>3, <3>1 DEF Start, Die, Dump, ReadConfig, MakeDir, InfoTrunc, InfoWrite, DumpEnds,
         Becomes, TypeOK, TargetTypeOK
    <3>3. QED
      BY <2>2, <3>2 DEF HasSaved
  <2>4. CASE q = r
    BY <1>0, <1>4, <2>1, <2>2, <2>4 DEF Exists, Start, Dump, ReadConfig, MakeDir, InfoTrunc, InfoWrite, DumpEnds,
       Becomes, FileInv, TypeOK, TargetTypeOK, HasSaved
  <2>5. QED
    BY <2>3, <2>4
<1>5. UiStart \/ Reopen \/ UiKilled \/ SaveWrite \/ RunPosted => UNCHANGED target
  BY DEF UiStart, Reopen, OnCreate, UiEnds, UiKilled, SaveWrite, RunPosted, target
<1>6. ASSUME NEW a \in Activities, Timer(a)
      PROVE  UNCHANGED target
  BY <1>6 DEF Timer, Tick, CopyBegins, CopyEnds, Post
<1>7. QED
  BY <1>1, <1>2, <1>3, <1>4, <1>5, <1>6 DEF Next, Ui, vars

-----------------------------------------------------------------------------
\* While a package is dumping and left alone.
Undisturbed(p) == IInv /\ DueInv /\ Dumping(p)

Main(p) == proc[MainProcess[p]]

\* What another process does is not seen.
Unseen(p) ==
  /\ UNCHANGED <<timer, view, copy>>
  /\ info'[p] = info[p]
  /\ Main(p)' = Main(p)

\* While a package is dumping its process is one, the interface does not save, and
\* there is one timer, which copies this package's file.
LEMMA UndisturbedState ==
  ASSUME OneProcess, NEW p \in Packages, Undisturbed(p)
  PROVE  /\ ui = "idle" /\ 1 \in Activities
         /\ MainProcess[p] \in Processes /\ PackageOf[MainProcess[p]] = p
         /\ Main(p) \in {"bind", "sleep", "load", "saving", "dump", "ended"}
         /\ Main(p) = "ended" => info[p] = "whole"
         /\ timer[1] \in {"wait", "copy", "copying", "post"}
         /\ \A a \in Activities : a # 1 => timer[a] = "off"
<1>1. 1 \in Activities
  BY BoundAssumption DEF Activities
<1>2. MainProcess[p] \in Processes /\ PackageOf[MainProcess[p]] = p
  BY PackageAssumption DEF Undisturbed, Dumping, IInv, TypeOK, TargetTypeOK
<1>3. ui = "idle" /\ Main(p) # "quiet"
  BY <1>2 DEF Undisturbed, Dumping, IInv, FileInv, TypeOK, UiTypeOK, Alive, Main
<1>4. Main(p) \in {"bind", "sleep", "load", "saving", "dump", "ended"}
  BY <1>2, <1>3 DEF Undisturbed, Dumping, DueInv, HasSaved, IInv, TypeOK, TargetTypeOK, Main
<1>5. Main(p) = "ended" => info[p] = "whole"
  BY <1>2 DEF Undisturbed, Dumping, DueInv, HasSaved, IInv, TypeOK, TargetTypeOK, Main
<1>6. timer[1] \in {"wait", "copy", "copying", "post"}
  BY <1>1 DEF Undisturbed, Dumping, IInv, TypeOK, UiTypeOK, Activities
<1>7. \A a \in Activities : a # 1 => timer[a] = "off"
  BY DEF Undisturbed, Dumping, IInv, TypeOK, UiTypeOK, Activities
<1>8. QED
  BY <1>1, <1>2, <1>3, <1>4, <1>5, <1>6, <1>7

\* What can happen meanwhile.
LEMMA UndisturbedSteps ==
  ASSUME OneProcess, NEW p \in Packages, Undisturbed(p), Undisturbed(p)', [Next]_vars, [LeftAlone]_vars
  PROVE  \/ RunPosted /\ UNCHANGED <<timer, calm, copy, info, proc>>
         \/ Timer(1) /\ (Tick(1) => queue = <<>>)
         \/ Dump(MainProcess[p])
         \/ Unseen(p)
<1> DEFINE m == MainProcess[p]
<1> USE UndisturbedState
<1>1. CASE UNCHANGED vars
  BY <1>1 DEF vars, uiVars, target, Unseen, Main, view, copy
<1>2. ~(UiStart \/ Reopen \/ UiKilled)
  BY DEF UiStart, Reopen, OnCreate, UiEnds, UiKilled, Undisturbed, Dumping
<1>3. ~(Delete \/ (\E q \in Packages \cup {NoPackage} : Choose(q) \/ ChooseUnsaved(q)))
  BY DEF Delete, Choose, ChooseUnsaved, Undisturbed, Dumping
<1>4. ~SaveWrite
  BY DEF SaveWrite
<1>5. CASE RunPosted
  BY <1>5 DEF RunPosted, UiEnds, Undisturbed, Dumping, uiVars, copy, target
<1>6. ASSUME NEW a \in Activities, Timer(a)
      PROVE  a = 1
  BY <1>6 DEF Timer, Tick, CopyBegins, CopyEnds, Post
<1>7. ASSUME NEW q \in Processes, Start(q) \/ Die(q) \/ Dump(q)
      PROVE  Dump(m) \/ Unseen(p)
  <2>1. CASE q = m
    BY <1>7, <2>1 DEF Start, Die, Main, Undisturbed, Dumping
  <2>2. CASE q # m
    <3>1. PackageOf[q] # p
      BY <2>2 DEF OneProcess
    <3>2. QED
      BY <1>7, <2>2, <3>1 DEF Start, Die, Dump, ReadConfig, MakeDir, InfoTrunc, InfoWrite, DumpEnds,
         Becomes, Unseen, Main, view, copy, uiVars, Undisturbed, IInv, TypeOK, TargetTypeOK
  <2>3. QED
    BY <2>1, <2>2
<1>8. QED
  BY <1>1, <1>2, <1>3, <1>4, <1>5, <1>6, <1>7 DEF Next, Ui, LeftAlone, vars

-----------------------------------------------------------------------------
\* The dump of an undisturbed process comes to its end: it saves until it ends.
LEMMA DumpSteps ==
  ASSUME OneProcess, NEW p \in Packages,
         Undisturbed(p), Undisturbed(p)', [Next]_vars, [LeftAlone]_vars
  PROVE  /\ Main(p) = "bind" => Main(p)' \in {"bind", "sleep"}
         /\ Main(p) = "sleep" => Main(p)' \in {"sleep", "load"}
         /\ Main(p) = "load" => Main(p)' \in {"load", "saving"}
         /\ Main(p) = "saving" => Main(p)' \in {"saving", "dump"}
         /\ Main(p) = "dump" => Main(p)' \in {"dump", "saving", "ended"}
         /\ Main(p) = "ended" => Main(p)' = "ended"
         /\ <<Dump(MainProcess[p])>>_vars /\ Main(p) # "dump" => Main(p)' # Main(p)
         /\ <<DumpEnds(MainProcess[p])>>_vars => Main(p)' = "ended"
<1> DEFINE m == MainProcess[p]
<1>0. /\ m \in Processes /\ m \in due /\ file = PackageOf[m]
      /\ proc \in [Processes -> {"off", "bind", "sleep", "load", "saving", "dump", "quiet", "ended"}]
      /\ info[p] = "absent" => proc[m] \in {"bind", "sleep"}
  BY UndisturbedState DEF Undisturbed, Dumping, FileInv, DueInv, HasSaved, IInv, TypeOK, TargetTypeOK
<1>1. MainProcess' = MainProcess /\ Main(p) = proc[m] /\ Main(p)' = proc'[m]
  BY DEF Main
<1>2. Dump(m) => \/ Main(p) = "bind" /\ Main(p)' = "sleep"
                 \/ Main(p) = "sleep" /\ Main(p)' = "load"
                 \/ Main(p) \in {"load", "dump"} /\ Main(p)' = "saving"
                 \/ Main(p) = "saving" /\ Main(p)' = "dump"
                 \/ Main(p) = "dump" /\ Main(p)' = "ended"
  BY <1>0, <1>1, UndisturbedState DEF Dump, ReadConfig, MakeDir, InfoTrunc, InfoWrite, DumpEnds, Becomes
<1>3. DumpEnds(m) => Main(p)' = "ended"
  BY <1>0, <1>1 DEF DumpEnds, Becomes
<1>4. Timer(1) => Main(p)' = Main(p)
  BY <1>1 DEF Timer, Tick, CopyBegins, CopyEnds, Post, target
<1>5. Dump(m) \/ Main(p)' = Main(p)
  BY <1>1, <1>4, UndisturbedSteps DEF Unseen
<1>6. QED
  BY <1>2, <1>3, <1>5

\* The provers do not look into ENABLED.  That an action is enabled when the conditions
\* written in it hold is the meaning of ENABLED: it changes a variable, and gives a value
\* to every other.
TimerReady(a) ==
  \/ timer[a] = "wait" /\ a = front /\ Len(queue) < MaxQueue
  \/ timer[a] = "copy" /\ \A b \in Activities : timer[b] # "copying"
  \/ timer[a] = "copying"
  \/ timer[a] = "post" /\ Len(queue) < MaxQueue
  => ENABLED <<Timer(a)>>_vars

DumpReady(q) ==
  /\ proc[q] \in {"bind", "sleep", "load", "saving", "dump"} => ENABLED <<Dump(q)>>_vars
  /\ proc[q] = "dump" => ENABLED <<DumpEnds(q)>>_vars

GuardsSuffice ==
  /\ ui = "idle" /\ queue # <<>> => ENABLED <<RunPosted>>_vars
  /\ \A a \in Activities : TimerReady(a)
  /\ \A q \in Processes : DumpReady(q)

\* What the liveness of the results rests on, from the moment when nobody comes between.
LeftDumping(p, m) ==
  /\ []Undisturbed(p) /\ [][Next]_vars /\ [][LeftAlone]_vars /\ []GuardsSuffice
  /\ WF_vars(RunPosted) /\ TimerFairness(1) /\ DumpFairness(m)

LEMMA DumpComesToItsEnd ==
  ASSUME OneProcess, NEW p \in Packages, NEW m \in Processes, MainProcess[p] = m
  PROVE  LeftDumping(p, m) => <>[](Main(p) = "ended")
<1> DEFINE U == Undisturbed(p)
<1>1. U => \/ Main(p) = "bind" \/ Main(p) = "sleep" \/ Main(p) = "load"
           \/ Main(p) = "saving" \/ Main(p) = "dump" \/ Main(p) = "ended"
  BY UndisturbedState
<1>2. U /\ U' /\ [Next]_vars /\ [LeftAlone]_vars /\ Main(p) = "bind" =>
        /\ (Main(p) = "bind")' \/ (Main(p) = "sleep")'
        /\ <<Dump(m)>>_vars => (Main(p) = "sleep")'
  BY DumpSteps
<1>3. U /\ U' /\ [Next]_vars /\ [LeftAlone]_vars /\ Main(p) = "sleep" =>
        /\ (Main(p) = "sleep")' \/ (Main(p) = "load")'
        /\ <<Dump(m)>>_vars => (Main(p) = "load")'
  BY DumpSteps
<1>4. U /\ U' /\ [Next]_vars /\ [LeftAlone]_vars /\ Main(p) = "load" =>
        /\ (Main(p) = "load")' \/ (Main(p) = "saving")'
        /\ <<Dump(m)>>_vars => (Main(p) = "saving")'
  BY DumpSteps
<1>5. U /\ U' /\ [Next]_vars /\ [LeftAlone]_vars /\ Main(p) = "saving" =>
        /\ (Main(p) = "saving")' \/ (Main(p) = "dump")'
        /\ <<Dump(m)>>_vars => (Main(p) = "dump")'
  BY DumpSteps
<1>6. U /\ U' /\ [Next]_vars /\ [LeftAlone]_vars /\ Main(p) = "dump" =>
        (Main(p) = "dump")' \/ (Main(p) = "saving")' \/ (Main(p) = "ended")'
  BY DumpSteps
<1>7. U /\ U' /\ [Next]_vars /\ [LeftAlone]_vars /\ Main(p) = "ended" => (Main(p) = "ended")'
  BY DumpSteps
<1>8. U /\ U' /\ [Next]_vars /\ [LeftAlone]_vars /\ <<DumpEnds(m)>>_vars => (Main(p) = "ended")'
  BY DumpSteps
<1>9. U /\ GuardsSuffice =>
        /\ Main(p) = "bind" \/ Main(p) = "sleep" \/ Main(p) = "load" \/ Main(p) = "saving" =>
             ENABLED <<Dump(m)>>_vars
        /\ Main(p) = "dump" => ENABLED <<DumpEnds(m)>>_vars
  <2>1. GuardsSuffice => DumpReady(m)
    BY DEF GuardsSuffice
  <2>2. Main(p) = proc[m]
    BY DEF Main
  <2>3. QED
    BY <2>1, <2>2 DEF DumpReady
<1>10. QED
  BY <1>1, <1>2, <1>3, <1>4, <1>5, <1>6, <1>7, <1>8, <1>9, PTL DEF LeftDumping, DumpFairness

-----------------------------------------------------------------------------
\* The tick that shows the results, once the dump has ended.  The table is empty, or will
\* be before what is posted next is run.
Fresh == queue = <<"clear">> \/ (queue = <<>> /\ shown = <<>>)

AtWait == timer[1] = "wait"
AtCopy == timer[1] = "copy" /\ calm /\ Fresh
AtCopying(p) == timer[1] = "copying" /\ calm /\ Fresh /\ source = p
AtPost(p) == timer[1] = "post" /\ calm /\ Fresh /\ tmp = p
ToClear(p) == timer[1] = "wait" /\ tmp = p /\ queue = <<"clear", "rows">>
ToShow(p) == timer[1] = "wait" /\ tmp = p /\ queue = <<"rows">> /\ shown = <<>>

\* The dump has ended, and nobody comes between.
Settled(p) == Undisturbed(p) /\ Main(p) = "ended"

\* What the UI thread does when it runs what was posted.
Runs ==
  /\ queue # <<>> /\ queue' = Tail(queue)
  /\ shown' = CASE Head(queue) = "clear" -> <<>>
                [] Head(queue) \in {"rows", "doubtful"} /\ tmp # "cut" ->
                     Append(shown, [of |-> tmp, calm |-> Head(queue) = "rows"])
                [] OTHER -> shown
  /\ UNCHANGED <<timer, calm, copy>>

LEMMA RunPostedRuns ==
  ASSUME NEW p, Undisturbed(p)', RunPosted
  PROVE  Runs
BY DEF Undisturbed, Dumping, RunPosted, UiEnds, Runs, uiVars, copy

LEMMA SettledSteps ==
  ASSUME OneProcess, NEW p \in Packages, Settled(p), Settled(p)', [Next]_vars, [LeftAlone]_vars
  PROVE  \/ Runs
         \/ Timer(1) /\ (Tick(1) => queue = <<>>)
         \/ UNCHANGED <<timer, view, copy>>
<1>1. Undisturbed(p) /\ Undisturbed(p)' /\ Main(p) = "ended"
  BY DEF Settled
<1>2. ~Dump(MainProcess[p])
  BY <1>1 DEF Main, Dump, ReadConfig, MakeDir, InfoTrunc, InfoWrite, DumpEnds
<1>3. QED
  BY <1>1, <1>2, RunPostedRuns, UndisturbedSteps DEF Unseen

\* Empty or not, what was fresh stays so.
LEMMA FreshStays ==
  ASSUME Fresh, Runs \/ UNCHANGED <<timer, view, copy>>
  PROVE  Fresh'
<1>1. CASE Runs
  <2>1. queue = <<"clear">>
    BY <1>1 DEF Fresh, Runs
  <2>2. Head(queue) = "clear" /\ Tail(queue) = <<>>
    BY <2>1
  <2>3. QED
    BY <1>1, <2>2 DEF Runs, Fresh
<1>2. CASE UNCHANGED <<timer, view, copy>>
  BY <1>2 DEF view, Fresh
<1>3. QED
  BY <1>1, <1>2

\* One step of the timer.
LEMMA TimerMoves ==
  ASSUME OneProcess, NEW p \in Packages, Settled(p), Timer(1)
  PROVE  /\ timer[1] = "wait" /\ queue = <<>> => AtCopy'
         /\ timer[1] = "copy" => timer'[1] = "copying" /\ source' = p /\ UNCHANGED view
         /\ timer[1] = "copying" =>
              timer'[1] = "post" /\ (source = p => tmp' = p) /\ UNCHANGED view
         /\ timer[1] = "post" =>
              /\ timer'[1] = "wait" /\ UNCHANGED <<shown, copy>>
              /\ calm => queue' = Append(queue, "rows")
<1>1. /\ front = 1 /\ chosen[1] = p /\ info[p] = "whole" /\ p # NoPackage
      /\ 1 \in Activities /\ timer \in [Activities -> {"off", "wait", "copy", "copying", "post"}]
  BY UndisturbedState, PackageAssumption
     DEF Settled, Undisturbed, Dumping, IInv, TypeOK, UiTypeOK
<1>2. CASE Tick(1)
  <2>1. timer[1] = "wait" /\ timer'[1] = "copy" /\ queue' = Append(queue, "clear")
    BY <1>1, <1>2 DEF Tick, Exists
  <2>2. calm'
    BY <1>1, <1>2, <2>1 DEF Tick
  <2>3. queue = <<>> => queue' = <<"clear">>
    BY <2>1
  <2>4. QED
    BY <2>1, <2>2, <2>3 DEF AtCopy, Fresh
<1>3. CASE CopyBegins(1)
  BY <1>1, <1>3 DEF CopyBegins, Exists, view
<1>4. CASE CopyEnds(1)
  BY <1>1, <1>4 DEF CopyEnds, view
<1>5. CASE Post(1)
  BY <1>1, <1>5 DEF Post, copy
<1>6. QED
  BY <1>2, <1>3, <1>4, <1>5 DEF Timer, Tick, CopyBegins, CopyEnds, Post

\* The timer gets back to its tick, wherever it was.
LEMMA RoundSteps ==
  ASSUME OneProcess, NEW p \in Packages, Settled(p), Settled(p)', [Next]_vars, [LeftAlone]_vars
  PROVE  /\ timer[1] = "copy" =>
              /\ timer'[1] \in {"copy", "copying"}
              /\ <<Timer(1)>>_vars => timer'[1] = "copying"
         /\ timer[1] = "copying" =>
              /\ timer'[1] \in {"copying", "post"}
              /\ <<Timer(1)>>_vars => timer'[1] = "post"
         /\ timer[1] = "post" =>
              /\ timer'[1] \in {"post", "wait"}
              /\ <<Timer(1)>>_vars => timer'[1] = "wait"
<1>1. Runs \/ UNCHANGED <<timer, view, copy>> => timer' = timer
  BY DEF Runs
<1>2. QED
  BY <1>1, TimerMoves, SettledSteps

\* The queue gets shorter, unless the timer makes it longer.
LEMMA RoomSteps ==
  ASSUME OneProcess, NEW p \in Packages, Settled(p), Settled(p)', [Next]_vars, [LeftAlone]_vars,
         timer'[1] = timer[1], timer[1] \in {"wait", "post"}
  PROVE  /\ Len(queue) < MaxQueue => Len(queue') < MaxQueue
         /\ <<RunPosted>>_vars => Len(queue') < MaxQueue
<1>1. queue \in Seq(Posted) /\ Len(queue) <= MaxQueue /\ MaxQueue \in Nat
  BY BoundAssumption DEF Settled, Undisturbed, IInv, TypeOK, ViewTypeOK
<1>2. timer[1] = "wait" /\ Timer(1) => Tick(1)
  BY DEF Timer, CopyBegins, CopyEnds, Post
<1>3. Runs \/ UNCHANGED <<timer, view, copy>>
  BY <1>2, TimerMoves, SettledSteps DEF AtCopy
<1>4. Runs => Len(queue') < Len(queue)
  BY <1>1 DEF Runs
<1>5. <<RunPosted>>_vars => Runs
  BY RunPostedRuns DEF Settled
<1>6. queue \in Seq(Posted) => Len(queue) \in Nat
  OBVIOUS
<1>7. CASE Runs
  <2>1. Len(queue') \in Nat
    BY <1>1, <1>7 DEF Runs
  <2>2. QED
    BY <1>1, <1>4, <1>6, <1>7, <2>1
<1>8. CASE UNCHANGED <<timer, view, copy>>
  BY <1>4, <1>5, <1>7, <1>8 DEF view
<1>9. QED
  BY <1>3, <1>7, <1>8

\* Two things are posted in the order in which they are.
LEMMA AppendPair ==
  ASSUME NEW first, NEW second
  PROVE  Append(<<first>>, second) = <<first, second>>
<1> DEFINE s == Append(<<first>>, second)
<1>1. <<first>> \in Seq({first, second}) /\ <<first, second>> \in Seq({first, second})
  OBVIOUS
<1>2. s \in Seq({first, second}) /\ Len(s) = 2 /\ s[1] = first /\ s[2] = second
  BY <1>1, AppendProperties
<1>3. \A i \in 1 .. 2 : s[i] = <<first, second>>[i]
  BY <1>2
<1>4. QED
  BY <1>1, <1>2, <1>3, SeqEqual

\* The tick finds the file, the copy gets the results, and they are posted after a clear.
LEMMA TickSteps ==
  ASSUME OneProcess, NEW p \in Packages, Settled(p), Settled(p)', [Next]_vars, [LeftAlone]_vars
  PROVE  /\ AtWait =>
              (AtWait' \/ AtCopy') /\ (<<Timer(1)>>_vars => AtCopy')
         /\ AtCopy =>
              (AtCopy' \/ AtCopying(p)') /\ (<<Timer(1)>>_vars => AtCopying(p)')
         /\ AtCopying(p) =>
              (AtCopying(p)' \/ AtPost(p)') /\ (<<Timer(1)>>_vars => AtPost(p)')
         /\ AtPost(p) =>
              /\ AtPost(p)' \/ ToClear(p)' \/ ToShow(p)'
              /\ <<Timer(1)>>_vars => ToClear(p)' \/ ToShow(p)'
<1>0. timer[1] = "wait" /\ Timer(1) => Tick(1)
  BY DEF Timer, CopyBegins, CopyEnds, Post
<1>1. <<Timer(1)>>_vars => Timer(1) /\ (Tick(1) => queue = <<>>)
  BY DEF LeftAlone
<1>2. Runs \/ UNCHANGED <<timer, view, copy>> => UNCHANGED <<timer, calm, copy>>
  BY DEF Runs, view
<1>3. AtWait => (AtWait' \/ AtCopy') /\ (<<Timer(1)>>_vars => AtCopy')
  BY <1>0, <1>1, <1>2, TimerMoves, SettledSteps DEF AtWait
<1>4. Fresh => Fresh' \/ Timer(1)
  BY FreshStays, SettledSteps
<1>5. Fresh /\ UNCHANGED view => Fresh'
  BY DEF Fresh, view
<1>6. ASSUME AtCopy
      PROVE  (AtCopy' \/ AtCopying(p)') /\ (<<Timer(1)>>_vars => AtCopying(p)')
  <2>1. Timer(1) => AtCopying(p)'
    BY <1>5, <1>6, TimerMoves DEF AtCopy, AtCopying, view
  <2>2. Runs \/ UNCHANGED <<timer, view, copy>> => AtCopy' \/ Timer(1)
    BY <1>2, <1>4, <1>6 DEF AtCopy
  <2>3. QED
    BY <2>1, <2>2, SettledSteps
<1>7. ASSUME AtCopying(p)
      PROVE  (AtCopying(p)' \/ AtPost(p)') /\ (<<Timer(1)>>_vars => AtPost(p)')
  <2>1. Timer(1) => AtPost(p)'
    BY <1>5, <1>7, TimerMoves DEF AtCopying, AtPost, view
  <2>2. Runs \/ UNCHANGED <<timer, view, copy>> => AtCopying(p)' \/ Timer(1)
    BY <1>2, <1>4, <1>7 DEF AtCopying, copy
  <2>3. QED
    BY <2>1, <2>2, SettledSteps
<1>8. ASSUME AtPost(p)
      PROVE  /\ AtPost(p)' \/ ToClear(p)' \/ ToShow(p)'
             /\ <<Timer(1)>>_vars => ToClear(p)' \/ ToShow(p)'
  <2>1. ASSUME Timer(1)
        PROVE  ToClear(p)' \/ ToShow(p)'
    <3>1. /\ timer'[1] = "wait" /\ shown' = shown /\ tmp' = p
          /\ queue' = Append(queue, "rows")
      BY <1>8, <2>1, TimerMoves DEF AtPost, copy
    <3>2. CASE queue = <<"clear">>
      <4>1. Append(<<"clear">>, "rows") = <<"clear", "rows">>
        BY AppendPair
      <4>2. QED
        BY <3>1, <3>2, <4>1 DEF ToClear
    <3>3. CASE queue = <<>> /\ shown = <<>>
      <4>1. Append(queue, "rows") = <<"rows">>
        BY <3>3
      <4>2. QED
        BY <3>1, <3>3, <4>1 DEF ToShow
    <3>4. QED
      BY <1>8, <3>2, <3>3 DEF AtPost, Fresh
  <2>2. Runs \/ UNCHANGED <<timer, view, copy>> => AtPost(p)' \/ Timer(1)
    BY <1>2, <1>4, <1>8 DEF AtPost, copy
  <2>3. QED
    BY <2>1, <2>2, SettledSteps
<1>9. QED
  BY <1>3, <1>6, <1>7, <1>8

\* The UI thread runs what was posted before the timer ticks again.
LEMMA ShowSteps ==
  ASSUME OneProcess, NEW p \in Packages, Settled(p), Settled(p)', [Next]_vars, [LeftAlone]_vars
  PROVE  /\ ToClear(p) => (ToClear(p)' \/ ToShow(p)') /\ (<<RunPosted>>_vars => ToShow(p)')
         /\ ToShow(p) =>
              (ToShow(p)' \/ ResultsOf(p)') /\ (<<RunPosted>>_vars => ResultsOf(p)')
<1>1. timer[1] = "wait" /\ queue # <<>> => Runs \/ UNCHANGED <<timer, view, copy>>
  <2>1. timer[1] = "wait" /\ Timer(1) => Tick(1)
    BY DEF Timer, CopyBegins, CopyEnds, Post
  <2>2. QED
    BY <2>1, SettledSteps
<1>2. <<RunPosted>>_vars => Runs
  BY RunPostedRuns DEF Settled
<1>3. ToClear(p) /\ Runs => ToShow(p)'
  <2> SUFFICES ASSUME ToClear(p), Runs
               PROVE  ToShow(p)'
    OBVIOUS
  <2>1. queue = <<"clear", "rows">> /\ Head(queue) = "clear" /\ Tail(queue) = <<"rows">>
    BY DEF ToClear
  <2>2. QED
    BY <2>1 DEF Runs, ToClear, ToShow, copy
<1>4. ToShow(p) /\ Runs => ResultsOf(p)'
  <2> SUFFICES ASSUME ToShow(p), Runs
               PROVE  ResultsOf(p)'
    OBVIOUS
  <2>1. Head(queue) = "rows" /\ tmp # "cut" /\ tmp = p /\ shown = <<>>
    BY PackageAssumption DEF ToShow
  <2>2. shown' = Append(shown, [of |-> p, calm |-> TRUE])
    BY <2>1 DEF Runs
  <2>3. QED
    BY <2>1, <2>2 DEF ResultsOf
<1>5. ToClear(p) \/ ToShow(p) => timer[1] = "wait" /\ queue # <<>>
  BY DEF ToClear, ToShow
<1>6. UNCHANGED <<timer, view, copy>> =>
        (ToClear(p) => ToClear(p)') /\ (ToShow(p) => ToShow(p)')
  BY DEF ToClear, ToShow, view, copy
<1>7. QED
  BY <1>1, <1>2, <1>3, <1>4, <1>5, <1>6

-----------------------------------------------------------------------------
\* When the dump has ended, and nobody comes between.
LeftSettled(p) ==
  /\ []Settled(p) /\ [][Next]_vars /\ [][LeftAlone]_vars /\ []GuardsSuffice
  /\ WF_vars(RunPosted) /\ TimerFairness(1)

Room == Len(queue) < MaxQueue

\* Who can go on.
LEMMA NobodyWaits ==
  ASSUME OneProcess, NEW p \in Packages
  PROVE  Settled(p) /\ GuardsSuffice =>
           /\ timer[1] = "copy" \/ timer[1] = "copying" => ENABLED <<Timer(1)>>_vars
           /\ AtWait /\ Room => ENABLED <<Timer(1)>>_vars
           /\ timer[1] = "post" /\ Room => ENABLED <<Timer(1)>>_vars
           /\ ~Room \/ ToClear(p) \/ ToShow(p) => ENABLED <<RunPosted>>_vars
           /\ AtPost(p) => Room
<1>1. Settled(p) => /\ ui = "idle" /\ front = 1 /\ 1 \in Activities
                    /\ \A b \in Activities : b # 1 => timer[b] = "off"
                    /\ queue \in Seq(Posted)
  BY UndisturbedState DEF Settled, Undisturbed, Dumping, IInv, TypeOK, ViewTypeOK
<1>2. Settled(p) /\ GuardsSuffice => TimerReady(1)
  BY <1>1 DEF GuardsSuffice
<1>3. Settled(p) /\ GuardsSuffice =>
        /\ timer[1] = "copy" \/ timer[1] = "copying" => ENABLED <<Timer(1)>>_vars
        /\ AtWait /\ Room => ENABLED <<Timer(1)>>_vars
        /\ timer[1] = "post" /\ Room => ENABLED <<Timer(1)>>_vars
  <2>1. Settled(p) /\ timer[1] = "copy" => \A b \in Activities : timer[b] # "copying"
    BY <1>1
  <2>2. QED
    BY <1>1, <1>2, <2>1 DEF TimerReady, AtWait, Room
<1>4. ~Room \/ ToClear(p) \/ ToShow(p) => queue # <<>>
  BY BoundAssumption DEF Room, ToClear, ToShow
<1>5. AtPost(p) => Room
  BY BoundAssumption DEF AtPost, Fresh, Room
<1>6. Settled(p) /\ GuardsSuffice /\ queue # <<>> => ENABLED <<RunPosted>>_vars
  BY <1>1 DEF GuardsSuffice
<1>7. QED
  BY <1>3, <1>4, <1>5, <1>6

\* The timer waits again and again.
LEMMA TimerComesRound ==
  ASSUME OneProcess, NEW p \in Packages
  PROVE  LeftSettled(p) => []<>AtWait
<1>1. Settled(p) => timer[1] = "copy" \/ timer[1] = "copying" \/ timer[1] = "post" \/ AtWait
  BY UndisturbedState DEF Settled, AtWait
<1>2. Settled(p) /\ Settled(p)' /\ [Next]_vars /\ [LeftAlone]_vars /\ timer[1] = "copy" =>
        /\ (timer[1] = "copy")' \/ (timer[1] = "copying")'
        /\ <<Timer(1)>>_vars => (timer[1] = "copying")'
  BY RoundSteps
<1>3. Settled(p) /\ Settled(p)' /\ [Next]_vars /\ [LeftAlone]_vars /\ timer[1] = "copying" =>
        /\ (timer[1] = "copying")' \/ (timer[1] = "post")'
        /\ <<Timer(1)>>_vars => (timer[1] = "post")'
  BY RoundSteps
<1>4. Settled(p) /\ Settled(p)' /\ [Next]_vars /\ [LeftAlone]_vars /\ timer[1] = "post" =>
        /\ (timer[1] = "post")' \/ AtWait'
        /\ <<Timer(1)>>_vars => AtWait'
  BY RoundSteps DEF AtWait
<1>5. Settled(p) /\ Settled(p)' /\ [Next]_vars /\ [LeftAlone]_vars
        /\ timer[1] = "post" /\ (timer[1] = "post")' =>
        (Room => Room') /\ (<<RunPosted>>_vars => Room')
  BY RoomSteps DEF Room
<1>6. Settled(p) /\ GuardsSuffice =>
        /\ timer[1] = "copy" \/ timer[1] = "copying" => ENABLED <<Timer(1)>>_vars
        /\ timer[1] = "post" /\ Room => ENABLED <<Timer(1)>>_vars
        /\ ~Room => ENABLED <<RunPosted>>_vars
  BY NobodyWaits
<1>7. LeftSettled(p) => [](timer[1] = "post" => <>AtWait)
  BY <1>4, <1>5, <1>6, PTL DEF LeftSettled, TimerFairness
<1>8. QED
  BY <1>1, <1>2, <1>3, <1>6, <1>7, PTL DEF LeftSettled, TimerFairness

\* From there the results come.
LEMMA ResultsCome ==
  ASSUME OneProcess, NEW p \in Packages
  PROVE  LeftSettled(p) => [](AtWait => <>ResultsOf(p))
<1> DEFINE Posts == ToClear(p) \/ ToShow(p)
<1>1. Settled(p) /\ Settled(p)' /\ [Next]_vars /\ [LeftAlone]_vars /\ AtWait =>
        (AtWait' \/ AtCopy') /\ (<<Timer(1)>>_vars => AtCopy')
  BY TickSteps
<1>2. Settled(p) /\ Settled(p)' /\ [Next]_vars /\ [LeftAlone]_vars /\ AtWait /\ AtWait' =>
        (Room => Room') /\ (<<RunPosted>>_vars => Room')
  BY RoomSteps DEF Room, AtWait
<1>3. Settled(p) /\ Settled(p)' /\ [Next]_vars /\ [LeftAlone]_vars /\ AtCopy =>
        (AtCopy' \/ AtCopying(p)') /\ (<<Timer(1)>>_vars => AtCopying(p)')
  BY TickSteps
<1>4. Settled(p) /\ Settled(p)' /\ [Next]_vars /\ [LeftAlone]_vars /\ AtCopying(p) =>
        (AtCopying(p)' \/ AtPost(p)') /\ (<<Timer(1)>>_vars => AtPost(p)')
  BY TickSteps
<1>5. Settled(p) /\ Settled(p)' /\ [Next]_vars /\ [LeftAlone]_vars /\ AtPost(p) =>
        (AtPost(p)' \/ Posts') /\ (<<Timer(1)>>_vars => Posts')
  BY TickSteps
<1>6. Settled(p) /\ Settled(p)' /\ [Next]_vars /\ [LeftAlone]_vars /\ ToClear(p) =>
        (ToClear(p)' \/ ToShow(p)') /\ (<<RunPosted>>_vars => ToShow(p)')
  BY ShowSteps
<1>7. Settled(p) /\ Settled(p)' /\ [Next]_vars /\ [LeftAlone]_vars /\ ToShow(p) =>
        (ToShow(p)' \/ ResultsOf(p)') /\ (<<RunPosted>>_vars => ResultsOf(p)')
  BY ShowSteps
<1>8. Settled(p) /\ GuardsSuffice =>
        /\ AtWait /\ Room => ENABLED <<Timer(1)>>_vars
        /\ AtCopy \/ AtCopying(p) \/ AtPost(p) => ENABLED <<Timer(1)>>_vars
        /\ ~Room \/ ToClear(p) \/ ToShow(p) => ENABLED <<RunPosted>>_vars
  BY NobodyWaits DEF AtCopy, AtCopying, AtPost
<1>9. Posts => ToClear(p) \/ ToShow(p)
  OBVIOUS
<1> HIDE DEF Posts
<1>10. LeftSettled(p) => [](AtWait => <>AtCopy)
  BY <1>1, <1>2, <1>8, PTL DEF LeftSettled, TimerFairness
<1>11. LeftSettled(p) => [](AtCopy => <>AtPost(p))
  BY <1>3, <1>4, <1>8, PTL DEF LeftSettled, TimerFairness
<1>12. LeftSettled(p) => [](AtPost(p) => <>Posts)
  BY <1>5, <1>8, PTL DEF LeftSettled, TimerFairness
<1>13. LeftSettled(p) => [](Posts => <>ResultsOf(p))
  BY <1>6, <1>7, <1>8, <1>9, PTL DEF LeftSettled, TimerFairness
<1>14. QED
  BY <1>10, <1>11, <1>12, <1>13, PTL

\* The inductive invariant with DueInv.
LEMMA DueInvHolds ==
  ASSUME OneProcess
  PROVE  Spec => [](IInv /\ DueInv)
<1>1. Init => IInv /\ DueInv
  BY InitIInv DEF Init, DueInv
<1>2. IInv /\ DueInv /\ [Next]_vars => (IInv /\ DueInv)'
  BY NextIInv, DueStep DEF IInv
<1>3. QED
  BY <1>1, <1>2, PTL DEF Spec

\* Once UPK was clicked and nobody comes between, the results of the package are shown
\* again and again (MainActivity.java:213-227), if no package has two processes;
\* from GuardsSuffice, the meaning of ENABLED.
THEOREM ResultsAreShown ==
  ASSUME OneProcess
  PROVE  FairSpec /\ []GuardsSuffice => ResultsShown
<1>1. ASSUME NEW p \in Packages
      PROVE  FairSpec /\ []GuardsSuffice =>
               (<>[][LeftAlone]_vars => (<>[]Dumping(p) => []<>ResultsOf(p)))
  <2>1. CASE MainProcess[p] \in Processes
    <3>1. PICK m \in Processes : MainProcess[p] = m
      BY <2>1
    <3>2. LeftDumping(p, m) => <>[](Main(p) = "ended")
      BY <3>1, DumpComesToItsEnd
    <3>3. LeftSettled(p) => []<>ResultsOf(p)
      BY TimerComesRound, ResultsCome, PTL
    <3>4. IInv /\ DueInv /\ Dumping(p) => Undisturbed(p)
      BY DEF Undisturbed
    <3>5. Undisturbed(p) /\ Main(p) = "ended" => Settled(p)
      BY DEF Settled
    <3>6. FairSpec => DumpFairness(m) /\ TimerFairness(1)
      <4>1. (\A u \in Processes : DumpFairness(u)) => DumpFairness(m)
        OBVIOUS
      <4>2. 1 \in Activities
        BY BoundAssumption DEF Activities
      <4>3. (\A u \in Activities : TimerFairness(u)) => TimerFairness(1)
        BY <4>2
      <4>4. QED
        BY <4>1, <4>3, PTL DEF FairSpec
    <3>7. FairSpec /\ []GuardsSuffice =>
            (<>[][LeftAlone]_vars /\ <>[]Dumping(p) => <>LeftDumping(p, m))
      BY <3>4, <3>6, DueInvHolds, PTL
         DEF FairSpec, Spec, LeftDumping, DumpFairness, TimerFairness
    <3>8. LeftDumping(p, m) /\ <>[](Main(p) = "ended") => <>LeftSettled(p)
      BY <3>5, PTL DEF LeftDumping, LeftSettled, TimerFairness
    <3>9. QED
      BY <3>2, <3>3, <3>7, <3>8, PTL
  <2>2. CASE MainProcess[p] \notin Processes
    <3>1. IInv => ~Dumping(p)
      BY <2>2 DEF Dumping, IInv, TypeOK, TargetTypeOK
    <3>2. QED
      BY <3>1, IInvHolds, PTL DEF FairSpec
  <2>3. QED
    BY <2>1, <2>2
<1>2. QED
  BY <1>1 DEF ResultsShown

=============================================================================
