---- MODULE UnpackSession_proofs ----
(***************************************************************************)
(* Proofs about UnpackSession, for every set of dex files, every table     *)
(* size and every number of faults: IInv is inductive, and what follows    *)
(* from it.                                                                *)
(***************************************************************************)
EXTENDS UnpackSession, SequenceTheorems, FiniteSetTheorems, TLAPS

----------------------------------------------------------------------------
(* The inductive invariant behind TypeOK, RecordsIndexed, BlameIsExact,    *)
(* LaterSuccessIsDumped and SuccessSticks: what the memory of the process  *)
(* must look like at each point of the run.                                *)

\* From the choice of a dex file in a slot to the end of its last write.
Busy == Dumping \/ (pc \in {"trunc", "write"} /\ resume = "rebuild")

\* Nothing is being dumped, and restoreLastStatus has turned the statuses.
Settled ==
  \/ pc \in {"refresh", "scan", "done"}
  \/ pc \in {"trunc", "write"} /\ resume # "rebuild"

BusyInv == Busy => dex \in Dex /\ slot < NumSlots

LoadInv == pc \in {"off", "sleep", "load"} => mem = <<>>

\* The entry marked in memory is the one of the dex file being dumped, and
\* cur is its index; an unrecorded dex file has no positive index.
AttemptInv ==
  /\ Busy =>
       /\ \A p \in DOMAIN mem :
            /\ mem[p].status = "Unpack" <=> mem[p].key = KeyOf[dex]
            /\ mem[p].key = KeyOf[dex] => cur = p - 1
       /\ Recorded(mem, KeyOf[dex]) \/ cur <= 0
  /\ Settled => \A p \in DOMAIN mem : mem[p].status # "Unpack"

\* Between two saves the file holds what the memory holds; without the
\* directory there is no file.
SavedInv ==
  /\ dir /\ (Dumping \/ pc \in {"refresh", "scan", "done"}) => disk = mem
  /\ ~dir => disk = <<>>

\* The dump file being written is open, and it is this dex file's.
FileInv ==
  dir /\ pc \in {"raw", "fixed"} =>
    FilesWith(cur) = {[id |-> cur, dex |-> dex, stage |-> "partial"]}

ShownInv ==
  /\ LaterSuccessIsDumped
  /\ dir => \A p \in DOMAIN mem \ {1} : ShownAt(mem, p)

\* A success on disk is a success in the memory that will replace it.
KeptInv ==
  dir /\ pc \notin {"off", "sleep", "load"} =>
    \A p \in DOMAIN disk : disk[p].status = "Success" =>
      p \in DOMAIN mem /\ mem[p].key = disk[p].key /\ mem[p].status = "Success"

IInv ==
  /\ TypeOK
  /\ RecordsIndexed
  /\ BusyInv
  /\ LoadInv
  /\ AttemptInv
  /\ SavedInv
  /\ FileInv
  /\ ShownInv
  /\ KeptInv

----------------------------------------------------------------------------
(* When the app loads its dex files before the thread looks (~LateLoads),  *)
(* the two scans see the same table, and more holds: the inductive         *)
(* invariant behind SuccessIsDumped and NothingLeftWaiting.                *)

Visible(s) == table[s] \in Dex \ Ignored

\* No dex file is out of the snapshot's sight.
CoveredInv == pc \notin {"off", "sleep"} => guard \in {Loaded, NoSnapshot}

\* The first scan records what the second will see.
RecordedInv ==
  pc \notin {"off", "sleep", "load"} =>
    \A s \in Slots : Visible(s) /\ (pc = "add" => s < slot) => Recorded(mem, KeyOf[table[s]])

\* Only what was cut off before its signature has no status.
ErrorInv ==
  \A tab \in {mem, disk} : \A p \in DOMAIN tab : tab[p].status = "Error" => tab[p].key = NoKey

RoundInv ==
  /\ Busy => dex = table[slot] /\ Visible(slot)
  /\ pc = "done" => slot = NumSlots

\* The second scan is at slot, or on its way there.
Scanning ==
  \/ Busy \/ pc \in {"scan", "done"}
  \/ pc \in {"trunc", "write"} /\ resume = "scan"

\* What lies behind the second scan does not wait any more.
PassedInv ==
  Scanning =>
    \A s \in Slots : Visible(s) /\ s < slot =>
      \A p \in DOMAIN mem :
        mem[p].key = KeyOf[table[s]] => mem[p].status \in {"Success", "Fail"}

AllShownInv ==
  /\ SuccessIsDumped
  /\ dir => \A p \in DOMAIN mem : ShownAt(mem, p)

StableInv ==
  /\ IInv
  /\ CoveredInv
  /\ RecordedInv
  /\ ErrorInv
  /\ RoundInv
  /\ PassedInv
  /\ AllShownInv

----------------------------------------------------------------------------
(* The inductive invariant behind ImplementsJob: what the next save will   *)
(* change in information.json.                                             *)

\* new is old and entries that wait.
Extends(new, old) ==
  /\ DOMAIN old \subseteq DOMAIN new
  /\ \A p \in DOMAIN old : new[p] = old[p]
  /\ \A p \in DOMAIN new \ DOMAIN old : new[p].status = "Wait"

AfterRun(s) == IF s = "Unpack" THEN "Fail" ELSE s

\* new is old, extended, as a new run turns it.
Turns(new, old) ==
  /\ DOMAIN old \subseteq DOMAIN new
  /\ \A p \in DOMAIN old : new[p].key = old[p].key
  /\ \/ /\ \A p \in DOMAIN old : new[p].status = AfterRun(old[p].status)
        /\ \A p \in DOMAIN new \ DOMAIN old : new[p].status = "Wait"
     \/ /\ DOMAIN new = DOMAIN old
        /\ \A p \in DOMAIN old :
             /\ old[p].status # "Wait"
             /\ new[p].status =
                  IF AfterRun(old[p].status) = "Fail" THEN "Wait" ELSE old[p].status

\* One entry, about a dex file, goes from one status to another.
Moves(new, old, from, to) ==
  /\ DOMAIN new = DOMAIN old
  /\ \A p \in DOMAIN old : new[p].key = old[p].key
  /\ \E q \in DOMAIN old :
       /\ old[q].key \in Keys /\ old[q].status = from /\ new[q].status = to
       /\ \A p \in DOMAIN old \ {q} : new[p].status = old[p].status

PendingInv ==
  /\ pc = "write" => disk = <<>>
  /\ dir /\ pc = "add" => Extends(mem, disk)
  /\ dir /\ pc = "trunc" =>
       CASE resume = "refresh" -> Turns(mem, disk)
         [] resume = "rebuild" -> /\ Moves(mem, disk, "Wait", "Unpack")
                                  /\ \A p \in DOMAIN disk : disk[p].status # "Unpack"
         [] resume = "scan"    -> Moves(mem, disk, "Unpack", "Success")

JobInv == StableInv /\ PendingInv

----------------------------------------------------------------------------
(* What the proof of AllUnpacked needs besides, if the app loads every     *)
(* dex file that is not ignored each time (Dex \ Ignored \subseteq         *)
(* Resident) and no file is cut off (~MayTear).                            *)

\* While the thread is at work what is always loaded is loaded.
LoadedInv == pc \notin {"off", "sleep"} => Resident \subseteq Loaded

\* Every entry is about a dex file that is not ignored.
KnownInv ==
  \A tab \in {mem, disk} : \A p \in DOMAIN tab :
    \E d \in Dex \ Ignored : tab[p].key = KeyOf[d]

LiveInv == StableInv /\ LoadedInv /\ KnownInv

----------------------------------------------------------------------------
(* What the operations on the table of cookies return and preserve, for    *)
(* every table                                                             *)

\* A table is a function on 1 .. its length.
LEMMA TableShape ==
  ASSUME NEW tab \in Table
  PROVE  /\ Len(tab) \in Nat
         /\ DOMAIN tab = 1 .. Len(tab)
         /\ \A p \in DOMAIN tab : tab[p] \in Entry
BY DEF Table

\* A function on 1 .. n whose values are entries is a table.
LEMMA TableFromFunction ==
  ASSUME NEW n \in Nat, NEW f \in [1 .. n -> Entry]
  PROVE  f \in Table /\ Len(f) = n /\ DOMAIN f = 1 .. n
BY DEF Table

\* In a table with one entry per key, the lookups of UnpackInfo.cpp find the
\* entry of a key wherever it is.
LEMMA LookupFinds ==
  ASSUME NEW tab \in Table, OneEntryPerKey(tab), NEW p \in DOMAIN tab, tab[p].key \in Keys
  PROVE  /\ Recorded(tab, tab[p].key)
         /\ FirstOf(tab, tab[p].key) = p
         /\ CookieIndex(tab, tab[p].key) = tab[p].index
         /\ StatusOf(tab, tab[p].key) = tab[p].status
<1>1. tab[p].key # NoKey
  BY NoKeyAssumption
<1>2. Recorded(tab, tab[p].key)
  BY DEF Recorded
<1>3. \A q \in 1 .. (p - 1) : q \in DOMAIN tab /\ q # p
  BY TableShape
<1>4. \A q \in 1 .. (p - 1) : tab[q].key # tab[p].key
  BY <1>1, <1>3 DEF OneEntryPerKey
<1>5. \A q \in DOMAIN tab : tab[q].key = tab[p].key => q = p
  BY <1>1 DEF OneEntryPerKey
<1>6. FirstOf(tab, tab[p].key) = p
  BY <1>4, <1>5 DEF FirstOf
<1> QED
  BY <1>2, <1>6 DEF CookieIndex, StatusOf

\* In a well indexed table the index of a recorded key is its place, so the
\* answer -1 means that the key is not recorded.
LEMMA IndexIsPlace ==
  ASSUME NEW tab \in Table, WellIndexed(tab), NEW k \in Keys
  PROVE  /\ \A p \in DOMAIN tab : tab[p].key = k => CookieIndex(tab, k) = p - 1
         /\ CookieIndex(tab, k) = -1 <=> ~Recorded(tab, k)
<1>1. \A p \in DOMAIN tab : tab[p].key = k => CookieIndex(tab, k) = p - 1
  <2> TAKE p \in DOMAIN tab
  <2> HAVE tab[p].key = k
  <2> QED
    BY LookupFinds, NoKeyAssumption DEF WellIndexed, IndexedByPlace
<1>2. Recorded(tab, k) => CookieIndex(tab, k) # -1
  BY <1>1, TableShape DEF Recorded
<1> QED
  BY <1>1, <1>2 DEF CookieIndex

\* setCookieStatus changes one status and nothing else.
LEMMA SetCookieStatusProperties ==
  ASSUME NEW tab \in Table, NEW idx \in Int, NEW s \in Status
  PROVE  LET t == SetCookieStatus(tab, idx, s)
         IN  /\ t \in Table
             /\ DOMAIN t = DOMAIN tab
             /\ \A p \in DOMAIN tab : /\ t[p].key = tab[p].key
                                      /\ t[p].index = tab[p].index
                                      /\ t[p].status = IF p = idx + 1 THEN s ELSE tab[p].status
             /\ WellIndexed(tab) => WellIndexed(t)
<1> DEFINE t == SetCookieStatus(tab, idx, s)
<1>1. /\ t \in Table
      /\ DOMAIN t = DOMAIN tab
      /\ \A p \in DOMAIN tab : /\ t[p].key = tab[p].key
                               /\ t[p].index = tab[p].index
                               /\ t[p].status = IF p = idx + 1 THEN s ELSE tab[p].status
  <2>1. CASE idx + 1 \in DOMAIN tab
    <3>1. t = [tab EXCEPT ![idx + 1] = [tab[idx + 1] EXCEPT !.status = s]]
      BY <2>1 DEF SetCookieStatus
    <3>2. [tab[idx + 1] EXCEPT !.status = s] \in Entry
      BY <2>1, TableShape DEF Entry
    <3>3. t \in [1 .. Len(tab) -> Entry]
      BY <3>1, <3>2, TableShape
    <3>4. t \in Table /\ DOMAIN t = DOMAIN tab
      BY <3>3, TableFromFunction, TableShape
    <3>5. \A p \in DOMAIN tab : t[p] = IF p = idx + 1 THEN [tab[p] EXCEPT !.status = s] ELSE tab[p]
      BY <3>1
    <3>6. \A p \in DOMAIN tab : tab[p] \in Entry
      BY TableShape
    <3> QED
      BY <3>4, <3>5, <3>6 DEF Entry
  <2>2. CASE idx + 1 \notin DOMAIN tab
    BY <2>2 DEF SetCookieStatus
  <2> QED
    BY <2>1, <2>2
<1>2. WellIndexed(tab) => WellIndexed(t)
  BY <1>1 DEF WellIndexed, IndexedByPlace, OneEntryPerKey
<1> QED
  BY <1>1, <1>2

\* addCookie keeps every entry where it is, records the key, and keeps a well
\* indexed table well indexed.
LEMMA AddCookieProperties ==
  ASSUME NEW tab \in Table, WellIndexed(tab), NEW k \in Keys
  PROVE  LET t == AddCookie(tab, k)
         IN  /\ t \in Table
             /\ DOMAIN tab \subseteq DOMAIN t
             /\ \A p \in DOMAIN tab : t[p] = tab[p]
             /\ \A p \in DOMAIN t \ DOMAIN tab : t[p].status = "Wait"
             /\ WellIndexed(t)
             /\ Recorded(t, k)
<1> DEFINE t == AddCookie(tab, k)
           e == [key |-> k, index |-> Len(tab), status |-> "Wait"]
<1>1. CASE Recorded(tab, k)
  <2>1. t = tab
    BY <1>1, IndexIsPlace DEF AddCookie
  <2> QED
    BY <1>1, <2>1
<1>2. CASE ~Recorded(tab, k)
  <2>1. t = Append(tab, e)
    BY <1>2, IndexIsPlace DEF AddCookie
  <2>2. e \in Entry
    BY TableShape DEF Entry, Status
  <2>3. /\ t \in Table
        /\ DOMAIN t = 1 .. (Len(tab) + 1)
        /\ \A p \in DOMAIN tab : t[p] = tab[p]
        /\ t[Len(tab) + 1] = e
    BY <2>1, <2>2, TableShape, AppendProperties DEF Table
  <2>4. DOMAIN t = DOMAIN tab \cup {Len(tab) + 1}
    BY <2>3, TableShape
  <2>5. \A p \in DOMAIN tab : t[p].key # k
    BY <1>2, <2>3 DEF Recorded
  <2>6. IndexedByPlace(t)
    BY <2>3, <2>4, TableShape DEF WellIndexed, IndexedByPlace
  <2>7. OneEntryPerKey(t)
    BY <2>3, <2>4, <2>5 DEF WellIndexed, OneEntryPerKey
  <2> QED
    BY <2>3, <2>4, <2>6, <2>7 DEF WellIndexed, Recorded
<1> QED
  BY <1>1, <1>2

\* The two ways of turning statuses change statuses only, and neither touches
\* a success.
LEMMA TurnProperties ==
  ASSUME NEW tab \in Table
  PROVE  /\ LET t == TurnUnpack(tab)
            IN  /\ t \in Table /\ DOMAIN t = DOMAIN tab
                /\ \A p \in DOMAIN tab :
                     /\ t[p].key = tab[p].key /\ t[p].index = tab[p].index
                     /\ t[p].status = IF tab[p].status = "Unpack" THEN "Fail" ELSE tab[p].status
         /\ LET t == TurnFail(tab)
            IN  /\ t \in Table /\ DOMAIN t = DOMAIN tab
                /\ \A p \in DOMAIN tab :
                     /\ t[p].key = tab[p].key /\ t[p].index = tab[p].index
                     /\ t[p].status = IF tab[p].status = "Fail" THEN "Wait" ELSE tab[p].status
<1>1. \A p \in DOMAIN tab, s \in Status :
        /\ [tab[p] EXCEPT !.status = s] \in Entry
        /\ [tab[p] EXCEPT !.status = s].key = tab[p].key
        /\ [tab[p] EXCEPT !.status = s].index = tab[p].index
        /\ [tab[p] EXCEPT !.status = s].status = s
  BY TableShape DEF Entry
<1>2. "Fail" \in Status /\ "Wait" \in Status
  BY DEF Status
<1>3. TurnUnpack(tab) \in [1 .. Len(tab) -> Entry] /\ TurnFail(tab) \in [1 .. Len(tab) -> Entry]
  BY <1>1, <1>2, TableShape DEF TurnUnpack, TurnFail
<1>4. /\ TurnUnpack(tab) \in Table /\ DOMAIN TurnUnpack(tab) = DOMAIN tab
      /\ TurnFail(tab) \in Table /\ DOMAIN TurnFail(tab) = DOMAIN tab
  BY <1>3, TableShape, TableFromFunction
<1>5. \A p \in DOMAIN tab :
        /\ TurnUnpack(tab)[p] = IF tab[p].status = "Unpack" THEN [tab[p] EXCEPT !.status = "Fail"] ELSE tab[p]
        /\ TurnFail(tab)[p] = IF tab[p].status = "Fail" THEN [tab[p] EXCEPT !.status = "Wait"] ELSE tab[p]
  BY DEF TurnUnpack, TurnFail
<1>6. ASSUME NEW p \in DOMAIN tab
      PROVE  /\ TurnUnpack(tab)[p].key = tab[p].key /\ TurnUnpack(tab)[p].index = tab[p].index
             /\ TurnUnpack(tab)[p].status = IF tab[p].status = "Unpack" THEN "Fail" ELSE tab[p].status
             /\ TurnFail(tab)[p].key = tab[p].key /\ TurnFail(tab)[p].index = tab[p].index
             /\ TurnFail(tab)[p].status = IF tab[p].status = "Fail" THEN "Wait" ELSE tab[p].status
  <2> DEFINE failed == [tab[p] EXCEPT !.status = "Fail"]
             waits == [tab[p] EXCEPT !.status = "Wait"]
  <2>1. /\ failed.key = tab[p].key /\ failed.index = tab[p].index /\ failed.status = "Fail"
        /\ waits.key = tab[p].key /\ waits.index = tab[p].index /\ waits.status = "Wait"
    BY <1>1, <1>2
  <2>2. /\ TurnUnpack(tab)[p] = IF tab[p].status = "Unpack" THEN failed ELSE tab[p]
        /\ TurnFail(tab)[p] = IF tab[p].status = "Fail" THEN waits ELSE tab[p]
    BY <1>5
  <2> HIDE DEF failed, waits
  <2> QED
    BY <2>1, <2>2
<1> QED
  BY <1>4, <1>6

\* restoreLastStatus leaves no entry marked as being unpacked, no success
\* undone, and every entry in its place.
LEMMA TurnStatusProperties ==
  ASSUME NEW tab \in Table
  PROVE  LET t == TurnStatus(tab)
         IN  /\ t \in Table
             /\ DOMAIN t = DOMAIN tab
             /\ \A p \in DOMAIN tab :
                  /\ t[p].key = tab[p].key
                  /\ t[p].index = tab[p].index
                  /\ t[p].status # "Unpack"
                  /\ t[p].status = "Success" <=> tab[p].status = "Success"
                  /\ t[p].status = "Error" <=> tab[p].status = "Error"
             /\ WellIndexed(tab) => WellIndexed(t)
<1> DEFINE u == TurnUnpack(tab)
           t == TurnStatus(tab)
<1>1. /\ u \in Table /\ DOMAIN u = DOMAIN tab
      /\ \A p \in DOMAIN tab :
           /\ u[p].key = tab[p].key /\ u[p].index = tab[p].index
           /\ u[p].status = IF tab[p].status = "Unpack" THEN "Fail" ELSE tab[p].status
  BY TurnProperties
<1>2. t = u \/ t = TurnFail(u)
  BY DEF TurnStatus
<1> HIDE DEF u, t
<1>3. /\ t \in Table /\ DOMAIN t = DOMAIN u
      /\ \A p \in DOMAIN u :
           /\ t[p].key = u[p].key /\ t[p].index = u[p].index
           /\ t[p].status \in {u[p].status} \cup (IF u[p].status = "Fail" THEN {"Wait"} ELSE {})
  <2>1. CASE t = u
    BY <1>1, <2>1
  <2>2. CASE t = TurnFail(u)
    BY <1>1, <2>2, TurnProperties
  <2> QED
    BY <1>2, <2>1, <2>2
<1>4. /\ t \in Table
      /\ DOMAIN t = DOMAIN tab
      /\ \A p \in DOMAIN tab :
           /\ t[p].key = tab[p].key
           /\ t[p].index = tab[p].index
           /\ t[p].status # "Unpack"
           /\ t[p].status = "Success" <=> tab[p].status = "Success"
           /\ t[p].status = "Error" <=> tab[p].status = "Error"
  BY <1>1, <1>3
<1>5. WellIndexed(tab) => WellIndexed(t)
  BY <1>4 DEF WellIndexed, IndexedByPlace, OneEntryPerKey
<1> QED
  BY <1>4, <1>5 DEF t

\* What is read from a file that was cut off: entries in their places, and at
\* most one more, the last, that says neither success nor being unpacked, nor, when it is about a
\* dex file, nothing at all.
LEMMA CutTableProperties ==
  ASSUME NEW tab \in Table, NEW t \in CutTable(tab)
  PROVE  /\ t \in Table
         /\ DOMAIN t \subseteq DOMAIN tab
         /\ \A p \in DOMAIN t :
              \/ t[p] = tab[p]
              \/ /\ t[p].status \in {"Wait", "Error"}
                 /\ \/ t[p].key = NoKey
                    \/ /\ t[p].key = tab[p].key /\ t[p].index = tab[p].index
                       /\ t[p].status = "Wait"
         /\ \A p \in DOMAIN t : p # Len(t) => t[p] = tab[p]
         /\ WellIndexed(tab) => WellIndexed(t)
<1>1. /\ t \in Table
      /\ DOMAIN t \subseteq DOMAIN tab
      /\ \A p \in DOMAIN t : p # Len(t) => t[p] = tab[p]
      /\ \A p \in DOMAIN t :
           \/ t[p] = tab[p]
           \/ /\ t[p].status \in {"Wait", "Error"}
              /\ \/ t[p].key = NoKey
                 \/ /\ t[p].key = tab[p].key /\ t[p].index = tab[p].index
                    /\ t[p].status = "Wait"
  <2>1. CASE \E n \in 0 .. Len(tab) : t = SubSeq(tab, 1, n)
    BY <2>1, TableShape DEF Table
  <2>2. CASE \E n \in DOMAIN tab : \E e \in CutEntry(tab[n]) : t = Append(SubSeq(tab, 1, n - 1), e)
    <3>0. PICK n \in DOMAIN tab : \E e \in CutEntry(tab[n]) : t = Append(SubSeq(tab, 1, n - 1), e)
      BY <2>2
    <3>1. PICK e \in CutEntry(tab[n]) : t = Append(SubSeq(tab, 1, n - 1), e)
      BY <3>0
    <3>2. n \in 1 .. Len(tab) /\ Len(tab) \in Nat /\ tab[n] \in Entry
      BY TableShape
    <3>3. /\ e \in Entry
          /\ e.status \in {"Wait", "Error"}
          /\ \/ e.key = NoKey
             \/ e.key = tab[n].key /\ e.index = tab[n].index /\ e.status = "Wait"
      BY <3>1, <3>2 DEF CutEntry, NullEntry, GhostEntry, Entry, Status
    <3>4. /\ SubSeq(tab, 1, n - 1) \in Seq(Entry)
          /\ Len(SubSeq(tab, 1, n - 1)) = n - 1
          /\ \A p \in 1 .. (n - 1) : SubSeq(tab, 1, n - 1)[p] = tab[p]
      BY <3>2 DEF Table
    <3>5. /\ t \in Seq(Entry)
          /\ DOMAIN t = 1 .. n /\ Len(t) = n
          /\ \A p \in 1 .. (n - 1) : t[p] = tab[p]
          /\ t[n] = e
      BY <3>1, <3>2, <3>3, <3>4, AppendProperties
    <3> QED
      BY <3>2, <3>3, <3>5, TableShape DEF Table
  <2> QED
    BY <2>1, <2>2 DEF CutTable
<1>2. WellIndexed(tab) => WellIndexed(t)
  BY <1>1 DEF WellIndexed, IndexedByPlace, OneEntryPerKey
<1> QED
  BY <1>1, <1>2

----------------------------------------------------------------------------
(* The inductive invariant                                                 *)

\* The initial state satisfies the inductive invariant.
LEMMA InitIInv == Init => IInv
<1> SUFFICES ASSUME Init PROVE IInv
  OBVIOUS
<1>1. <<>> \in Table
  BY DEF Table
<1>2. TypeOK
  <2>1. table \in [Slots -> Dex \cup {NoDex}] /\ dumps \subseteq [id : Int, dex : Dex, stage : Stages]
    BY DEF Init
  <2>2. slot \in 0 .. NumSlots /\ faults \in 0 .. MaxFaults
    BY BoundAssumption DEF Init
  <2>3. loader \in BOOLEAN /\ dir \in BOOLEAN /\ guard \in (SUBSET Dex) \cup {NoSnapshot}
    BY DEF Init
  <2>4. /\ pc \in Points /\ resume \in {"refresh", "rebuild", "scan"}
        /\ cur \in Int /\ dex \in Dex \cup {NoDex}
        /\ mem \in Table /\ disk \in Table
    BY <1>1 DEF Init, Points
  <2> QED
    BY <2>1, <2>2, <2>3, <2>4 DEF TypeOK
<1>3. RecordsIndexed
  BY DEF Init, RecordsIndexed, WellIndexed, IndexedByPlace, OneEntryPerKey
<1>4. BusyInv /\ LoadInv /\ AttemptInv /\ SavedInv /\ FileInv /\ ShownInv /\ KeptInv
  BY DEF Init, BusyInv, LoadInv, AttemptInv, SavedInv, FileInv, ShownInv, KeptInv,
         Busy, Settled, Dumping, LaterSuccessIsDumped
<1> QED
  BY <1>2, <1>3, <1>4 DEF IInv

----------------------------------------------------------------------------
(* Starting *)

\* The target starts with an empty table of dex files.
LEMMA LaunchIInv == ASSUME IInv, Launch PROVE IInv'
<1>1. TypeOK'
  BY DEF IInv, TypeOK, Launch, appVars, diskVars, Points
<1>2. RecordsIndexed'
  BY DEF IInv, RecordsIndexed, Launch, diskVars
<1>3. LoadInv'
  BY DEF IInv, LoadInv, Launch
<1>4. BusyInv' /\ AttemptInv' /\ SavedInv' /\ FileInv' /\ KeptInv'
  BY DEF IInv, diskVars, BusyInv, AttemptInv, SavedInv, FileInv, KeptInv, Busy, Settled, Dumping, Launch
<1>5. ShownInv'
  BY DEF IInv, ShownInv, LaterSuccessIsDumped, ShownAt, FilesWith, Launch, diskVars
<1> QED
  BY <1>1, <1>2, <1>3, <1>4, <1>5 DEF IInv

\* The application loads a dex file: the dump thread has only seen those before.
LEMMA AppIInv == ASSUME IInv, App PROVE IInv'
<1>1. PICK d \in Dex, s \in Slots, covered \in BOOLEAN : AppLoads(d, s, covered)
  BY DEF App
<1>2. UNCHANGED <<threadVars, loader, diskVars, faults>>
  BY <1>1 DEF AppLoads
<1>3. TypeOK'
  <2>1. table' \in [Slots -> Dex \cup {NoDex}]
    BY <1>1 DEF AppLoads, IInv, TypeOK
  <2>2. guard' \in (SUBSET Dex) \cup {NoSnapshot}
    BY <1>1 DEF AppLoads, IInv, TypeOK
  <2> QED
    BY <1>2, <2>1, <2>2 DEF IInv, TypeOK, threadVars, diskVars
<1>4. RecordsIndexed' /\ BusyInv' /\ LoadInv' /\ AttemptInv' /\ SavedInv' /\ KeptInv'
  BY <1>2 DEF IInv, RecordsIndexed, BusyInv, LoadInv, AttemptInv, SavedInv, KeptInv,
              Busy, Settled, Dumping, threadVars, diskVars
<1>5. FileInv' /\ ShownInv'
  BY <1>2 DEF IInv, FileInv, ShownInv, LaterSuccessIsDumped, ShownAt, FilesWith,
              threadVars, diskVars
<1> QED
  BY <1>3, <1>4, <1>5 DEF IInv

\* The dump thread starts and takes its snapshot of the memory.
LEMMA BeginIInv == ASSUME IInv, Begin PROVE IInv'
<1>1. TypeOK'
  <2>1. guard' \in (SUBSET Dex) \cup {NoSnapshot}
    BY DEF Begin, Loaded, IInv, TypeOK
  <2>2. loader' \in BOOLEAN
    BY BoundAssumption DEF Begin
  <2> QED
    BY <2>1, <2>2 DEF IInv, TypeOK, Begin, Points
<1>2. RecordsIndexed' /\ LoadInv'
  BY DEF IInv, RecordsIndexed, LoadInv, Begin
<1>3. BusyInv' /\ AttemptInv' /\ SavedInv' /\ FileInv' /\ KeptInv'
  BY DEF BusyInv, AttemptInv, SavedInv, FileInv, KeptInv, Busy, Settled, Dumping, Begin
<1>4. ShownInv'
  BY DEF IInv, ShownInv, LoadInv, LaterSuccessIsDumped, ShownAt, FilesWith, Begin
<1> QED
  BY <1>1, <1>2, <1>3, <1>4 DEF IInv

----------------------------------------------------------------------------
(* The process ends, by whatever cause *)

\* Only the process, and a save cut off in the middle, are lost when it ends.
LEMMA EndsIInv == ASSUME IInv, ProcessEnds, faults' \in 0 .. MaxFaults PROVE IInv'
<1>1. disk' = disk \/ (pc = "write" /\ dir /\ disk' \in CutTable(mem))
  BY DEF ProcessEnds
<1>2. disk' \in Table /\ WellIndexed(disk')
  BY <1>1, CutTableProperties DEF IInv, TypeOK, RecordsIndexed
<1>3. <<>> \in Table /\ WellIndexed(<<>>)
  BY DEF Table, WellIndexed, IndexedByPlace, OneEntryPerKey
<1>4. TypeOK'
  <2>1. table' \in [Slots -> Dex \cup {NoDex}] /\ slot' \in 0 .. NumSlots
    BY BoundAssumption DEF ProcessEnds
  <2>2. dumps' \subseteq [id : Int, dex : Dex, stage : Stages]
    BY DEF ProcessEnds, IInv, TypeOK
  <2>3. loader' \in BOOLEAN /\ dir' \in BOOLEAN /\ guard' \in (SUBSET Dex) \cup {NoSnapshot}
    BY DEF ProcessEnds, IInv, TypeOK
  <2>4. /\ pc' \in Points /\ resume' \in {"refresh", "rebuild", "scan"}
        /\ cur' \in Int /\ dex' \in Dex \cup {NoDex}
        /\ mem' \in Table /\ disk' \in Table
    BY <1>2, <1>3 DEF ProcessEnds, Points
  <2> QED
    BY <2>1, <2>2, <2>3, <2>4 DEF TypeOK
<1>5. RecordsIndexed'
  BY <1>2, <1>3 DEF RecordsIndexed, ProcessEnds
<1>6. BusyInv' /\ LoadInv' /\ AttemptInv' /\ SavedInv' /\ FileInv' /\ KeptInv'
  BY DEF IInv, BusyInv, LoadInv, AttemptInv, SavedInv, FileInv, KeptInv, Busy, Settled, Dumping,
         ProcessEnds
<1>7. LaterSuccessIsDumped'
  <2>1. CASE disk' = disk
    BY <2>1 DEF IInv, ShownInv, LaterSuccessIsDumped, ShownAt, FilesWith, ProcessEnds
  <2>2. CASE dir /\ disk' \in CutTable(mem)
    <3>1. \A p \in DOMAIN disk' : p \in DOMAIN mem /\ (disk'[p].status = "Success" => disk'[p] = mem[p])
      BY <2>2, CutTableProperties DEF IInv, TypeOK
    <3> QED
      BY <2>2, <3>1 DEF IInv, ShownInv, LaterSuccessIsDumped, ShownAt, FilesWith, ProcessEnds
  <2> QED
    BY <1>1, <2>1, <2>2
<1>8. ShownInv'
  BY <1>7 DEF ShownInv, ProcessEnds
<1> QED
  BY <1>4, <1>5, <1>6, <1>8 DEF IInv

\* Every way to die is such an end.
LEMMA DeathIInv ==
  ASSUME IInv, Die \/ DieRebuilding \/ DieWithoutDirectory \/ Exit PROVE IInv'
<1>1. ProcessEnds
  BY DEF Die, DieRebuilding, DieWithoutDirectory, Exit
<1>2. faults' \in 0 .. MaxFaults
  BY BoundAssumption DEF Die, DieRebuilding, DieWithoutDirectory, Exit, IInv, TypeOK
<1> QED
  BY <1>1, <1>2, EndsIInv

\* The directory is deleted: an empty table on disk agrees with everything.
LEMMA DeleteIInv == ASSUME IInv, Delete PROVE IInv'
<1>1. <<>> \in Table /\ WellIndexed(<<>>)
  BY DEF Table, WellIndexed, IndexedByPlace, OneEntryPerKey
<1>2. TypeOK'
  <2>1. faults' \in 0 .. MaxFaults
    BY BoundAssumption DEF Delete, IInv, TypeOK
  <2>2. dumps' \subseteq [id : Int, dex : Dex, stage : Stages]
    BY DEF Delete
  <2> QED
    BY <1>1, <2>1, <2>2 DEF IInv, TypeOK, Delete, threadVars, appVars
<1>3. RecordsIndexed'
  BY <1>1 DEF IInv, RecordsIndexed, Delete, threadVars
<1>4. BusyInv' /\ LoadInv' /\ AttemptInv'
  BY DEF IInv, BusyInv, LoadInv, AttemptInv, Busy, Settled, Dumping, Delete, threadVars
<1>5. SavedInv' /\ FileInv' /\ ShownInv' /\ KeptInv'
  BY DEF SavedInv, FileInv, ShownInv, LaterSuccessIsDumped, KeptInv, Delete
<1> QED
  BY <1>2, <1>3, <1>4, <1>5 DEF IInv

----------------------------------------------------------------------------
(* restoreLastStatus *)

\* The table is read back, from a file that may be cut off.
LEMMA LoadIInv == ASSUME IInv, Load PROVE IInv'
<1>1. TypeOK'
  BY BoundAssumption DEF IInv, TypeOK, Load, appVars, diskVars, Points
<1>2. RecordsIndexed' /\ LoadInv'
  BY DEF IInv, RecordsIndexed, LoadInv, Load, diskVars
<1>3. BusyInv' /\ AttemptInv' /\ SavedInv' /\ FileInv'
  BY DEF IInv, diskVars, BusyInv, AttemptInv, SavedInv, FileInv, Busy, Settled, Dumping, Load
<1>4. ShownInv' /\ KeptInv'
  BY DEF IInv, ShownInv, LaterSuccessIsDumped, ShownAt, FilesWith, KeptInv, Load, diskVars
<1> QED
  BY <1>1, <1>2, <1>3, <1>4 DEF IInv

\* What a look at slot may change and what it finds.
LEMMA LookType ==
  ASSUME TypeOK, slot < NumSlots, LookAt(slot)
  PROVE  /\ guard' \in (SUBSET Dex) \cup {NoSnapshot}
         /\ Sees(slot) => table[slot] \in Dex /\ KeyOf[table[slot]] \in Keys
<1>1. slot \in Slots
  BY BoundAssumption DEF TypeOK, Slots
<1>2. Snapshot \in (SUBSET Dex) \cup {NoSnapshot}
  BY DEF Snapshot, Loaded, TypeOK
<1> QED
  BY <1>1, <1>2, DexAssumption DEF LookAt, Sees, TypeOK

\* An entry is found or added for a loaded dex file.
LEMMA AddIInv == ASSUME IInv, Add PROVE IInv'
<1>1. /\ mem' \in Table
      /\ WellIndexed(mem')
      /\ DOMAIN mem \subseteq DOMAIN mem'
      /\ \A p \in DOMAIN mem : mem'[p] = mem[p]
      /\ \A p \in DOMAIN mem' \ DOMAIN mem : mem'[p].status = "Wait"
  <2>1. CASE Sees(slot)
    <3>1. KeyOf[table[slot]] \in Keys
      BY <2>1, LookType DEF Add, IInv
    <3> QED
      BY <2>1, <3>1, AddCookieProperties DEF Add, IInv, TypeOK, RecordsIndexed
  <2>2. CASE ~Sees(slot)
    BY <2>2 DEF Add, IInv, TypeOK, RecordsIndexed
  <2> QED
    BY <2>1, <2>2
<1>2. TypeOK'
  <2>1. slot' \in 0 .. NumSlots
    BY BoundAssumption DEF Add, IInv, TypeOK
  <2>2. guard' \in (SUBSET Dex) \cup {NoSnapshot}
    BY LookType DEF Add, IInv
  <2> QED
    BY <1>1, <2>1, <2>2 DEF IInv, TypeOK, Add, diskVars
<1>3. RecordsIndexed'
  BY <1>1 DEF IInv, RecordsIndexed, Add, diskVars
<1>4. BusyInv' /\ LoadInv' /\ AttemptInv' /\ SavedInv' /\ FileInv'
  BY DEF IInv, diskVars, BusyInv, LoadInv, AttemptInv, SavedInv, FileInv, Busy, Settled, Dumping, Add
<1>5. ShownInv' /\ KeptInv'
  BY <1>1 DEF IInv, ShownInv, LaterSuccessIsDumped, ShownAt, FilesWith, KeptInv, Add, diskVars
<1> QED
  BY <1>2, <1>3, <1>4, <1>5 DEF IInv

\* The statuses are turned for the new run.
LEMMA TurnIInv == ASSUME IInv, Turn PROVE IInv'
<1>1. /\ mem' \in Table
      /\ WellIndexed(mem')
      /\ DOMAIN mem' = DOMAIN mem
      /\ \A p \in DOMAIN mem :
           /\ mem'[p].key = mem[p].key
           /\ mem'[p].status # "Unpack"
           /\ mem'[p].status = "Success" <=> mem[p].status = "Success"
  BY TurnStatusProperties DEF Turn, IInv, TypeOK, RecordsIndexed
<1>2. TypeOK'
  BY <1>1 DEF IInv, TypeOK, Turn, appVars, diskVars, Points
<1>3. RecordsIndexed'
  BY <1>1 DEF IInv, RecordsIndexed, Turn, diskVars
<1>4. BusyInv' /\ LoadInv' /\ AttemptInv' /\ SavedInv' /\ FileInv'
  BY <1>1 DEF IInv, diskVars, BusyInv, LoadInv, AttemptInv, SavedInv, FileInv, Busy, Settled, Dumping, Turn
<1>5. ShownInv' /\ KeptInv'
  BY <1>1 DEF IInv, ShownInv, LaterSuccessIsDumped, ShownAt, FilesWith, KeptInv, Turn, diskVars
<1> QED
  BY <1>2, <1>3, <1>4, <1>5 DEF IInv

----------------------------------------------------------------------------
(* saveConfigFile *)

\* The file is truncated; what was on it is still in memory.
LEMMA SaveTruncIInv == ASSUME IInv, SaveTrunc PROVE IInv'
<1>1. <<>> \in Table /\ WellIndexed(<<>>)
  BY DEF Table, WellIndexed, IndexedByPlace, OneEntryPerKey
<1>2. \/ dir /\ pc' = "write" /\ resume' = resume
      \/ ~dir /\ pc' = resume /\ resume' = "refresh"
  BY DEF SaveTrunc, Resume
<1>3. TypeOK'
  BY <1>1, <1>2 DEF IInv, TypeOK, SaveTrunc, appVars, Points
<1>4. RecordsIndexed'
  BY <1>1 DEF IInv, RecordsIndexed, SaveTrunc
<1>5. BusyInv' /\ LoadInv' /\ AttemptInv'
  BY <1>2 DEF IInv, TypeOK, BusyInv, LoadInv, AttemptInv, Busy, Settled, Dumping, SaveTrunc
<1>6. SavedInv' /\ FileInv' /\ KeptInv'
  BY <1>2 DEF SavedInv, FileInv, KeptInv, Dumping, SaveTrunc
<1>7. ShownInv'
  BY DEF IInv, ShownInv, LaterSuccessIsDumped, ShownAt, FilesWith, SaveTrunc
<1> QED
  BY <1>3, <1>4, <1>5, <1>6, <1>7 DEF IInv

\* The file is what the memory is again.
LEMMA SaveWriteIInv == ASSUME IInv, SaveWrite PROVE IInv'
<1>1. pc' = resume /\ resume' = "refresh"
  BY DEF SaveWrite, Resume
<1>2. TypeOK'
  BY <1>1 DEF IInv, TypeOK, SaveWrite, appVars, Points
<1>3. RecordsIndexed'
  BY DEF IInv, RecordsIndexed, SaveWrite
<1>4. BusyInv' /\ LoadInv' /\ AttemptInv'
  BY <1>1 DEF IInv, TypeOK, BusyInv, LoadInv, AttemptInv, Busy, Settled, Dumping, SaveWrite
<1>5. SavedInv' /\ FileInv' /\ KeptInv'
  BY <1>1 DEF IInv, TypeOK, SavedInv, FileInv, KeptInv, Dumping, SaveWrite
<1>6. ShownInv'
  BY DEF IInv, ShownInv, LaterSuccessIsDumped, ShownAt, FilesWith, SaveWrite
<1> QED
  BY <1>2, <1>3, <1>4, <1>5, <1>6 DEF IInv

----------------------------------------------------------------------------
(* The scan *)

\* The scan for the dump starts, over the table as it is now.
LEMMA RefreshIInv == ASSUME IInv, Refresh PROVE IInv'
<1>1. TypeOK'
  BY BoundAssumption DEF IInv, TypeOK, Refresh, Loaded, diskVars, Points
<1>2. RecordsIndexed' /\ LoadInv'
  BY DEF IInv, RecordsIndexed, LoadInv, Refresh, diskVars
<1>3. BusyInv' /\ AttemptInv' /\ SavedInv' /\ FileInv'
  BY DEF IInv, BusyInv, AttemptInv, SavedInv, FileInv, Busy, Settled, Dumping, Refresh, diskVars
<1>4. ShownInv' /\ KeptInv'
  BY DEF IInv, ShownInv, LaterSuccessIsDumped, ShownAt, FilesWith, KeptInv, Refresh, diskVars
<1> QED
  BY <1>1, <1>2, <1>3, <1>4 DEF IInv

\* A slot is passed over.
LEMMA SkipIInv == ASSUME IInv, Skip PROVE IInv'
<1>1. TypeOK'
  <2>1. slot' \in 0 .. NumSlots
    BY BoundAssumption DEF Skip, IInv, TypeOK
  <2>2. guard' \in (SUBSET Dex) \cup {NoSnapshot}
    BY LookType DEF Skip, IInv
  <2> QED
    BY <2>1, <2>2 DEF IInv, TypeOK, Skip, diskVars
<1>2. RecordsIndexed' /\ LoadInv'
  BY DEF IInv, RecordsIndexed, LoadInv, Skip, diskVars
<1>3. BusyInv' /\ AttemptInv' /\ SavedInv' /\ FileInv'
  BY DEF IInv, BusyInv, AttemptInv, SavedInv, FileInv, Busy, Settled, Dumping, Skip, diskVars
<1>4. ShownInv' /\ KeptInv'
  BY DEF IInv, ShownInv, LaterSuccessIsDumped, ShownAt, FilesWith, KeptInv, Skip, diskVars
<1> QED
  BY <1>1, <1>2, <1>3, <1>4 DEF IInv

\* The run is done.
LEMMA ScanEndIInv == ASSUME IInv, ScanEnd PROVE IInv'
<1>1. TypeOK'
  BY DEF IInv, TypeOK, ScanEnd, appVars, diskVars, Points
<1>2. RecordsIndexed' /\ LoadInv'
  BY DEF IInv, RecordsIndexed, LoadInv, ScanEnd, diskVars
<1>3. BusyInv' /\ AttemptInv' /\ SavedInv' /\ FileInv'
  BY DEF IInv, BusyInv, AttemptInv, SavedInv, FileInv, Busy, Settled, Dumping, ScanEnd, diskVars
<1>4. ShownInv' /\ KeptInv'
  BY DEF IInv, ShownInv, LaterSuccessIsDumped, ShownAt, FilesWith, KeptInv, ScanEnd, diskVars
<1> QED
  BY <1>1, <1>2, <1>3, <1>4 DEF IInv

\* The index found for a dex file is the place of its entry, so the entry
\* marked is its own.
LEMMA MarkIInv == ASSUME IInv, Mark PROVE IInv'
<1> DEFINE k == KeyOf[table[slot]]
           idx == CookieIndex(mem, k)
<1>1. table[slot] \in Dex /\ k \in Keys /\ guard' \in (SUBSET Dex) \cup {NoSnapshot}
  BY LookType DEF Mark, IInv
<1>2. PICK q \in DOMAIN mem : mem[q].key = k
  BY <1>1, IndexIsPlace DEF Mark, IInv, TypeOK, RecordsIndexed, Recorded
<1>3. idx = q - 1 /\ \A p \in DOMAIN mem : mem[p].key = k => p = q
  BY <1>1, <1>2, IndexIsPlace, NoKeyAssumption
     DEF IInv, TypeOK, RecordsIndexed, WellIndexed, OneEntryPerKey
<1>4. idx \in Int /\ idx + 1 = q /\ "Unpack" \in Status
  BY <1>2, <1>3, TableShape DEF IInv, TypeOK, Status
<1>5. cur' = idx /\ mem' = SetCookieStatus(mem, idx, "Unpack")
  BY DEF Mark
<1> HIDE DEF idx
<1>6. /\ mem' \in Table
      /\ WellIndexed(mem')
      /\ DOMAIN mem' = DOMAIN mem
      /\ \A p \in DOMAIN mem :
           /\ mem'[p].key = mem[p].key
           /\ mem'[p].status = IF p = q THEN "Unpack" ELSE mem[p].status
  BY <1>4, <1>5, SetCookieStatusProperties DEF IInv, TypeOK, RecordsIndexed
<1>7. mem[q].status = "Wait"
  BY <1>2, <1>4 DEF Mark, idx, CookieStatus
<1>8. TypeOK'
  BY <1>1, <1>4, <1>5, <1>6 DEF IInv, TypeOK, Mark, diskVars, Points
<1>9. RecordsIndexed' /\ LoadInv' /\ SavedInv' /\ FileInv'
  BY <1>6 DEF IInv, RecordsIndexed, LoadInv, SavedInv, FileInv, Dumping, Mark, diskVars
<1>10. BusyInv'
  BY <1>1 DEF BusyInv, Mark
<1>11. AttemptInv'
  <2>1. \A p \in DOMAIN mem : mem[p].status # "Unpack"
    BY DEF IInv, AttemptInv, Settled, Mark
  <2>2. KeyOf[dex'] = k /\ Busy' /\ ~Settled'
    BY DEF Mark, Busy, Settled
  <2>3. Recorded(mem', k)
    BY <1>2, <1>6 DEF Recorded
  <2>4. \A p \in DOMAIN mem' :
          /\ mem'[p].status = "Unpack" <=> mem'[p].key = k
          /\ mem'[p].key = k => cur' = p - 1
    BY <1>2, <1>3, <1>5, <1>6, <2>1
  <2> HIDE DEF k
  <2> QED
    BY <2>2, <2>3, <2>4 DEF AttemptInv
<1>12. ShownInv'
  BY <1>6 DEF IInv, ShownInv, LaterSuccessIsDumped, ShownAt, FilesWith, Mark, diskVars
<1>13. KeptInv'
  BY <1>2, <1>6, <1>7 DEF IInv, KeptInv, Mark, diskVars
<1> QED
  BY <1>8, <1>9, <1>10, <1>11, <1>12, <1>13 DEF IInv

\* A dex file without an entry is taken: the only entry it can touch is the first.
LEMMA TakeUnrecordedIInv == ASSUME IInv, TakeUnrecorded PROVE IInv'
<1>1. /\ table[slot] \in Dex /\ KeyOf[table[slot]] \in Keys
      /\ guard' \in (SUBSET Dex) \cup {NoSnapshot}
  BY LookType DEF TakeUnrecorded, IInv
<1>2. -slot \in Int /\ -slot <= 0
  BY BoundAssumption DEF IInv, TypeOK
<1>3. TypeOK'
  BY <1>1, <1>2 DEF IInv, TypeOK, TakeUnrecorded, diskVars, Points
<1>4. RecordsIndexed' /\ LoadInv' /\ SavedInv' /\ FileInv'
  BY DEF IInv, RecordsIndexed, LoadInv, SavedInv, FileInv, Dumping, TakeUnrecorded, diskVars
<1>5. BusyInv'
  BY <1>1 DEF BusyInv, TakeUnrecorded
<1>6. AttemptInv'
  <2>1. \A p \in DOMAIN mem : mem[p].status # "Unpack"
    BY DEF IInv, AttemptInv, Settled, TakeUnrecorded
  <2>2. \A p \in DOMAIN mem : mem[p].key # KeyOf[table[slot]]
    BY <1>1, IndexIsPlace DEF IInv, TypeOK, RecordsIndexed, TakeUnrecorded, Recorded
  <2> QED
    BY <1>2, <2>1, <2>2 DEF AttemptInv, Busy, Settled, Dumping, TakeUnrecorded
<1>7. ShownInv' /\ KeptInv'
  BY DEF IInv, ShownInv, LaterSuccessIsDumped, ShownAt, FilesWith, KeptInv, TakeUnrecorded, diskVars
<1> QED
  BY <1>3, <1>4, <1>5, <1>6, <1>7 DEF IInv

----------------------------------------------------------------------------
(* One dump file *)

\* While a dex file is being dumped, the file of no other entry is its own:
\* only the first entry shares the file of index 0 with unrecorded dex files.
LEMMA OtherFiles ==
  ASSUME IInv, Busy, NEW p \in DOMAIN mem \ {1}, mem[p].status # "Unpack"
  PROVE  p - 1 # cur
<1>1. p \in Nat /\ p > 1
  BY TableShape DEF IInv, TypeOK
<1>2. mem[p].key # KeyOf[dex] /\ (Recorded(mem, KeyOf[dex]) \/ cur <= 0)
  BY DEF IInv, AttemptInv
<1>3. CASE cur <= 0
  BY <1>1, <1>3 DEF IInv, TypeOK
<1>4. CASE Recorded(mem, KeyOf[dex])
  <2>1. PICK q \in DOMAIN mem : mem[q].key = KeyOf[dex]
    BY <1>4 DEF Recorded
  <2>2. cur = q - 1 /\ q # p /\ q \in Nat
    BY <1>2, <2>1, TableShape DEF IInv, TypeOK, AttemptInv
  <2> QED
    BY <1>1, <2>2
<1> QED
  BY <1>2, <1>3, <1>4

\* So a step that touches only the file of cur leaves what the other entries
\* show as it was.
LEMMA OthersShown ==
  ASSUME IInv, Dumping, UNCHANGED <<disk, dir>>,
         \A id \in Int : id # cur => FilesWith(id)' = FilesWith(id)
  PROVE  /\ LaterSuccessIsDumped'
         /\ \A p \in DOMAIN mem \ {1} :
              dir /\ mem[p].status = "Success" =>
                p - 1 # cur /\ FilesWith(p - 1)' = FilesWith(p - 1)
<1>1. \A p \in DOMAIN mem \ {1} :
        mem[p].status = "Success" => p - 1 # cur /\ FilesWith(p - 1)' = FilesWith(p - 1)
  <2> TAKE p \in DOMAIN mem \ {1}
  <2> HAVE mem[p].status = "Success"
  <2>1. p - 1 # cur
    BY OtherFiles DEF Busy
  <2>2. p - 1 \in Int
    BY TableShape DEF IInv, TypeOK
  <2> QED
    BY <2>1, <2>2
<1>2. CASE dir
  <2>1. disk = mem
    BY <1>2 DEF IInv, SavedInv
  <2>2. \A p \in DOMAIN disk' \ {1} :
          disk'[p].status = "Success" =>
            p \in DOMAIN disk \ {1} /\ disk[p] = disk'[p] /\ FilesWith(p - 1)' = FilesWith(p - 1)
    BY <1>1, <2>1
  <2>3. \A p \in DOMAIN disk \ {1} : ShownAt(disk, p)
    BY DEF IInv, ShownInv, LaterSuccessIsDumped
  <2> QED
    BY <1>1, <2>2, <2>3 DEF LaterSuccessIsDumped, ShownAt
<1>3. CASE ~dir
  BY <1>3 DEF IInv, SavedInv, LaterSuccessIsDumped
<1> QED
  BY <1>1, <1>2, <1>3

\* Opening and filling the file of cur touches no other file.
LEMMA OpenedProperties ==
  ASSUME TypeOK, dex \in Dex, dumps' = Opened(cur)
  PROVE  /\ dumps' \subseteq [id : Int, dex : Dex, stage : Stages]
         /\ \A id \in Int : id # cur => FilesWith(id)' = FilesWith(id)
         /\ {f \in dumps' : f.id = cur} = {[id |-> cur, dex |-> dex, stage |-> "partial"]}
BY DEF TypeOK, Opened, FilesWith, Stages

\* A write fills the current dump file and leaves the other entries' files alone.
LEMMA FilledProperties ==
  ASSUME TypeOK, NEW stage \in {"raw", "fixed"}, dumps' = Filled(cur, stage)
  PROVE  /\ dumps' \subseteq [id : Int, dex : Dex, stage : Stages]
         /\ \A id \in Int : id # cur => FilesWith(id)' = FilesWith(id)
         /\ {f \in dumps' : f.id = cur}
              = {[f EXCEPT !.stage = IF loader THEN stage ELSE "empty"] : f \in FilesWith(cur)}
<1> DEFINE new == IF loader THEN stage ELSE "empty"
<1>1. new \in Stages
  BY DEF Stages
<1>2. dumps' = (dumps \ FilesWith(cur)) \cup {[f EXCEPT !.stage = new] : f \in FilesWith(cur)}
  BY DEF Filled
<1> HIDE DEF new
<1>3. \A f \in dumps :
        /\ [f EXCEPT !.stage = new] \in [id : Int, dex : Dex, stage : Stages]
        /\ [f EXCEPT !.stage = new].id = f.id
  BY <1>1 DEF TypeOK
<1>4. \A f \in FilesWith(cur) : f \in dumps /\ f.id = cur
  BY DEF FilesWith
<1>5. dumps' \subseteq [id : Int, dex : Dex, stage : Stages]
  BY <1>2, <1>3, <1>4 DEF TypeOK
<1>6. \A f : f \in dumps' /\ f.id # cur <=> f \in dumps /\ f.id # cur
  BY <1>2, <1>3, <1>4 DEF FilesWith
<1>7. \A id \in Int : id # cur => FilesWith(id)' = FilesWith(id)
  BY <1>6 DEF FilesWith
<1>8. {f \in dumps' : f.id = cur} = {[f EXCEPT !.stage = new] : f \in FilesWith(cur)}
  BY <1>2, <1>3, <1>4 DEF FilesWith
<1> QED
  BY <1>5, <1>7, <1>8 DEF new

\* The rebuilt dex file is in memory; the file is still empty.
LEMMA RebuildIInv == ASSUME IInv, Rebuild PROVE IInv'
<1>1. dex \in Dex /\ Dumping
  BY DEF IInv, BusyInv, Busy, Dumping, Rebuild
<1>2. /\ dumps' \subseteq [id : Int, dex : Dex, stage : Stages]
      /\ \A id \in Int : id # cur => FilesWith(id)' = FilesWith(id)
      /\ {f \in dumps' : f.id = cur} = {[id |-> cur, dex |-> dex, stage |-> "partial"]}
  BY <1>1, OpenedProperties DEF IInv, Rebuild
<1>3. TypeOK'
  BY <1>2 DEF IInv, TypeOK, Rebuild, appVars, Points
<1>4. RecordsIndexed' /\ BusyInv' /\ LoadInv' /\ AttemptInv' /\ SavedInv' /\ KeptInv'
  BY DEF IInv, RecordsIndexed, BusyInv, LoadInv, AttemptInv, SavedInv, KeptInv,
         Busy, Settled, Dumping, Rebuild
<1>5. FileInv'
  BY <1>2 DEF FileInv, FilesWith, Rebuild
<1>6. ShownInv'
  BY <1>1, <1>2, OthersShown DEF IInv, ShownInv, ShownAt, Rebuild
<1> QED
  BY <1>3, <1>4, <1>5, <1>6 DEF IInv

\* The rebuilt dex file is written, its instructions not repaired yet.
LEMMA WriteRawIInv == ASSUME IInv, WriteRaw PROVE IInv'
<1>1. dex \in Dex /\ Dumping
  BY DEF IInv, BusyInv, Busy, Dumping, WriteRaw
<1>2. /\ dumps' \subseteq [id : Int, dex : Dex, stage : Stages]
      /\ \A id \in Int : id # cur => FilesWith(id)' = FilesWith(id)
  BY <1>1, FilledProperties DEF IInv, WriteRaw
<1>3. TypeOK'
  BY <1>2 DEF IInv, TypeOK, WriteRaw, appVars, Points
<1>4. RecordsIndexed' /\ BusyInv' /\ LoadInv' /\ AttemptInv' /\ SavedInv' /\ KeptInv'
  BY DEF IInv, RecordsIndexed, BusyInv, LoadInv, AttemptInv, SavedInv, KeptInv,
         Busy, Settled, Dumping, WriteRaw
<1>5. FileInv'
  BY <1>2 DEF FileInv, FilesWith, WriteRaw
<1>6. ShownInv'
  BY <1>1, <1>2, OthersShown DEF IInv, ShownInv, ShownAt, WriteRaw
<1> QED
  BY <1>3, <1>4, <1>5, <1>6 DEF IInv

\* The instructions are repaired in memory.
LEMMA FixIInv == ASSUME IInv, Fix PROVE IInv'
<1>1. dex \in Dex /\ Dumping
  BY DEF IInv, BusyInv, Busy, Dumping, Fix
<1>2. /\ dumps' \subseteq [id : Int, dex : Dex, stage : Stages]
      /\ \A id \in Int : id # cur => FilesWith(id)' = FilesWith(id)
      /\ {f \in dumps' : f.id = cur} = {[id |-> cur, dex |-> dex, stage |-> "partial"]}
  BY <1>1, OpenedProperties DEF IInv, Fix
<1>3. TypeOK'
  BY <1>2 DEF IInv, TypeOK, Fix, appVars, Points
<1>4. RecordsIndexed' /\ BusyInv' /\ LoadInv' /\ AttemptInv' /\ SavedInv' /\ KeptInv'
  BY DEF IInv, RecordsIndexed, BusyInv, LoadInv, AttemptInv, SavedInv, KeptInv,
         Busy, Settled, Dumping, Fix
<1>5. FileInv'
  BY <1>2 DEF FileInv, FilesWith, Fix
<1>6. ShownInv'
  BY <1>1, <1>2, OthersShown DEF IInv, ShownInv, ShownAt, Fix
<1> QED
  BY <1>3, <1>4, <1>5, <1>6 DEF IInv

\* The last write is over: what the entry of this dex file now claims is so.
LEMMA WriteFixedIInv == ASSUME IInv, WriteFixed PROVE IInv'
<1>1. dex \in Dex /\ Dumping /\ Busy /\ slot < NumSlots
  BY DEF IInv, BusyInv, Busy, Dumping, WriteFixed
<1>2. /\ dumps' \subseteq [id : Int, dex : Dex, stage : Stages]
      /\ \A id \in Int : id # cur => FilesWith(id)' = FilesWith(id)
      /\ {f \in dumps' : f.id = cur}
           = {[f EXCEPT !.stage = IF loader THEN "fixed" ELSE "empty"] : f \in FilesWith(cur)}
  BY <1>1, FilledProperties DEF IInv, WriteFixed
<1>3. cur \in Int /\ "Success" \in Status
  BY DEF IInv, TypeOK, Status
<1>4. /\ mem' \in Table
      /\ WellIndexed(mem')
      /\ DOMAIN mem' = DOMAIN mem
      /\ \A p \in DOMAIN mem :
           /\ mem'[p].key = mem[p].key
           /\ mem'[p].status = IF p = cur + 1 THEN "Success" ELSE mem[p].status
  BY <1>3, SetCookieStatusProperties DEF IInv, TypeOK, RecordsIndexed, WriteFixed
<1>5. TypeOK'
  <2>1. slot' \in 0 .. NumSlots
    BY <1>1, BoundAssumption DEF IInv, TypeOK, WriteFixed
  <2> QED
    BY <1>2, <1>4, <2>1 DEF IInv, TypeOK, WriteFixed, appVars, Points
<1>6. RecordsIndexed'
  BY <1>4 DEF IInv, RecordsIndexed, WriteFixed
<1>7. BusyInv' /\ LoadInv' /\ SavedInv' /\ FileInv'
  BY DEF IInv, BusyInv, LoadInv, SavedInv, FileInv, Busy, Dumping, WriteFixed
<1>8. AttemptInv'
  <2>1. ASSUME NEW p \in DOMAIN mem', mem'[p].status = "Unpack" PROVE FALSE
    <3>1. p \in DOMAIN mem /\ p # cur + 1 /\ mem[p].status = "Unpack" /\ p \in Nat
      BY <1>4, <2>1, TableShape DEF IInv, TypeOK
    <3> QED
      BY <1>1, <1>3, <3>1 DEF IInv, AttemptInv
  <2> QED
    BY <2>1 DEF AttemptInv, Busy, Dumping, Settled, WriteFixed
<1>9. ShownInv'
  <2>1. ASSUME NEW p \in DOMAIN mem \ {1}, dir PROVE ShownAt(mem, p)'
    <3>1. CASE p = cur + 1
      <4>1. cur = p - 1 /\ p \in Nat /\ cur > 0
        BY <1>3, <3>1, TableShape DEF IInv, TypeOK
      <4>2. Recorded(mem, KeyOf[dex])
        BY <1>1, <4>1 DEF IInv, AttemptInv
      <4>3. PICK q \in DOMAIN mem : mem[q].key = KeyOf[dex]
        BY <4>2 DEF Recorded
      <4>4. q = p
        BY <1>1, <4>1, <4>3, TableShape DEF IInv, TypeOK, AttemptInv
      <4>5. FilesWith(cur) = {[id |-> cur, dex |-> dex, stage |-> "partial"]}
        BY <2>1 DEF IInv, FileInv, WriteFixed
      <4>6. PICK e \in {"fixed", "empty"} :
              {f \in dumps' : f.id = cur} = {[f EXCEPT !.stage = e] : f \in FilesWith(cur)}
        BY <1>2
      <4>7. FilesWith(p - 1)' = {[id |-> cur, dex |-> dex, stage |-> e]}
        <5>1. [[id |-> cur, dex |-> dex, stage |-> "partial"] EXCEPT !.stage = e]
                = [id |-> cur, dex |-> dex, stage |-> e]
          OBVIOUS
        <5>2. {f \in dumps' : f.id = cur} = {[id |-> cur, dex |-> dex, stage |-> e]}
          BY <4>5, <4>6, <5>1
        <5>3. FilesWith(p - 1)' = {f \in dumps' : f.id = p - 1}
          BY DEF FilesWith
        <5> QED
          BY <4>1, <5>2, <5>3
      <4>8. mem'[p].key = KeyOf[dex]
        BY <1>4, <4>3, <4>4
      <4>9. \A f \in FilesWith(p - 1)' : f.dex = dex /\ f.stage \in {"fixed", "empty"}
        BY <4>7
      <4>10. FilesWith(p - 1)' # {}
        BY <4>7
      <4> QED
        BY <4>8, <4>9, <4>10 DEF ShownAt
    <3>2. CASE p # cur + 1
      <4>1. mem'[p].status = mem[p].status /\ mem'[p].key = mem[p].key
        BY <1>4, <3>2
      <4>2. ShownAt(mem, p)
        BY <2>1 DEF IInv, ShownInv
      <4> QED
        BY <1>1, <1>2, <2>1, <4>1, <4>2, OthersShown DEF ShownAt, WriteFixed
    <3> QED
      BY <3>1, <3>2
  <2>2. LaterSuccessIsDumped'
    BY <1>1, <1>2, OthersShown DEF WriteFixed
  <2> QED
    BY <1>4, <2>1, <2>2 DEF ShownInv, WriteFixed
<1>10. KeptInv'
  BY <1>4 DEF IInv, KeptInv, WriteFixed
<1> QED
  BY <1>5, <1>6, <1>7, <1>8, <1>9, <1>10 DEF IInv

----------------------------------------------------------------------------
(* The invariant *)

\* No step of the specification, and no step outside it, breaks IInv.
LEMMA NextIInv == IInv /\ [Next]_vars => IInv'
<1> SUFFICES ASSUME IInv, [Next]_vars PROVE IInv'
  OBVIOUS
<1>1. CASE Begin \/ Load \/ Add \/ Turn
  BY <1>1, BeginIInv, LoadIInv, AddIInv, TurnIInv
<1>2. CASE SaveTrunc \/ SaveWrite
  BY <1>2, SaveTruncIInv, SaveWriteIInv
<1>3. CASE Refresh \/ Skip \/ Mark \/ TakeUnrecorded \/ ScanEnd
  BY <1>3, RefreshIInv, SkipIInv, MarkIInv, TakeUnrecordedIInv, ScanEndIInv
<1>4. CASE Rebuild \/ WriteRaw \/ Fix \/ WriteFixed
  BY <1>4, RebuildIInv, WriteRawIInv, FixIInv, WriteFixedIInv
<1>5. CASE DieRebuilding \/ DieWithoutDirectory \/ Die \/ Exit
  BY <1>5, DeathIInv
<1>6. CASE App \/ Launch \/ Delete
  BY <1>6, AppIInv, LaunchIInv, DeleteIInv
<1>7. CASE UNCHANGED vars
  <2> USE <1>7 DEF vars, threadVars, appVars, diskVars
  <2>1. TypeOK' /\ RecordsIndexed' /\ LoadInv'
    BY DEF IInv, TypeOK, RecordsIndexed, LoadInv
  <2>2. BusyInv' /\ AttemptInv' /\ SavedInv' /\ KeptInv'
    BY DEF IInv, BusyInv, AttemptInv, SavedInv, KeptInv, Busy, Settled, Dumping
  <2>3. FileInv' /\ ShownInv'
    BY DEF IInv, FileInv, ShownInv, LaterSuccessIsDumped, ShownAt, FilesWith
  <2> QED
    BY <2>1, <2>2, <2>3 DEF IInv
<1> QED
  BY <1>1, <1>2, <1>3, <1>4, <1>5, <1>6, <1>7 DEF Next, Thread

\* IInv holds throughout, for every set of dex files, table size and number of
\* faults: what the process has in memory fits what it has written, whatever
\* the step of Fupk::unpackAll it is at.
THEOREM Invariance == Spec => []IInv
BY InitIInv, NextIInv, PTL DEF Spec

\* Every variable keeps its type: statuses, indices and files stay what
\* UnpackInfo.h and Fupk.cpp declare them to be.
THEOREM TypeCorrect == Spec => []TypeOK
<1>1. IInv => TypeOK
  BY DEF IInv
<1> QED
  BY <1>1, Invariance, PTL

\* The table never gets two entries, or two indices, for one dex file: neither
\* addCookie nor a file read back half can do it (UnpackInfo.cpp:22-63).
THEOREM IndexesAreSound == Spec => []RecordsIndexed
<1>1. IInv => RecordsIndexed
  BY DEF IInv
<1> QED
  BY <1>1, Invariance, PTL

\* When the process dies while a dex file is being dumped, the entry found
\* marked by the next run is that dex file's, and only that (Fupk.cpp:117-123).
THEOREM BlameIsSound == Spec => []BlameIsExact
<1>1. IInv => BlameIsExact
  <2> SUFFICES ASSUME IInv, Dumping, dir
               PROVE  {p \in DOMAIN disk : disk[p].status = "Unpack"}
                        = {p \in DOMAIN disk : disk[p].key = KeyOf[dex]}
    BY DEF BlameIsExact
  <2>1. disk = mem
    BY DEF IInv, SavedInv
  <2>2. \A p \in DOMAIN mem : mem[p].status = "Unpack" <=> mem[p].key = KeyOf[dex]
    BY DEF IInv, AttemptInv, Busy
  <2> QED
    BY <2>1, <2>2
<1> QED
  BY <1>1, Invariance, PTL

\* No entry but the first ever claims a success its dump file does not show,
\* also when the app loads dex files while the dump runs (Fupk.cpp:73-91).
THEOREM LaterSuccessIsSound == Spec => []LaterSuccessIsDumped
<1>1. IInv => LaterSuccessIsDumped
  BY DEF IInv, ShownInv
<1> QED
  BY <1>1, Invariance, PTL

----------------------------------------------------------------------------
(* A success stays *)

\* With one entry per dex file, its status is the status of any entry about it.
LEMMA SuccessMeansEntry ==
  ASSUME NEW tab \in Table, WellIndexed(tab), NEW k \in Keys
  PROVE  StatusOf(tab, k) = "Success"
           <=> \E p \in DOMAIN tab : tab[p].key = k /\ tab[p].status = "Success"
<1>1. CASE Recorded(tab, k)
  <2>1. PICK q \in DOMAIN tab : tab[q].key = k
    BY <1>1 DEF Recorded
  <2>2. StatusOf(tab, k) = tab[q].status
    BY <2>1, LookupFinds DEF WellIndexed
  <2>3. \A p \in DOMAIN tab : tab[p].key = k => p = q
    BY <2>1, NoKeyAssumption DEF WellIndexed, OneEntryPerKey
  <2> QED
    BY <2>1, <2>2, <2>3
<1>2. CASE ~Recorded(tab, k)
  BY <1>2 DEF Recorded, StatusOf
<1> QED
  BY <1>1, <1>2

\* What is on disk, with the save under way, is a well indexed table.
LEMMA PersistedType ==
  ASSUME IInv PROVE Persisted \in Table /\ WellIndexed(Persisted)
BY DEF IInv, TypeOK, RecordsIndexed, Persisted

\* What a step may do to the entries that say "Success" in what is persisted.
LEMMA SuccessEntriesStay ==
  ASSUME IInv, [Next]_vars, dir', ~(pc = "write" /\ pc' = "off"),
         NEW p \in DOMAIN Persisted, Persisted[p].status = "Success"
  PROVE  /\ p \in DOMAIN Persisted'
         /\ Persisted'[p].key = Persisted[p].key
         /\ Persisted'[p].status = "Success"
<1>1. dir
  BY DEF IInv, SavedInv, Persisted
<1>2. CASE SaveTrunc
  <2>1. Persisted = disk /\ Persisted' = mem
    BY <1>1, <1>2 DEF SaveTrunc, Persisted
  <2> QED
    BY <1>1, <1>2, <2>1 DEF SaveTrunc, IInv, KeptInv
<1>3. CASE SaveWrite
  <2>1. Persisted = mem /\ Persisted' = mem
    BY <1>1, <1>3 DEF SaveWrite, Resume, Persisted, IInv, TypeOK
  <2> QED
    BY <2>1
<1>4. CASE Die \/ DieRebuilding \/ DieWithoutDirectory \/ Exit
  <2>1. ProcessEnds
    BY <1>4 DEF Die, DieRebuilding, DieWithoutDirectory, Exit
  <2>2. Persisted' = Persisted
    BY <2>1 DEF ProcessEnds, Persisted
  <2> QED
    BY <2>2
<1>5. CASE UNCHANGED <<disk, dir>> /\ pc # "write" /\ pc' # "write"
  BY <1>5 DEF Persisted
<1>6. CASE UNCHANGED <<disk, dir, mem, pc>>
  BY <1>6 DEF Persisted
<1>7. Begin => <1>5!1
  BY <1>1 DEF Begin
<1>8. Load \/ Add \/ Turn \/ Refresh \/ Skip \/ Mark \/ TakeUnrecorded \/ ScanEnd => <1>5!1
  BY DEF Load, Add, Turn, Refresh, Skip, Mark, TakeUnrecorded, ScanEnd, diskVars
<1>9. Rebuild \/ WriteRaw \/ Fix \/ WriteFixed \/ Launch => <1>5!1
  BY DEF Rebuild, WriteRaw, Fix, WriteFixed, Launch, diskVars
<1>10. App \/ UNCHANGED vars => <1>6!1
  BY DEF App, AppLoads, vars, threadVars, diskVars
<1>11. ~Delete
  BY DEF Delete
<1> QED
  BY <1>2, <1>3, <1>4, <1>5, <1>6, <1>7, <1>8, <1>9, <1>10, <1>11 DEF Next, Thread

\* What a step may do to the status of a dex file that says "Success" in what is
\* persisted.
LEMMA SuccessStays ==
  ASSUME IInv, [Next]_vars, dir', ~(pc = "write" /\ pc' = "off"),
         NEW k \in Keys, StatusOf(Persisted, k) = "Success"
  PROVE  StatusOf(Persisted, k)' = "Success"
<1>1. PICK p \in DOMAIN Persisted : Persisted[p].key = k /\ Persisted[p].status = "Success"
  BY PersistedType, SuccessMeansEntry
<1>2. p \in DOMAIN Persisted' /\ Persisted'[p].key = k /\ Persisted'[p].status = "Success"
  BY <1>1, SuccessEntriesStay
<1>3. Persisted' \in Table /\ WellIndexed(Persisted')
  BY NextIInv DEF IInv, TypeOK, RecordsIndexed, Persisted
<1>4. StatusOf(Persisted', k) = "Success"
  BY <1>2, <1>3, SuccessMeansEntry
<1> QED
  BY <1>4 DEF StatusOf, Recorded, FirstOf

\* What is unpacked stays unpacked in information.json, from run to run and
\* through crashes, except for the two ways it can be lost: the user deletes
\* it, or the process dies while it is being written (UnpackInfo.cpp:39-48).
THEOREM SuccessIsKept == Spec => SuccessSticks
<1> DEFINE Kept == \A k \in Keys :
             StatusOf(Persisted, k) = "Success" =>
               \/ StatusOf(Persisted, k)' = "Success"
               \/ ~dir'
               \/ pc = "write" /\ pc' = "off"
<1>1. IInv /\ [Next]_vars => Kept
  BY SuccessStays
<1>2. IInv /\ [Next]_vars => [Kept]_vars
  BY <1>1
<1> QED
  BY <1>2, Invariance, PTL DEF Spec, SuccessSticks

----------------------------------------------------------------------------
(* When the app loads its dex files before the thread looks: StableInv is  *)
(* inductive as well.                                                      *)

\* The initial state satisfies it.
LEMMA InitStable == Init => StableInv
BY InitIInv DEF Init, StableInv, CoveredInv, RecordedInv, ErrorInv, RoundInv, PassedInv,
   AllShownInv, SuccessIsDumped, Scanning, Busy, Dumping

\* A slot with a dex file that is not to be ignored is seen by both scans.
LEMMA VisibleIsSeen ==
  ASSUME StableInv, pc \in {"add", "scan"}, NEW s \in Slots
  PROVE  Sees(s) <=> Visible(s)
<1>1. guard \in {Loaded, NoSnapshot}
  BY DEF StableInv, CoveredInv
<1>2. Snapshot = Loaded
  BY <1>1 DEF Snapshot
<1>3. table[s] \in Dex \cup {NoDex} /\ NoDex \notin Dex
  BY DexAssumption DEF StableInv, IInv, TypeOK
<1>4. table[s] # NoDex => table[s] \in Loaded
  BY DEF Loaded
<1> QED
  BY <1>2, <1>3, <1>4 DEF Sees, Visible

\* Looking at a slot keeps the snapshot complete.
LEMMA LookCovers ==
  ASSUME StableInv, pc \in {"add", "scan"}, LookAt(slot), UNCHANGED table
  PROVE  guard' \in {Loaded, NoSnapshot} /\ Loaded' = Loaded
BY DEF LookAt, Snapshot, Loaded, StableInv, CoveredInv

\* Before the first scan there is nothing in memory to say anything about.
LEMMA StartStable ==
  ASSUME StableInv, Launch \/ Begin \/ Load, IInv'
  PROVE  StableInv'
<1>1. mem = <<>>
  BY DEF Launch, Begin, Load, StableInv, IInv, LoadInv
<1>2. CoveredInv' /\ RecordedInv' /\ RoundInv' /\ PassedInv'
  BY DEF Launch, Begin, Load, appVars, StableInv, CoveredInv, Loaded, RecordedInv, RoundInv,
         PassedInv, Scanning, Busy, Dumping, StableInv, IInv, TypeOK, Slots
<1>3. ErrorInv' /\ AllShownInv'
  BY <1>1 DEF Launch, Begin, Load, diskVars, StableInv, ErrorInv, AllShownInv, SuccessIsDumped,
              ShownAt, FilesWith
<1> QED
  BY <1>2, <1>3 DEF StableInv

\* The application is done with loading before the thread wakes up.
LEMMA AppStable ==
  ASSUME StableInv, ~LateLoads, App, IInv'
  PROVE  StableInv'
<1>1. pc = "sleep" /\ UNCHANGED <<threadVars, diskVars>>
  BY DEF App, AppLoads
<1>2. CoveredInv' /\ RecordedInv' /\ RoundInv' /\ PassedInv'
  BY <1>1 DEF threadVars, CoveredInv, RecordedInv, RoundInv, PassedInv, Scanning, Busy, Dumping
<1>3. ErrorInv' /\ AllShownInv'
  BY <1>1 DEF threadVars, diskVars, StableInv, ErrorInv, AllShownInv, SuccessIsDumped,
              ShownAt, FilesWith
<1> QED
  BY <1>2, <1>3 DEF StableInv

\* What is left of a save that was cut off claims no more than the save did.
LEMMA DeathStable ==
  ASSUME StableInv, Die \/ DieRebuilding \/ DieWithoutDirectory \/ Exit, IInv'
  PROVE  StableInv'
<1>1. ProcessEnds
  BY DEF Die, DieRebuilding, DieWithoutDirectory, Exit
<1>2. CoveredInv' /\ RecordedInv' /\ RoundInv' /\ PassedInv'
  BY <1>1 DEF ProcessEnds, CoveredInv, RecordedInv, RoundInv, PassedInv, Scanning, Busy, Dumping
<1>3. ErrorInv' /\ AllShownInv'
  <2>1. CASE disk' = disk
    BY <1>1, <2>1 DEF ProcessEnds, StableInv, ErrorInv, AllShownInv, SuccessIsDumped, ShownAt, FilesWith
  <2>2. CASE dir /\ disk' \in CutTable(mem)
    <3>1. \A p \in DOMAIN disk' :
            /\ p \in DOMAIN mem
            /\ disk'[p].status = "Success" => disk'[p] = mem[p]
            /\ disk'[p].status = "Error" => disk'[p] = mem[p] \/ disk'[p].key = NoKey
      BY <2>2, CutTableProperties DEF StableInv, IInv, TypeOK
    <3>2. ErrorInv'
      BY <1>1, <3>1 DEF ProcessEnds, StableInv, ErrorInv
    <3>3. AllShownInv'
      BY <1>1, <2>2, <3>1
         DEF ProcessEnds, StableInv, AllShownInv, SuccessIsDumped, ShownAt, FilesWith
    <3> QED
      BY <3>2, <3>3
  <2> QED
    BY <1>1, <2>1, <2>2 DEF ProcessEnds
<1> QED
  BY <1>2, <1>3 DEF StableInv

\* An empty directory claims nothing.
LEMMA DeleteStable ==
  ASSUME StableInv, Delete, IInv'
  PROVE  StableInv'
<1>1. CoveredInv' /\ RecordedInv' /\ RoundInv' /\ PassedInv'
  BY DEF Delete, threadVars, appVars, StableInv, CoveredInv, Loaded, RecordedInv, Recorded, RoundInv,
         PassedInv, Visible, Scanning, Busy, Dumping
<1>2. ErrorInv' /\ AllShownInv'
  BY DEF Delete, threadVars, StableInv, ErrorInv, AllShownInv, SuccessIsDumped
<1> QED
  BY <1>1, <1>2 DEF StableInv

\* The first scan passes a slot, and records what it sees there.
LEMMA AddStable ==
  ASSUME StableInv, Add, IInv'
  PROVE  StableInv'
<1>1. slot \in Slots /\ slot' = slot + 1
  BY BoundAssumption DEF Add, StableInv, IInv, TypeOK, Slots
<1>2. /\ DOMAIN mem \subseteq DOMAIN mem'
      /\ \A p \in DOMAIN mem : mem'[p] = mem[p]
      /\ \A p \in DOMAIN mem' \ DOMAIN mem : mem'[p].status = "Wait"
      /\ Visible(slot) => Recorded(mem', KeyOf[table[slot]])
  <2>1. CASE Sees(slot)
    <3>1. KeyOf[table[slot]] \in Keys
      BY <2>1, LookType DEF Add, StableInv, IInv
    <3> QED
      BY <2>1, <3>1, AddCookieProperties DEF Add, StableInv, IInv, TypeOK, RecordsIndexed
  <2>2. CASE ~Sees(slot)
    BY <1>1, <2>2, VisibleIsSeen DEF Add
  <2> QED
    BY <2>1, <2>2
<1>3. CoveredInv'
  BY LookCovers DEF Add, CoveredInv
<1>4. RecordedInv'
  <2>1. ASSUME NEW s \in Slots, Visible(s)', s < slot'
        PROVE  Recorded(mem, KeyOf[table[s]])'
    <3>1. CASE s = slot
      BY <1>2, <2>1, <3>1 DEF Add, Visible, Recorded
    <3>2. CASE s # slot
      <4>1. s < slot /\ Visible(s) /\ table' = table
        BY <1>1, <2>1, <3>2 DEF Add, Visible, Slots
      <4>2. Recorded(mem, KeyOf[table[s]])
        BY <4>1 DEF Add, StableInv, RecordedInv
      <4> QED
        BY <1>2, <4>1, <4>2 DEF Recorded
    <3> QED
      BY <3>1, <3>2
  <2> QED
    BY <2>1 DEF RecordedInv, Add
<1>5. ErrorInv' /\ AllShownInv'
  BY <1>2 DEF Add, diskVars, StableInv, ErrorInv, AllShownInv, SuccessIsDumped, ShownAt, FilesWith
<1>6. RoundInv' /\ PassedInv'
  BY DEF Add, RoundInv, PassedInv, Scanning, Busy, Dumping
<1> QED
  BY <1>3, <1>4, <1>5, <1>6 DEF StableInv

\* Every slot has been recorded; the statuses are turned.
LEMMA TurnStable ==
  ASSUME StableInv, Turn, IInv'
  PROVE  StableInv'
<1>1. /\ DOMAIN mem' = DOMAIN mem
      /\ \A p \in DOMAIN mem :
           /\ mem'[p].key = mem[p].key
           /\ mem'[p].status = "Success" <=> mem[p].status = "Success"
           /\ mem'[p].status = "Error" <=> mem[p].status = "Error"
  BY TurnStatusProperties DEF Turn, StableInv, IInv, TypeOK
<1>2. CoveredInv' /\ RoundInv' /\ PassedInv'
  BY DEF Turn, appVars, StableInv, CoveredInv, Loaded, RoundInv, PassedInv, Scanning, Busy, Dumping
<1>3. RecordedInv'
  <2>1. \A s \in Slots : s < slot
    BY BoundAssumption DEF Turn, Slots
  <2>2. \A s \in Slots : Visible(s) => Recorded(mem, KeyOf[table[s]])
    BY <2>1 DEF Turn, StableInv, RecordedInv
  <2>3. table' = table
    BY DEF Turn, appVars
  <2> QED
    BY <1>1, <2>2, <2>3 DEF RecordedInv, Recorded, Visible
<1>4. ErrorInv'
  BY <1>1 DEF Turn, diskVars, StableInv, ErrorInv
<1>5. AllShownInv'
  BY <1>1 DEF Turn, diskVars, StableInv, AllShownInv, SuccessIsDumped, ShownAt, FilesWith
<1> QED
  BY <1>2, <1>3, <1>4, <1>5 DEF StableInv

\* A save changes nothing in memory.
LEMMA SaveStable ==
  ASSUME StableInv, SaveTrunc \/ SaveWrite, IInv'
  PROVE  StableInv'
<1>1. /\ UNCHANGED <<slot, dex, mem, appVars, dir, dumps>>
      /\ \/ pc' = resume /\ resume' = "refresh"
         \/ pc' = "write" /\ resume' = resume
      /\ pc \in {"trunc", "write"}
      /\ disk' \in {<<>>, mem, disk}
  BY DEF SaveTrunc, SaveWrite, Resume
<1>2. CoveredInv'
  BY <1>1 DEF appVars, StableInv, IInv, TypeOK, CoveredInv, Loaded
<1>3. RecordedInv'
  BY <1>1 DEF appVars, StableInv, IInv, TypeOK, RecordedInv, Recorded, Visible
<1>4. RoundInv'
  BY <1>1 DEF appVars, StableInv, IInv, TypeOK, RoundInv, Busy, Dumping, Visible
<1>5. PassedInv'
  <2>1. Scanning' => Scanning
    BY <1>1 DEF StableInv, IInv, TypeOK, Scanning, Busy, Dumping
  <2>2. UNCHANGED <<table, mem, slot>>
    BY <1>1 DEF appVars
  <2> QED
    BY <2>1, <2>2 DEF StableInv, PassedInv, Visible
<1>6. ErrorInv'
  BY <1>1 DEF StableInv, ErrorInv
<1>7. AllShownInv'
  BY DEF SaveTrunc, SaveWrite, StableInv, AllShownInv, SuccessIsDumped, ShownAt, FilesWith
<1> QED
  BY <1>2, <1>3, <1>4, <1>5, <1>6, <1>7 DEF StableInv

\* The second scan starts, and ends.
LEMMA ScanBoundsStable ==
  ASSUME StableInv, Refresh \/ ScanEnd, IInv'
  PROVE  StableInv'
<1>1. UNCHANGED <<table, mem, dir, dumps, disk>> /\ Loaded' = Loaded
  BY DEF Refresh, ScanEnd, appVars, diskVars, Loaded
<1>2. CoveredInv'
  BY <1>1 DEF Refresh, ScanEnd, appVars, StableInv, CoveredInv
<1>3. RecordedInv' /\ ErrorInv'
  BY <1>1 DEF Refresh, ScanEnd, StableInv, RecordedInv, Recorded, Visible, ErrorInv
<1>4. RoundInv'
  BY DEF Refresh, ScanEnd, RoundInv, Busy, Dumping
<1>5. PassedInv'
  BY <1>1 DEF Refresh, ScanEnd, StableInv, PassedInv, Scanning, Visible, Slots
<1>6. AllShownInv'
  BY <1>1 DEF StableInv, AllShownInv, SuccessIsDumped, ShownAt, FilesWith
<1> QED
  BY <1>2, <1>3, <1>4, <1>5, <1>6 DEF StableInv

\* A slot that is passed over holds nothing to be seen, or what is dealt with.
LEMMA SkipStable ==
  ASSUME StableInv, Skip, IInv'
  PROVE  StableInv'
<1>1. slot \in Slots /\ slot' = slot + 1 /\ UNCHANGED <<mem, table, disk, dir, dumps>>
  BY BoundAssumption DEF Skip, diskVars, StableInv, IInv, TypeOK, Slots
<1>2. ASSUME Visible(slot), NEW p \in DOMAIN mem, mem[p].key = KeyOf[table[slot]]
      PROVE  mem[p].status \in {"Success", "Fail"}
  <2>1. Sees(slot) /\ KeyOf[table[slot]] \in Keys
    BY <1>1, <1>2, VisibleIsSeen, DexAssumption DEF Skip, Visible
  <2>2. CookieIndex(mem, KeyOf[table[slot]]) = p - 1
    BY <1>2, <2>1, IndexIsPlace DEF StableInv, IInv, TypeOK, RecordsIndexed
  <2>3. p \in Nat /\ mem[p].status \in Status
    BY TableShape DEF StableInv, IInv, TypeOK, Entry
  <2>4. mem[p].status # "Wait"
    BY <2>1, <2>2, <2>3 DEF Skip, CookieStatus
  <2>5. mem[p].status # "Unpack"
    BY DEF Skip, StableInv, IInv, AttemptInv, Settled
  <2>6. mem[p].status # "Error"
    BY <1>2, <2>1, NoKeyAssumption DEF StableInv, ErrorInv
  <2> QED
    BY <2>3, <2>4, <2>5, <2>6 DEF Status
<1>3. CoveredInv'
  BY <1>1, LookCovers DEF Skip, CoveredInv
<1>4. RecordedInv' /\ ErrorInv' /\ RoundInv'
  BY <1>1 DEF Skip, StableInv, RecordedInv, Recorded, Visible, ErrorInv, RoundInv, Busy, Dumping
<1>5. PassedInv'
  <2>1. ASSUME NEW s \in Slots, Visible(s), s < slot',
               NEW p \in DOMAIN mem, mem[p].key = KeyOf[table[s]]
        PROVE  mem[p].status \in {"Success", "Fail"}
    <3>1. CASE s = slot
      BY <1>2, <2>1, <3>1
    <3>2. CASE s < slot
      BY <2>1, <3>2 DEF Skip, StableInv, PassedInv, Scanning
    <3> QED
      BY <1>1, <2>1, <3>1, <3>2 DEF Slots
  <2> QED
    BY <1>1, <2>1 DEF PassedInv, Visible
<1>6. AllShownInv'
  BY <1>1 DEF StableInv, AllShownInv, SuccessIsDumped, ShownAt, FilesWith
<1> QED
  BY <1>3, <1>4, <1>5, <1>6 DEF StableInv

\* The entry marked waits, so it is not about a dex file the scan has passed.
LEMMA MarkStable ==
  ASSUME StableInv, Mark, IInv'
  PROVE  StableInv'
<1> DEFINE k == KeyOf[table[slot]]
           idx == CookieIndex(mem, k)
<1>1. slot \in Slots /\ UNCHANGED <<slot, table, disk, dir, dumps>>
  BY BoundAssumption DEF Mark, diskVars, StableInv, IInv, TypeOK, Slots
<1>2. Visible(slot) /\ k \in Keys
  BY <1>1, VisibleIsSeen, DexAssumption DEF Mark, Visible
<1>3. PICK q \in DOMAIN mem : mem[q].key = k
  BY <1>2, IndexIsPlace DEF Mark, StableInv, IInv, TypeOK, RecordsIndexed, Recorded
<1>4. idx = q - 1 /\ q \in Nat
  BY <1>2, <1>3, IndexIsPlace, TableShape DEF StableInv, IInv, TypeOK, RecordsIndexed
<1>5. idx \in Int /\ idx + 1 = q /\ "Unpack" \in Status
  BY <1>4 DEF Status
<1>6. mem' = SetCookieStatus(mem, idx, "Unpack") /\ dex' = table[slot]
  BY DEF Mark
<1>7. mem[q].status = "Wait"
  BY <1>3, <1>5 DEF Mark, CookieStatus
<1> HIDE DEF idx
<1>8. /\ DOMAIN mem' = DOMAIN mem
      /\ \A p \in DOMAIN mem :
           /\ mem'[p].key = mem[p].key
           /\ mem'[p].status = IF p = q THEN "Unpack" ELSE mem[p].status
  <2>1. mem \in Table
    BY DEF StableInv, IInv, TypeOK
  <2> HIDE DEF k
  <2> QED
    BY <1>5, <1>6, <2>1, SetCookieStatusProperties
<1>9. CoveredInv'
  BY <1>1, LookCovers DEF Mark, CoveredInv
<1>10. RecordedInv'
  BY <1>1, <1>8 DEF Mark, StableInv, RecordedInv, Recorded, Visible
<1>11. ErrorInv'
  BY <1>1, <1>8 DEF StableInv, ErrorInv
<1>12. RoundInv'
  BY <1>1, <1>2, <1>6 DEF Mark, RoundInv, Visible
<1>13. PassedInv'
  <2>1. ASSUME NEW s \in Slots, Visible(s), s < slot,
               NEW p \in DOMAIN mem, mem[p].key = KeyOf[table[s]]
        PROVE  mem'[p].status \in {"Success", "Fail"}
    <3>1. mem[p].status \in {"Success", "Fail"}
      BY <2>1 DEF Mark, StableInv, PassedInv, Scanning
    <3> QED
      BY <1>7, <1>8, <3>1
  <2> QED
    BY <1>1, <1>8, <2>1 DEF PassedInv, Visible
<1>14. AllShownInv'
  BY <1>1, <1>8 DEF StableInv, AllShownInv, SuccessIsDumped, ShownAt, FilesWith
<1> QED
  BY <1>9, <1>10, <1>11, <1>12, <1>13, <1>14 DEF StableInv

\* No dex file is found that restoreLastStatus did not see.
LEMMA NoneUnrecorded == ASSUME StableInv PROVE ~TakeUnrecorded
<1> SUFFICES ASSUME TakeUnrecorded PROVE FALSE
  OBVIOUS
<1>1. slot \in Slots
  BY BoundAssumption DEF TakeUnrecorded, StableInv, IInv, TypeOK, Slots
<1>2. Visible(slot) /\ KeyOf[table[slot]] \in Keys
  BY <1>1, VisibleIsSeen, DexAssumption DEF TakeUnrecorded, Visible
<1>3. Recorded(mem, KeyOf[table[slot]])
  BY <1>1, <1>2 DEF TakeUnrecorded, StableInv, RecordedInv
<1> QED
  BY <1>2, <1>3, IndexIsPlace DEF TakeUnrecorded, StableInv, IInv, TypeOK, RecordsIndexed

\* The file being written belongs to one entry, which is marked; the others,
\* the first among them, show what they showed.
LEMMA AllOthersShown ==
  ASSUME StableInv, Dumping, UNCHANGED <<disk, dir>>,
         \A id \in Int : id # cur => FilesWith(id)' = FilesWith(id)
  PROVE  /\ \E q \in DOMAIN mem : mem[q].key = KeyOf[dex] /\ cur = q - 1
         /\ \A p \in DOMAIN mem :
              mem[p].status = "Success" =>
                p - 1 # cur /\ FilesWith(p - 1)' = FilesWith(p - 1)
         /\ SuccessIsDumped'
<1>1. Busy /\ slot \in Slots
  BY BoundAssumption DEF Busy, StableInv, IInv, BusyInv, TypeOK, Slots
<1>2. Recorded(mem, KeyOf[dex])
  BY <1>1 DEF Dumping, StableInv, RoundInv, RecordedInv
<1>3. PICK q \in DOMAIN mem : mem[q].key = KeyOf[dex]
  BY <1>2 DEF Recorded
<1>4. cur = q - 1 /\ mem[q].status = "Unpack" /\ q \in Nat
  BY <1>1, <1>3, TableShape DEF StableInv, IInv, TypeOK, AttemptInv
<1>5. ASSUME NEW p \in DOMAIN mem, mem[p].status = "Success"
      PROVE  p - 1 # cur /\ FilesWith(p - 1)' = FilesWith(p - 1)
  <2>1. p \in Nat /\ p # q
    BY <1>4, <1>5, TableShape DEF StableInv, IInv, TypeOK
  <2> QED
    BY <1>4, <2>1
<1>6. SuccessIsDumped'
  <2>1. CASE dir
    <3>1. disk = mem
      BY <2>1 DEF StableInv, IInv, SavedInv
    <3>2. \A p \in DOMAIN disk : ShownAt(disk, p)
      BY DEF StableInv, AllShownInv, SuccessIsDumped
    <3> QED
      BY <1>5, <3>1, <3>2 DEF SuccessIsDumped, ShownAt
  <2>2. CASE ~dir
    BY <2>2 DEF StableInv, IInv, SavedInv, SuccessIsDumped
  <2> QED
    BY <2>1, <2>2
<1> QED
  BY <1>3, <1>4, <1>5, <1>6

\* The writes before the last one.
LEMMA WritesStable ==
  ASSUME StableInv, Rebuild \/ WriteRaw \/ Fix, IInv'
  PROVE  StableInv'
<1>1. /\ UNCHANGED <<slot, cur, dex, mem, appVars, disk, dir>>
      /\ Dumping /\ Dumping' /\ TypeOK
  BY DEF Rebuild, WriteRaw, Fix, Dumping, StableInv, IInv
<1>2. \A id \in Int : id # cur => FilesWith(id)' = FilesWith(id)
  <2>1. dex \in Dex
    BY <1>1 DEF StableInv, IInv, BusyInv, Busy
  <2>2. Rebuild \/ Fix => dumps' = Opened(cur)
    BY DEF Rebuild, Fix
  <2>3. WriteRaw => dumps' = Filled(cur, "raw")
    BY DEF WriteRaw
  <2> QED
    BY <1>1, <2>1, <2>2, <2>3, OpenedProperties, FilledProperties
<1>3. CoveredInv' /\ RecordedInv' /\ ErrorInv'
  BY <1>1 DEF Dumping, appVars, StableInv, CoveredInv, Loaded, RecordedInv, Recorded, Visible, ErrorInv
<1>4. RoundInv' /\ PassedInv'
  BY <1>1 DEF Dumping, Busy, appVars, StableInv, RoundInv, PassedInv, Scanning, Visible
<1>5. AllShownInv'
  <2>1. /\ SuccessIsDumped'
        /\ \A p \in DOMAIN mem :
             mem[p].status = "Success" => FilesWith(p - 1)' = FilesWith(p - 1)
    BY <1>1, <1>2, AllOthersShown
  <2> QED
    BY <1>1, <2>1 DEF StableInv, AllShownInv, ShownAt
<1> QED
  BY <1>3, <1>4, <1>5 DEF StableInv

\* The last write: the entry of this dex file shows what it claims, and the
\* scan passes its slot.
LEMMA WriteFixedStable ==
  ASSUME StableInv, WriteFixed, IInv'
  PROVE  StableInv'
<1>1. /\ Dumping /\ Busy /\ dex \in Dex /\ TypeOK
      /\ UNCHANGED <<appVars, disk, dir>> /\ slot \in Slots /\ slot' = slot + 1
  BY BoundAssumption DEF WriteFixed, Dumping, Busy, StableInv, IInv, BusyInv, TypeOK, Slots
<1>2. /\ \A id \in Int : id # cur => FilesWith(id)' = FilesWith(id)
      /\ {f \in dumps' : f.id = cur}
           = {[f EXCEPT !.stage = IF loader THEN "fixed" ELSE "empty"] : f \in FilesWith(cur)}
  BY <1>1, FilledProperties DEF WriteFixed
<1>3. PICK q \in DOMAIN mem : mem[q].key = KeyOf[dex] /\ cur = q - 1
  BY <1>1, <1>2, AllOthersShown
<1>4. q \in Nat /\ cur \in Int /\ cur + 1 = q
  BY <1>1, <1>3, TableShape DEF TypeOK
<1>5. /\ DOMAIN mem' = DOMAIN mem
      /\ \A p \in DOMAIN mem :
           /\ mem'[p].key = mem[p].key
           /\ mem'[p].status = IF p = q THEN "Success" ELSE mem[p].status
  <2>1. mem' = SetCookieStatus(mem, cur, "Success") /\ "Success" \in Status /\ mem \in Table
    BY <1>1 DEF WriteFixed, Status, TypeOK
  <2> QED
    BY <1>4, <2>1, SetCookieStatusProperties
<1>6. CoveredInv'
  BY <1>1 DEF Dumping, appVars, WriteFixed, StableInv, CoveredInv, Loaded
<1>7. RecordedInv'
  BY <1>1, <1>5 DEF Dumping, appVars, WriteFixed, StableInv, RecordedInv, Recorded, Visible
<1>8. ErrorInv'
  BY <1>1, <1>5 DEF StableInv, ErrorInv
<1>9. RoundInv'
  BY DEF WriteFixed, RoundInv, Busy, Dumping
<1>10. PassedInv'
  <2>1. ASSUME NEW s \in Slots, Visible(s), s < slot',
               NEW p \in DOMAIN mem, mem[p].key = KeyOf[table[s]]
        PROVE  mem'[p].status \in {"Success", "Fail"}
    <3>1. CASE s = slot
      <4>1. KeyOf[table[s]] = KeyOf[dex]
        BY <1>1, <3>1 DEF StableInv, RoundInv
      <4>2. cur = p - 1 /\ p \in Nat
        BY <1>1, <2>1, <4>1, TableShape DEF StableInv, IInv, AttemptInv, TypeOK
      <4> QED
        BY <1>4, <1>5, <4>2
    <3>2. CASE s < slot
      <4>1. mem[p].status \in {"Success", "Fail"}
        BY <1>1, <2>1, <3>2 DEF StableInv, PassedInv, Scanning
      <4> QED
        BY <1>5, <4>1
    <3> QED
      BY <1>1, <2>1, <3>1, <3>2 DEF Slots
  <2> QED
    BY <1>1, <1>5, <2>1 DEF PassedInv, Visible, appVars
<1>11. AllShownInv'
  <2>1. /\ SuccessIsDumped'
        /\ \A p \in DOMAIN mem :
             mem[p].status = "Success" => FilesWith(p - 1)' = FilesWith(p - 1)
    BY <1>1, <1>2, AllOthersShown
  <2>2. ASSUME NEW p \in DOMAIN mem, dir PROVE ShownAt(mem, p)'
    <3>1. CASE p = q
      <4> DEFINE e == IF loader THEN "fixed" ELSE "empty"
      <4>1. FilesWith(cur) = {[id |-> cur, dex |-> dex, stage |-> "partial"]}
        BY <2>2 DEF StableInv, IInv, FileInv, WriteFixed
      <4>2. FilesWith(p - 1)' = {f \in dumps' : f.id = cur}
        BY <1>3, <3>1 DEF FilesWith
      <4>3. FilesWith(p - 1)' = {[[id |-> cur, dex |-> dex, stage |-> "partial"] EXCEPT !.stage = e]}
        BY <1>2, <4>1, <4>2
      <4> HIDE DEF e
      <4>4. FilesWith(p - 1)' = {[id |-> cur, dex |-> dex, stage |-> e]}
        BY <4>3
      <4>5. e \in {"fixed", "empty"}
        BY DEF e
      <4>6. mem'[p].key = KeyOf[dex]
        BY <1>3, <1>5, <3>1
      <4>7. \A f \in FilesWith(p - 1)' : f.dex = dex /\ f.stage \in {"fixed", "empty"}
        BY <4>4, <4>5
      <4>8. FilesWith(p - 1)' # {}
        BY <4>4
      <4> QED
        BY <4>6, <4>7, <4>8 DEF ShownAt
    <3>2. CASE p # q
      BY <1>5, <2>1, <2>2, <3>2 DEF StableInv, AllShownInv, ShownAt
    <3> QED
      BY <3>1, <3>2
  <2> QED
    BY <1>1, <1>5, <2>1, <2>2 DEF AllShownInv
<1> QED
  BY <1>6, <1>7, <1>8, <1>9, <1>10, <1>11 DEF StableInv

\* No step breaks StableInv, when nothing is loaded late.
LEMMA NextStable == ASSUME ~LateLoads PROVE StableInv /\ [Next]_vars => StableInv'
<1> SUFFICES ASSUME StableInv, [Next]_vars PROVE StableInv'
  OBVIOUS
<1>1. IInv'
  BY NextIInv DEF StableInv
<1>2. CASE Begin \/ Load \/ Launch
  BY <1>1, <1>2, StartStable
<1>3. CASE Add \/ Turn
  BY <1>1, <1>3, AddStable, TurnStable
<1>4. CASE SaveTrunc \/ SaveWrite
  BY <1>1, <1>4, SaveStable
<1>5. CASE Refresh \/ ScanEnd \/ Skip \/ Mark \/ TakeUnrecorded
  BY <1>1, <1>5, ScanBoundsStable, SkipStable, MarkStable, NoneUnrecorded
<1>6. CASE Rebuild \/ WriteRaw \/ Fix \/ WriteFixed
  BY <1>1, <1>6, WritesStable, WriteFixedStable
<1>7. CASE DieRebuilding \/ DieWithoutDirectory \/ Die \/ Exit
  BY <1>1, <1>7, DeathStable
<1>8. CASE App \/ Delete
  BY <1>1, <1>8, AppStable, DeleteStable
<1>9. CASE UNCHANGED vars
  <2> USE <1>9 DEF vars, threadVars, appVars, diskVars
  <2>1. CoveredInv' /\ RecordedInv' /\ ErrorInv'
    BY DEF StableInv, CoveredInv, Loaded, RecordedInv, Recorded, Visible, ErrorInv
  <2>2. RoundInv' /\ PassedInv'
    BY DEF StableInv, RoundInv, PassedInv, Scanning, Busy, Dumping, Visible
  <2>3. AllShownInv'
    BY DEF StableInv, AllShownInv, SuccessIsDumped, ShownAt, FilesWith
  <2> QED
    BY <1>1, <2>1, <2>2, <2>3 DEF StableInv
<1> QED
  BY <1>2, <1>3, <1>4, <1>5, <1>6, <1>7, <1>8, <1>9 DEF Next, Thread

\* As long as the app loads its dex files before the thread wakes up, no entry
\* claims a success its dump file does not show, the first one neither
\* (Fupk.cpp:73-91).
THEOREM SuccessIsSound == ASSUME ~LateLoads PROVE Spec => []SuccessIsDumped
<1>1. StableInv => SuccessIsDumped
  BY DEF StableInv, AllShownInv
<1> QED
  BY <1>1, InitStable, NextStable, PTL DEF Spec

\* Then a run that ends has dealt with everything it could see, whatever was
\* on disk when it began (Fupk.cpp:28-99).
THEOREM NothingIsLeft == ASSUME ~LateLoads PROVE Spec => []NothingLeftWaiting
<1>1. StableInv => NothingLeftWaiting
  <2> SUFFICES ASSUME StableInv, pc = "done", NEW s \in Slots, table[s] \in Dex \ Ignored
               PROVE  StatusOf(mem, KeyOf[table[s]]) \in {"Success", "Fail"}
    BY DEF NothingLeftWaiting
  <2>1. s < slot /\ Visible(s)
    BY BoundAssumption DEF StableInv, RoundInv, Slots, Visible
  <2>2. KeyOf[table[s]] \in Keys
    BY DexAssumption
  <2>3. PICK p \in DOMAIN mem : mem[p].key = KeyOf[table[s]]
    BY <2>1 DEF StableInv, RecordedInv, Recorded
  <2>4. StatusOf(mem, KeyOf[table[s]]) = mem[p].status
    BY <2>2, <2>3, LookupFinds DEF StableInv, IInv, TypeOK, RecordsIndexed, WellIndexed
  <2> QED
    BY <2>1, <2>3, <2>4 DEF StableInv, PassedInv, Scanning
<1> QED
  BY <1>1, InitStable, NextStable, PTL DEF Spec

----------------------------------------------------------------------------
(* The refinement of UnpackJob                                             *)

\* Nothing is recorded at first.
LEMMA InitJob == Init => JobInv
BY InitStable DEF Init, JobInv, PendingInv

\* What the next save changes, through every step.
LEMMA NextPending ==
  ASSUME ~LateLoads, JobInv, [Next]_vars
  PROVE  PendingInv'
<1> USE DEF JobInv
<1>1. CASE Load
  BY <1>1 DEF Load, diskVars, PendingInv, Extends
<1>2. CASE Add
  <2>1. /\ DOMAIN mem \subseteq DOMAIN mem'
        /\ \A p \in DOMAIN mem : mem'[p] = mem[p]
        /\ \A p \in DOMAIN mem' \ DOMAIN mem : mem'[p].status = "Wait"
    <3>1. CASE Sees(slot)
      <4>1. KeyOf[table[slot]] \in Keys
        BY <1>2, <3>1, LookType DEF Add, StableInv, IInv
      <4> QED
        BY <1>2, <3>1, <4>1, AddCookieProperties DEF Add, StableInv, IInv, TypeOK, RecordsIndexed
    <3>2. CASE ~Sees(slot)
      BY <1>2, <3>2 DEF Add
    <3> QED
      BY <3>1, <3>2
  <2> QED
    BY <1>2, <2>1 DEF Add, diskVars, PendingInv, Extends
<1>3. CASE Turn
  <2>1. ASSUME dir PROVE Turns(mem', disk)
    <3> DEFINE u == TurnUnpack(mem)
    <3>1. Extends(mem, disk) /\ mem \in Table
      BY <1>3, <2>1 DEF Turn, PendingInv, StableInv, IInv, TypeOK
    <3>2. /\ u \in Table /\ DOMAIN u = DOMAIN mem
          /\ \A p \in DOMAIN mem :
               /\ u[p].key = mem[p].key
               /\ u[p].status = AfterRun(mem[p].status)
      BY <3>1, TurnProperties DEF AfterRun
    <3>3. mem' = IF NoneWaits(u) THEN TurnFail(u) ELSE u
      BY <1>3 DEF Turn, TurnStatus
    <3> HIDE DEF u
    <3>4. CASE ~NoneWaits(u)
      BY <3>1, <3>2, <3>3, <3>4 DEF Turns, Extends, AfterRun
    <3>5. CASE NoneWaits(u)
      <4>1. /\ DOMAIN mem' = DOMAIN mem
            /\ \A p \in DOMAIN mem :
                 /\ mem'[p].key = mem[p].key
                 /\ mem'[p].status = IF u[p].status = "Fail" THEN "Wait" ELSE u[p].status
        BY <3>2, <3>3, <3>5, TurnProperties
      <4>2. \A p \in DOMAIN mem : mem[p].status # "Wait"
        BY <3>2, <3>5 DEF NoneWaits, AfterRun
      <4>3. DOMAIN mem = DOMAIN disk /\ \A p \in DOMAIN disk : mem[p] = disk[p]
        BY <3>1, <4>2 DEF Extends
      <4>4. \A p \in DOMAIN disk :
              mem'[p].status = IF AfterRun(disk[p].status) = "Fail" THEN "Wait" ELSE disk[p].status
        BY <3>2, <4>1, <4>3 DEF AfterRun
      <4> QED
        BY <4>1, <4>2, <4>3, <4>4 DEF Turns
    <3> QED
      BY <3>4, <3>5
  <2>2. pc' = "trunc" /\ resume' = "refresh" /\ UNCHANGED <<dir, disk>>
    BY <1>3 DEF Turn, diskVars
  <2>3. Turns(mem, disk)' = Turns(mem', disk')
    OBVIOUS
  <2> QED
    BY <2>1, <2>2 DEF PendingInv, Turns, AfterRun
<1>4. CASE SaveTrunc \/ SaveWrite
  BY <1>4 DEF SaveTrunc, SaveWrite, Resume, PendingInv, StableInv, IInv, TypeOK
<1>5. CASE Mark
  <2> DEFINE k == KeyOf[table[slot]]
             idx == CookieIndex(mem, k)
  <2>1. k \in Keys
    BY <1>5, LookType DEF Mark, StableInv, IInv
  <2>2. PICK q \in DOMAIN mem : mem[q].key = k
    BY <1>5, <2>1, IndexIsPlace DEF Mark, StableInv, IInv, TypeOK, RecordsIndexed, Recorded
  <2>3. idx = q - 1 /\ q \in Nat
    BY <2>1, <2>2, IndexIsPlace, TableShape DEF StableInv, IInv, TypeOK, RecordsIndexed
  <2>4. idx \in Int /\ idx + 1 = q /\ "Unpack" \in Status /\ mem \in Table
    BY <2>3 DEF Status, StableInv, IInv, TypeOK
  <2>5. mem' = SetCookieStatus(mem, idx, "Unpack") /\ mem[q].status = "Wait"
    BY <1>5, <2>2, <2>4 DEF Mark, CookieStatus
  <2> HIDE DEF idx, k
  <2>6. Moves(mem', mem, "Wait", "Unpack")
    BY <2>1, <2>2, <2>4, <2>5, SetCookieStatusProperties DEF Moves
  <2>7. \A p \in DOMAIN mem : mem[p].status # "Unpack"
    BY <1>5 DEF Mark, StableInv, IInv, AttemptInv, Settled
  <2>8. dir => disk = mem
    BY <1>5 DEF Mark, StableInv, IInv, SavedInv
  <2>9. pc' = "trunc" /\ resume' = "rebuild" /\ UNCHANGED <<dir, disk>>
    BY <1>5 DEF Mark, diskVars
  <2> QED
    BY <2>6, <2>7, <2>8, <2>9 DEF PendingInv, Moves
<1>6. CASE WriteFixed
  <2>1. Dumping /\ Busy /\ dex \in Dex /\ TypeOK /\ mem \in Table /\ "Success" \in Status
    BY <1>6 DEF WriteFixed, Dumping, Busy, StableInv, IInv, BusyInv, TypeOK, Status
  <2>2. \A id \in Int : id # cur => FilesWith(id)' = FilesWith(id)
    BY <1>6, <2>1, FilledProperties DEF WriteFixed
  <2>3. PICK q \in DOMAIN mem : mem[q].key = KeyOf[dex] /\ cur = q - 1
    BY <1>6, <2>1, <2>2, AllOthersShown DEF WriteFixed
  <2>4. q \in Nat /\ cur \in Int /\ cur + 1 = q /\ mem[q].key \in Keys
    BY <2>1, <2>3, TableShape, DexAssumption
  <2>5. mem[q].status = "Unpack"
    BY <2>1, <2>3 DEF StableInv, IInv, AttemptInv
  <2>6. Moves(mem', mem, "Unpack", "Success")
    BY <1>6, <2>1, <2>3, <2>4, <2>5, SetCookieStatusProperties DEF WriteFixed, Moves
  <2>7. dir => disk = mem
    BY <1>6, <2>1 DEF StableInv, IInv, SavedInv
  <2>8. pc' = "trunc" /\ resume' = "scan" /\ UNCHANGED <<dir, disk>>
    BY <1>6 DEF WriteFixed
  <2> QED
    BY <2>6, <2>7, <2>8 DEF PendingInv, Moves
<1>7. CASE Delete
  BY <1>7 DEF Delete, PendingInv
<1>8. CASE App \/ UNCHANGED vars
  <2>1. UNCHANGED <<pc, resume, mem, dir, disk>>
    BY <1>8 DEF App, AppLoads, vars, threadVars, diskVars
  <2> QED
    BY <2>1 DEF PendingInv, Extends, Turns, AfterRun, Moves
<1>9. CASE pc' \notin {"write", "add", "trunc"}
  BY <1>9 DEF PendingInv
<1>10. Launch \/ Begin \/ Refresh \/ ScanEnd \/ TakeUnrecorded \/ Rebuild \/ WriteRaw \/ Fix => <1>9!1
  BY DEF Launch, Begin, Refresh, ScanEnd, TakeUnrecorded, Rebuild, WriteRaw, Fix
<1>11. Skip \/ Die \/ DieRebuilding \/ DieWithoutDirectory \/ Exit => <1>9!1
  BY DEF Skip, Die, DieRebuilding, DieWithoutDirectory, Exit, ProcessEnds
<1> QED
  BY <1>1, <1>2, <1>3, <1>4, <1>5, <1>6, <1>7, <1>8, <1>9, <1>10, <1>11 DEF Next, Thread

\* The statuses as a well indexed table gives them.
LEMMA StatusesOf ==
  ASSUME NEW tab \in Table, WellIndexed(tab), NEW k \in Keys
  PROVE  /\ \A p \in DOMAIN tab : tab[p].key = k => StatusOf(tab, k) = tab[p].status
         /\ (\A p \in DOMAIN tab : tab[p].key # k) => StatusOf(tab, k) = "Unknown"
<1>1. ASSUME NEW p \in DOMAIN tab, tab[p].key = k PROVE StatusOf(tab, k) = tab[p].status
  BY <1>1, LookupFinds DEF WellIndexed
<1> QED
  BY <1>1 DEF StatusOf, Recorded

\* What the statuses become when information.json becomes tab.
LEMMA NextStatus ==
  ASSUME NEW tab, Persisted' = tab
  PROVE  JobStatus' = [k \in Keys |-> StatusOf(tab, k)]
BY DEF JobStatus, StatusOf, Recorded, FirstOf

\* The first save of a run: the run finds new dex files and turns what the last
\* one left.
LEMMA RunMaps ==
  ASSUME NEW old \in Table, WellIndexed(old), NEW new \in Table, WellIndexed(new),
         Turns(new, old),
         JobStatus = [k \in Keys |-> StatusOf(old, k)],
         JobStatus' = [k \in Keys |-> StatusOf(new, k)], Job!Change
  PROVE  \E found \in SUBSET Keys : Job!NewRun(found)
<1> DEFINE found == {k \in Keys : /\ \A p \in DOMAIN old : old[p].key # k
                                  /\ \E p \in DOMAIN new : new[p].key = k}
           listed == [k \in Keys |-> CASE k \in found              -> "Wait"
                                       [] JobStatus[k] = "Unpack" -> "Fail"
                                       [] OTHER                   -> JobStatus[k]]
<1>1. \A k \in found : JobStatus[k] = "Unknown"
  BY StatusesOf
<1>2. ASSUME NEW k \in Keys, NEW p \in DOMAIN old, old[p].key = k
      PROVE  /\ JobStatus[k] = old[p].status /\ JobStatus'[k] = new[p].status
             /\ listed[k] = AfterRun(old[p].status)
             /\ p \in DOMAIN new
  <2>1. p \in DOMAIN new /\ new[p].key = k /\ k \notin found
    BY <1>2 DEF Turns
  <2>2. JobStatus[k] = old[p].status /\ JobStatus'[k] = new[p].status
    BY <1>2, <2>1, StatusesOf
  <2> QED
    BY <2>1, <2>2 DEF AfterRun
<1>3. ASSUME NEW k \in Keys, \A p \in DOMAIN old : old[p].key # k, k \notin found
      PROVE  JobStatus[k] = "Unknown" /\ JobStatus'[k] = "Unknown" /\ listed[k] = "Unknown"
  <2>1. JobStatus[k] = "Unknown" /\ JobStatus'[k] = "Unknown"
    BY <1>3, StatusesOf
  <2> QED
    BY <1>3, <2>1
<1>4. CASE /\ \A p \in DOMAIN old : new[p].status = AfterRun(old[p].status)
           /\ \A p \in DOMAIN new \ DOMAIN old : new[p].status = "Wait"
  <2>1. ASSUME NEW k \in Keys PROVE JobStatus'[k] = listed[k]
    <3>1. CASE \E p \in DOMAIN old : old[p].key = k
      BY <1>2, <1>4, <3>1
    <3>2. CASE k \in found
      <4>1. PICK p \in DOMAIN new : new[p].key = k
        BY <3>2
      <4>2. p \notin DOMAIN old
        BY <3>2, <4>1 DEF Turns
      <4>3. JobStatus'[k] = new[p].status
        BY <4>1, StatusesOf
      <4>4. JobStatus'[k] = "Wait"
        BY <1>4, <4>1, <4>2, <4>3
      <4> HIDE DEF found
      <4> QED
        BY <1>1, <3>2, <4>4
    <3>3. CASE (\A p \in DOMAIN old : old[p].key # k) /\ k \notin found
      BY <1>3, <3>3
    <3> QED
      BY <3>1, <3>2, <3>3
  <2>2. JobStatus' = listed
    BY <2>1
  <2> HIDE DEF found
  <2>3. found \in SUBSET Keys
    BY DEF found
  <2>4. Job!NewRun(found)
    BY <1>1, <2>2 DEF Job!NewRun
  <2> QED
    BY <2>3, <2>4
<1>5. CASE /\ DOMAIN new = DOMAIN old
           /\ \A p \in DOMAIN old :
                /\ old[p].status # "Wait"
                /\ new[p].status = IF AfterRun(old[p].status) = "Fail" THEN "Wait" ELSE old[p].status
  <2>0. found = {}
    BY <1>5 DEF Turns
  <2>1. ASSUME NEW k \in Keys
        PROVE  /\ listed[k] # "Wait"
               /\ JobStatus'[k] = IF listed[k] = "Fail" THEN "Wait" ELSE listed[k]
    <3>1. CASE \E p \in DOMAIN old : old[p].key = k
      <4>1. PICK p \in DOMAIN old : old[p].key = k
        BY <3>1
      <4>2. /\ JobStatus'[k] = new[p].status
            /\ listed[k] = AfterRun(old[p].status)
        BY <1>2, <4>1
      <4> HIDE DEF listed
      <4> QED
        BY <1>5, <4>1, <4>2 DEF AfterRun
    <3>2. CASE \A p \in DOMAIN old : old[p].key # k
      BY <1>3, <2>0, <3>2
    <3> QED
      BY <3>1, <3>2
  <2>2. JobStatus' = [k \in Keys |-> IF listed[k] = "Fail" THEN "Wait" ELSE listed[k]]
    BY <2>1
  <2> HIDE DEF found
  <2>3. Job!NewRun(found)
    BY <1>1, <2>1, <2>2 DEF Job!NewRun
  <2> QED
    BY <2>0, <2>3
<1> QED
  BY <1>4, <1>5 DEF Turns

\* A save that moves one entry.
LEMMA MoveMaps ==
  ASSUME NEW old \in Table, WellIndexed(old), NEW new \in Table, WellIndexed(new),
         NEW from, NEW to, Moves(new, old, from, to),
         JobStatus = [k \in Keys |-> StatusOf(old, k)],
         JobStatus' = [k \in Keys |-> StatusOf(new, k)]
  PROVE  \E k \in Keys : JobStatus[k] = from /\ JobStatus' = [JobStatus EXCEPT ![k] = to]
<1>1. PICK q \in DOMAIN old :
        /\ old[q].key \in Keys /\ old[q].status = from /\ new[q].status = to
        /\ \A p \in DOMAIN old \ {q} : new[p].status = old[p].status
  BY DEF Moves
<1>2. DOMAIN new = DOMAIN old /\ \A p \in DOMAIN old : new[p].key = old[p].key
  BY DEF Moves
<1> DEFINE k == old[q].key
<1>3. JobStatus[k] = from /\ JobStatus'[k] = to
  BY <1>1, <1>2, StatusesOf
<1>4. ASSUME NEW j \in Keys, j # k PROVE JobStatus'[j] = JobStatus[j]
  <2>1. CASE \E p \in DOMAIN old : old[p].key = j
    <3>1. PICK p \in DOMAIN old : old[p].key = j
      BY <2>1
    <3>2. p # q /\ new[p].key = j
      BY <1>2, <1>4, <3>1
    <3>3. StatusOf(old, j) = old[p].status /\ StatusOf(new, j) = new[p].status
      BY <1>2, <3>1, <3>2, StatusesOf
    <3> QED
      BY <1>1, <3>2, <3>3
  <2>2. CASE \A p \in DOMAIN old : old[p].key # j
    BY <1>2, <2>2, StatusesOf
  <2> QED
    BY <2>1, <2>2
<1>5. JobStatus' = [JobStatus EXCEPT ![k] = to]
  BY <1>1, <1>3, <1>4
<1> QED
  BY <1>1, <1>3, <1>5

\* An empty table says nothing of any dex file.
LEMMA NothingMaps == ASSUME Persisted' = <<>> PROVE JobStatus' = Job!NothingKnown
<1>1. JobStatus' = [k \in Keys |-> StatusOf(<<>>, k)]
  BY NextStatus
<1>2. \A k : StatusOf(<<>>, k) = "Unknown"
  BY DEF StatusOf, Recorded
<1> QED
  BY <1>1, <1>2 DEF Job!NothingKnown

\* A table that is not touched.
LEMMA StutterMaps == ASSUME Persisted' = Persisted PROVE UNCHANGED JobStatus
BY NextStatus DEF JobStatus

\* A file that was cut off names each dex file with its status, or as one that
\* waits, in the last entry, or not at all.
LEMMA CutMaps ==
  ASSUME JobInv, NEW tab \in CutTable(mem),
         JobStatus = [k \in Keys |-> StatusOf(mem, k)],
         JobStatus' = [k \in Keys |-> StatusOf(tab, k)]
  PROVE  /\ JobStatus' \in [Keys -> Job!Statuses]
         /\ \A k \in Keys : JobStatus'[k] \in {JobStatus[k], "Unknown", "Wait"}
         /\ \A j, k \in Keys :
              (\A i \in {j, k} : JobStatus'[i] = "Wait" /\ JobStatus[i] # "Wait") => j = k
<1>1. mem \in Table /\ WellIndexed(mem) /\ tab \in Table /\ WellIndexed(tab)
  BY CutTableProperties DEF JobInv, StableInv, IInv, TypeOK, RecordsIndexed
<1>2. ASSUME NEW k \in Keys, NEW p \in DOMAIN tab, tab[p].key = k
      PROVE  /\ JobStatus'[k] = tab[p].status
             /\ p \in DOMAIN mem
             /\ tab[p] = mem[p] => JobStatus[k] = tab[p].status
             /\ tab[p] # mem[p] => p = Len(tab) /\ tab[p].status = "Wait"
             /\ tab[p].status \in Job!Statuses
  <2>1. StatusOf(tab, k) = tab[p].status
    BY <1>1, <1>2, StatusesOf
  <2>2. p \in DOMAIN mem /\ k # NoKey
    BY <1>1, <1>2, CutTableProperties, NoKeyAssumption
  <2>3. tab[p] # mem[p] => p = Len(tab) /\ tab[p].status = "Wait"
    BY <1>1, <1>2, <2>2, CutTableProperties
  <2>4. tab[p] = mem[p] => StatusOf(mem, k) = tab[p].status
    BY <1>1, <1>2, <2>2, StatusesOf
  <2>5. tab[p].status \in Status /\ tab[p].status # "Error"
    BY <1>1, <1>2, <2>2, <2>3, TableShape DEF Entry, JobInv, StableInv, ErrorInv
  <2> QED
    BY <2>1, <2>2, <2>3, <2>4, <2>5 DEF Status, Job!Statuses
<1>3. ASSUME NEW k \in Keys, \A p \in DOMAIN tab : tab[p].key # k
      PROVE  JobStatus'[k] = "Unknown"
  BY <1>1, <1>3, StatusesOf
<1>4. ASSUME NEW k \in Keys
      PROVE  /\ JobStatus'[k] \in {JobStatus[k], "Unknown", "Wait"}
             /\ JobStatus'[k] \in Job!Statuses
  <2>1. CASE \E p \in DOMAIN tab : tab[p].key = k
    BY <1>2, <2>1
  <2>2. CASE \A p \in DOMAIN tab : tab[p].key # k
    BY <1>3, <2>2 DEF Job!Statuses
  <2> QED
    BY <2>1, <2>2
<1>5. ASSUME NEW k \in Keys, JobStatus'[k] = "Wait", JobStatus[k] # "Wait"
      PROVE  Len(tab) \in DOMAIN tab /\ tab[Len(tab)].key = k
  <2>1. PICK p \in DOMAIN tab : tab[p].key = k
    BY <1>3, <1>5
  <2> QED
    BY <1>2, <1>5, <2>1
<1> QED
  BY <1>4, <1>5

\* The end of a process, in the middle of a save or elsewhere.
LEMMA DeathMaps ==
  ASSUME JobInv, ProcessEnds
  PROVE  Job!Next \/ UNCHANGED Job!vars
<1> USE DEF JobInv
<1>0. pc' = "off" /\ UNCHANGED dir
  BY DEF ProcessEnds
<1>1. CASE pc = "write" /\ dir
  <2>1. Persisted = mem /\ Persisted' = disk' /\ disk = <<>>
    BY <1>0, <1>1 DEF Persisted, PendingInv
  <2>2. JobRecord = "open" /\ JobRecord' = "kept"
    BY <1>0, <1>1 DEF JobRecord
  <2>3. CASE disk' = <<>>
    BY <2>1, <2>2, <2>3, NothingMaps DEF Job!Lose, Job!Next
  <2>4. CASE MayTear /\ disk' \in CutTable(mem)
    <3>1. /\ JobStatus = [k \in Keys |-> StatusOf(mem, k)]
          /\ JobStatus' = [k \in Keys |-> StatusOf(disk', k)]
      BY <2>1, NextStatus DEF JobStatus
    <3>2. Job!LosePart
      BY <2>2, <2>4, <3>1, CutMaps DEF Job!LosePart
    <3> QED
      BY <3>2 DEF Job!Next
  <2> QED
    BY <1>1, <2>1, <2>3, <2>4 DEF ProcessEnds
<1>2. CASE ~(pc = "write" /\ dir)
  <2>1. Persisted' = Persisted /\ JobRecord' = JobRecord
    BY <1>0, <1>2 DEF ProcessEnds, Persisted, JobRecord
  <2> QED
    BY <2>1, StutterMaps DEF Job!vars
<1> QED
  BY <1>1, <1>2

\* The truncation that begins a save is where the record changes.
LEMMA SaveMaps ==
  ASSUME JobInv, SaveTrunc
  PROVE  Job!Next \/ UNCHANGED Job!vars
<1> USE DEF JobInv
<1>1. CASE dir
  <2>1. /\ mem \in Table /\ WellIndexed(mem) /\ disk \in Table /\ WellIndexed(disk)
        /\ resume \in {"refresh", "rebuild", "scan"}
    BY DEF StableInv, IInv, TypeOK, RecordsIndexed
  <2>2. Persisted = disk /\ Persisted' = mem
    BY <1>1 DEF SaveTrunc, Persisted
  <2>3. /\ JobStatus = [k \in Keys |-> StatusOf(disk, k)]
        /\ JobStatus' = [k \in Keys |-> StatusOf(mem, k)]
    BY <2>2, NextStatus DEF JobStatus
  <2>7. Job!Change
    BY <1>1 DEF SaveTrunc, JobRecord, Job!Change
  <2>4. CASE resume = "refresh"
    <3>1. Turns(mem, disk)
      BY <1>1, <2>4 DEF SaveTrunc, PendingInv
    <3>2. \E found \in SUBSET Keys : Job!NewRun(found)
      BY <2>1, <2>3, <2>7, <3>1, RunMaps
    <3> QED
      BY <3>2 DEF Job!Next
  <2>5. CASE resume = "rebuild"
    <3>1. /\ Moves(mem, disk, "Wait", "Unpack")
          /\ \A p \in DOMAIN disk : disk[p].status # "Unpack"
      BY <1>1, <2>5 DEF SaveTrunc, PendingInv
    <3>2. PICK k \in Keys : JobStatus[k] = "Wait" /\ JobStatus' = [JobStatus EXCEPT ![k] = "Unpack"]
      BY <2>1, <2>3, <3>1, MoveMaps
    <3>3. ASSUME NEW j \in Keys PROVE JobStatus[j] # "Unpack"
      <4>1. CASE \A p \in DOMAIN disk : disk[p].key # j
        <5>1. StatusOf(disk, j) = "Unknown"
          BY <2>1, <4>1, StatusesOf
        <5> QED
          BY <2>3, <5>1
      <4>2. CASE \E p \in DOMAIN disk : disk[p].key = j
        <5>1. PICK p \in DOMAIN disk : disk[p].key = j
          BY <4>2
        <5>2. StatusOf(disk, j) = disk[p].status
          BY <2>1, <5>1, StatusesOf
        <5> QED
          BY <2>3, <3>1, <5>2
      <4> QED
        BY <4>1, <4>2
    <3>4. Job!Attempt(k)
      BY <2>7, <3>2, <3>3 DEF Job!Attempt
    <3> QED
      BY <3>4 DEF Job!Next
  <2>6. CASE resume = "scan"
    <3>1. Moves(mem, disk, "Unpack", "Success")
      BY <1>1, <2>6 DEF SaveTrunc, PendingInv
    <3>2. PICK k \in Keys : JobStatus[k] = "Unpack" /\ JobStatus' = [JobStatus EXCEPT ![k] = "Success"]
      BY <2>1, <2>3, <3>1, MoveMaps
    <3>3. Job!Succeed(k)
      BY <2>7, <3>2 DEF Job!Succeed
    <3> QED
      BY <3>3 DEF Job!Next
  <2> QED
    BY <2>1, <2>4, <2>5, <2>6
<1>2. CASE ~dir
  <2>1. Persisted' = Persisted /\ JobRecord' = JobRecord
    BY <1>2 DEF SaveTrunc, Persisted, JobRecord, StableInv, IInv, SavedInv
  <2> QED
    BY <2>1, StutterMaps DEF Job!vars
<1> QED
  BY <1>1, <1>2

\* Every step is a step of UnpackJob, or one it does not see.
LEMMA NextMaps ==
  ASSUME JobInv, [Next]_vars
  PROVE  Job!Next \/ UNCHANGED Job!vars
<1> USE DEF JobInv
<1>1. CASE SaveTrunc
  BY <1>1, SaveMaps
<1>2. CASE Die \/ DieRebuilding \/ DieWithoutDirectory \/ Exit
  <2>1. ProcessEnds
    BY <1>2 DEF Die, DieRebuilding, DieWithoutDirectory, Exit
  <2> QED
    BY <2>1, DeathMaps
<1>3. CASE Delete
  <2>1. Persisted' = <<>> /\ JobRecord # "gone" /\ JobRecord' = "gone"
    BY <1>3 DEF Delete, Persisted, JobRecord
  <2> QED
    BY <2>1, NothingMaps DEF Job!Delete, Job!Next
<1>4. CASE SaveWrite
  <2>1. Persisted' = Persisted
    BY <1>4 DEF SaveWrite, Resume, Persisted, StableInv, IInv, TypeOK
  <2>2. CASE dir
    <3>1. JobRecord = "open" /\ JobRecord' = "kept"
      BY <1>4, <2>2 DEF SaveWrite, Resume, JobRecord, StableInv, IInv, TypeOK
    <3> QED
      BY <2>1, <3>1, StutterMaps DEF Job!Close, Job!Next
  <2>3. CASE ~dir
    <3>1. UNCHANGED JobRecord
      BY <1>4, <2>3 DEF SaveWrite, JobRecord
    <3> QED
      BY <2>1, <3>1, StutterMaps DEF Job!vars
  <2> QED
    BY <2>2, <2>3
<1>5. CASE Begin
  <2>1. Persisted' = Persisted
    BY <1>5 DEF Begin, Persisted
  <2>2. JobRecord' = "kept" /\ JobRecord = IF dir THEN "kept" ELSE "gone"
    BY <1>5 DEF Begin, JobRecord
  <2> QED
    BY <2>1, <2>2, StutterMaps DEF Job!Prepare, Job!Next, Job!vars
<1>6. CASE UNCHANGED <<disk, dir>> /\ pc # "write" /\ pc' # "write"
  <2>1. Persisted' = Persisted /\ JobRecord' = JobRecord
    BY <1>6 DEF Persisted, JobRecord
  <2> QED
    BY <2>1, StutterMaps DEF Job!vars
<1>7. CASE UNCHANGED <<disk, dir, mem, pc>>
  <2>1. Persisted' = Persisted /\ JobRecord' = JobRecord
    BY <1>7 DEF Persisted, JobRecord
  <2> QED
    BY <2>1, StutterMaps DEF Job!vars
<1>8. Load \/ Add \/ Turn \/ Refresh \/ Skip \/ Mark \/ TakeUnrecorded \/ ScanEnd => <1>6!1
  BY DEF Load, Add, Turn, Refresh, Skip, Mark, TakeUnrecorded, ScanEnd, diskVars
<1>9. Rebuild \/ WriteRaw \/ Fix \/ WriteFixed \/ Launch => <1>6!1
  BY DEF Rebuild, WriteRaw, Fix, WriteFixed, Launch, diskVars
<1>10. App \/ UNCHANGED vars => <1>7!1
  BY DEF App, AppLoads, vars, threadVars, diskVars
<1> QED
  BY <1>1, <1>2, <1>3, <1>4, <1>5, <1>6, <1>7, <1>8, <1>9, <1>10 DEF Next, Thread

\* The dump thread implements UnpackJob, through crashes, cut files and
\* deletions, as long as the app loads its dex files before it wakes up
\* (Fupk.cpp:102-139).
THEOREM JobIsImplemented == ASSUME ~LateLoads PROVE Spec => ImplementsJob
<1>1. Init => Job!Init
  BY DEF Init, Job!Init, Job!NothingKnown, JobStatus, JobRecord, Persisted, StatusOf, Recorded
<1>2. JobInv /\ [Next]_vars => JobInv'
  BY NextStable, NextPending DEF JobInv
<1>3. JobInv /\ [Next]_vars => [Job!Next]_(Job!vars)
  BY NextMaps
<1> QED
  BY <1>1, <1>2, <1>3, InitJob, PTL DEF Spec, ImplementsJob, Job!Spec

----------------------------------------------------------------------------
(* Liveness: the invariant behind it                                       *)

\* The table of dex files changes when one is loaded, while the thread sleeps, and
\* when the process ends.
LEMMA TableSteps ==
  ASSUME ~LateLoads, [Next]_vars
  PROVE  UNCHANGED table \/ (App /\ pc = "sleep" /\ pc' = "sleep") \/ pc' = "off"
<1>1. CASE Thread
  BY <1>1 DEF Thread, Begin, Load, Add, Turn, SaveTrunc, SaveWrite, Refresh, Skip, Mark,
     TakeUnrecorded, ScanEnd, Rebuild, WriteRaw, Fix, WriteFixed, DieRebuilding,
     DieWithoutDirectory, ProcessEnds, appVars
<1>2. CASE App
  BY <1>2 DEF App, AppLoads, threadVars
<1>3. CASE Launch \/ Die \/ Exit \/ Delete \/ UNCHANGED vars
  BY <1>3 DEF Launch, Die, Exit, Delete, ProcessEnds, appVars, vars
<1> QED
  BY <1>1, <1>2, <1>3 DEF Next

\* The thread begins its work when everything that is always loaded is there.
LEMMA NextLoaded ==
  ASSUME ~LateLoads, LoadedInv, [Next]_vars
  PROVE  LoadedInv'
<1>1. CASE pc' \in {"off", "sleep"}
  BY <1>1 DEF LoadedInv
<1>2. CASE pc' \notin {"off", "sleep"} /\ UNCHANGED table
  <2>1. Loaded' = Loaded
    BY <1>2 DEF Loaded
  <2>2. CASE pc \notin {"off", "sleep"}
    BY <2>1, <2>2 DEF LoadedInv
  <2>3. CASE pc = "off"
    BY <1>2, <2>3 DEF Next, Thread, Begin, Load, Add, Turn, SaveTrunc, SaveWrite, Refresh, Skip,
       Mark, TakeUnrecorded, ScanEnd, Rebuild, WriteRaw, Fix, WriteFixed, DieRebuilding,
       DieWithoutDirectory, App, AppLoads, Launch, Die, Exit, Delete, threadVars, vars
  <2>4. CASE pc = "sleep"
    <3>1. Begin
      BY <1>2, <2>4 DEF Next, Thread, Load, Add, Turn, SaveTrunc, SaveWrite, Refresh, Skip,
         Mark, TakeUnrecorded, ScanEnd, Rebuild, WriteRaw, Fix, WriteFixed, DieRebuilding,
         DieWithoutDirectory, App, AppLoads, Launch, Die, Exit, Delete, ProcessEnds,
         threadVars, vars
    <3> QED
      BY <2>1, <3>1 DEF Begin, LoadedInv
  <2> QED
    BY <2>2, <2>3, <2>4
<1> QED
  BY <1>1, <1>2, TableSteps

\* The entries of a table are about dex files that are not ignored.
KnownTable(tab) == \A p \in DOMAIN tab : \E d \in Dex \ Ignored : tab[p].key = KeyOf[d]

\* A new entry is about the dex file it is added for.
LEMMA AddKnown ==
  ASSUME NEW tab \in Table, KnownTable(tab), NEW d \in Dex \ Ignored
  PROVE  KnownTable(AddCookie(tab, KeyOf[d]))
<1> DEFINE e == [key |-> KeyOf[d], index |-> Len(tab), status |-> "Wait"]
           t == Append(tab, e)
<1>1. CASE AddCookie(tab, KeyOf[d]) = tab
  BY <1>1
<1>2. CASE AddCookie(tab, KeyOf[d]) = t
  <2>1. /\ Len(tab) \in Nat
        /\ DOMAIN t = 1 .. (Len(tab) + 1)
        /\ \A p \in 1 .. Len(tab) : t[p] = tab[p]
        /\ t[Len(tab) + 1] = e
    BY DEF Table
  <2>2. \A p \in DOMAIN t : p \in DOMAIN tab \/ p = Len(tab) + 1
    BY <2>1, TableShape
  <2>3. \A p \in DOMAIN tab : t[p].key = tab[p].key
    BY <2>1, TableShape
  <2> QED
    BY <1>2, <2>1, <2>2, <2>3 DEF KnownTable
<1> QED
  BY <1>1, <1>2 DEF AddCookie

\* The tables stay about dex files that are not ignored, when files are not cut off.
LEMMA NextKnown ==
  ASSUME ~MayTear, StableInv, KnownInv, [Next]_vars
  PROVE  KnownInv'
<1>1. KnownTable(mem) /\ KnownTable(disk) /\ mem \in Table /\ disk \in Table /\ cur \in Int
  BY DEF KnownInv, KnownTable, StableInv, IInv, TypeOK
<1>2. SUFFICES KnownTable(mem') /\ KnownTable(disk')
  BY DEF KnownInv, KnownTable
<1>3. KnownTable(<<>>)
  BY DEF KnownTable
<1>4. CASE Add
  <2>1. CASE Sees(slot)
    <3>1. table[slot] \in Dex \ Ignored
      BY <1>4, <2>1, LookType DEF Add, Sees, StableInv, IInv
    <3> QED
      BY <1>1, <1>4, <2>1, <3>1, AddKnown DEF Add, diskVars
  <2>2. CASE ~Sees(slot)
    BY <1>1, <1>4, <2>2 DEF Add, diskVars
  <2> QED
    BY <2>1, <2>2
<1>5. CASE Turn
  <2>1. /\ DOMAIN mem' = DOMAIN mem
        /\ \A p \in DOMAIN mem : mem'[p].key = mem[p].key
    BY <1>1, <1>5, TurnStatusProperties DEF Turn
  <2> QED
    BY <1>1, <1>5, <2>1 DEF Turn, diskVars, KnownTable
<1>6. ASSUME NEW idx \in Int, NEW s \in Status, mem' = SetCookieStatus(mem, idx, s), disk' = disk
      PROVE  KnownTable(mem') /\ KnownTable(disk')
  BY <1>1, <1>6, SetCookieStatusProperties DEF KnownTable
<1>7. CASE Mark
  <2>1. mem' = SetCookieStatus(mem, cur', "Unpack") /\ disk' = disk
    BY <1>7 DEF Mark, diskVars
  <2>2. cur' \in Int
    BY <1>7, NextIInv DEF StableInv, IInv, TypeOK, Next, Thread
  <2> QED
    BY <1>6, <2>1, <2>2 DEF Status
<1>8. CASE WriteFixed
  BY <1>1, <1>6, <1>8 DEF WriteFixed, Status
<1>9. CASE ProcessEnds
  BY <1>1, <1>3, <1>9 DEF ProcessEnds
<1>10. CASE Load
  BY <1>1, <1>10 DEF Load, diskVars
<1>11. CASE Delete \/ SaveTrunc \/ SaveWrite
  BY <1>1, <1>3, <1>11 DEF Delete, SaveTrunc, SaveWrite, threadVars
<1>12. CASE UNCHANGED <<mem, disk>>
  BY <1>1, <1>12
<1> QED
  BY <1>4, <1>5, <1>7, <1>8, <1>9, <1>10, <1>11, <1>12
     DEF Next, Thread, Begin, Refresh, Skip, TakeUnrecorded, ScanEnd, Rebuild, WriteRaw, Fix,
         DieRebuilding, DieWithoutDirectory, App, AppLoads, Launch, Die, Exit,
         threadVars, diskVars, vars

\* The invariant of the liveness proof.
LEMMA LiveInvariance == ASSUME ~LateLoads, ~MayTear PROVE Spec => []LiveInv
<1>1. Init => LiveInv
  BY InitStable DEF Init, LiveInv, LoadedInv, KnownInv
<1>2. LiveInv /\ [Next]_vars => LiveInv'
  BY NextStable, NextLoaded, NextKnown DEF LiveInv
<1> QED
  BY <1>1, <1>2, PTL DEF Spec

----------------------------------------------------------------------------
(* Every run ends: what is left of it counts the slots that are free while *)
(* the thread sleeps, then the slots before the two scans, and up to ten   *)
(* steps for the dex file in each.                                         *)

FreeSlots == {s \in Slots : table[s] = NoDex}

Rounds == 10 * (NumSlots - slot)

Saving == pc \in {"trunc", "write"}

RunLeft ==
  CASE pc = "off"                            -> 0
    [] pc = "done"                           -> 1
    [] pc = "scan"                           -> 2 + Rounds
    [] pc = "write" /\ resume = "scan"       -> 3 + Rounds
    [] pc = "trunc" /\ resume = "scan"       -> 4 + Rounds
    [] pc = "trunc" /\ resume = "rebuild"    -> Rounds + 1
    [] pc = "write" /\ resume = "rebuild"    -> Rounds
    [] pc = "rebuild"                        -> Rounds - 1
    [] pc = "raw"                            -> Rounds - 2
    [] pc = "fix"                            -> Rounds - 3
    [] pc = "fixed"                          -> Rounds - 4
    [] pc = "refresh"                        -> 3 + 10 * NumSlots
    [] pc = "write" /\ resume = "refresh"    -> 4 + 10 * NumSlots
    [] pc = "trunc" /\ resume = "refresh"    -> 5 + 10 * NumSlots
    [] pc = "add"                            -> 6 + 10 * NumSlots + (NumSlots - slot)
    [] pc = "load"                           -> 7 + 11 * NumSlots
    [] pc = "sleep"                          -> 8 + 11 * NumSlots + Cardinality(FreeSlots)

\* The free slots can be counted.
LEMMA FreeSlotsFinite == IsFiniteSet(FreeSlots) /\ Cardinality(FreeSlots) \in Nat
<1>1. IsFiniteSet(Slots)
  BY BoundAssumption, FS_Interval DEF Slots
<1>2. IsFiniteSet(FreeSlots)
  BY <1>1, FS_Subset DEF FreeSlots
<1> QED
  BY <1>2, FS_CardinalityType

\* What is left of a run is a number, and nothing only when the process is gone.
LEMMA RunLeftType ==
  ASSUME IInv
  PROVE  /\ RunLeft \in Nat
         /\ RunLeft = 0 => pc = "off"
<1>1. /\ NumSlots \in Nat /\ slot \in Nat /\ slot <= NumSlots
      /\ Rounds \in Nat
      /\ Busy => slot < NumSlots
      /\ pc \in Points /\ resume \in {"refresh", "rebuild", "scan"}
  BY BoundAssumption DEF IInv, TypeOK, BusyInv, Rounds
<1>2. Busy => Rounds >= 10
  BY <1>1 DEF Rounds
<1>3. pc = "sleep" => RunLeft \in Nat /\ RunLeft # 0
  BY <1>1, FreeSlotsFinite DEF RunLeft
<1>4. pc \in {"off", "done", "scan", "refresh", "add", "load"} =>
        RunLeft \in Nat /\ (RunLeft = 0 => pc = "off")
  BY <1>1 DEF RunLeft
<1>5. pc \in {"rebuild", "raw", "fix", "fixed"} => RunLeft \in Nat /\ RunLeft # 0
  <2> SUFFICES ASSUME pc \in {"rebuild", "raw", "fix", "fixed"}
               PROVE  RunLeft \in Nat /\ RunLeft # 0
    OBVIOUS
  <2>1. Rounds \in Int /\ Rounds >= 10
    BY <1>1, <1>2 DEF Busy, Dumping
  <2>2. RunLeft \in {Rounds - 1, Rounds - 2, Rounds - 3, Rounds - 4}
    BY DEF RunLeft
  <2> QED
    BY <2>1, <2>2
<1>6. Saving => RunLeft \in Nat /\ RunLeft # 0
  <2> SUFFICES ASSUME Saving
               PROVE  RunLeft \in Nat /\ RunLeft # 0
    OBVIOUS
  <2>1. CASE resume = "rebuild"
    <3>1. Rounds \in Int /\ Rounds >= 10
      BY <1>1, <1>2, <2>1 DEF Busy, Saving
    <3>2. RunLeft \in {Rounds + 1, Rounds}
      BY <2>1 DEF RunLeft, Saving
    <3> QED
      BY <3>1, <3>2
  <2>2. CASE resume = "scan"
    <3>1. RunLeft \in {3 + Rounds, 4 + Rounds}
      BY <2>2 DEF RunLeft, Saving
    <3> QED
      BY <1>1, <3>1
  <2>3. CASE resume = "refresh"
    <3>1. RunLeft \in {4 + 10 * NumSlots, 5 + 10 * NumSlots}
      BY <2>3 DEF RunLeft, Saving
    <3> QED
      BY <1>1, <3>1
  <2> QED
    BY <1>1, <2>1, <2>2, <2>3
<1> QED
  BY <1>1, <1>3, <1>4, <1>5, <1>6 DEF Points, Saving

\* A dex file that is loaded takes a free slot.
LEMMA AppTakesSlot ==
  ASSUME IInv, App, pc = "sleep"
  PROVE  RunLeft' < RunLeft /\ RunLeft' \in Nat
<1>1. PICK d \in Dex, s \in Slots, covered \in BOOLEAN : AppLoads(d, s, covered)
  BY DEF App
<1>2. pc' = "sleep" /\ table[s] = NoDex /\ table' = [table EXCEPT ![s] = d] /\ d # NoDex
  BY <1>1, DexAssumption DEF AppLoads, threadVars
<1>3. FreeSlots' = FreeSlots \ {s} /\ s \in FreeSlots
  BY <1>2 DEF FreeSlots, IInv, TypeOK
<1>4. Cardinality(FreeSlots') = Cardinality(FreeSlots) - 1 /\ Cardinality(FreeSlots) \in Nat
      /\ Cardinality(FreeSlots') \in Nat
  BY <1>3, FreeSlotsFinite, FS_RemoveElement, FS_CardinalityType
<1>5. RunLeft = 8 + 11 * NumSlots + Cardinality(FreeSlots)
      /\ RunLeft' = 8 + 11 * NumSlots + Cardinality(FreeSlots')
  BY <1>2 DEF RunLeft
<1> QED
  BY <1>4, <1>5, BoundAssumption

\* Every step of a run leaves less of it, but for a deletion, which leaves as much.
LEMMA RunDescends ==
  ASSUME ~LateLoads, IInv, pc # "off", [Next]_vars
  PROVE  /\ RunLeft' \in Int
         /\ Delete \/ UNCHANGED vars => RunLeft' = RunLeft
         /\ RunLeft' < RunLeft \/ Delete \/ UNCHANGED vars
<1>1. /\ NumSlots \in Nat /\ slot \in Nat /\ slot <= NumSlots /\ RunLeft \in Nat
      /\ Busy => slot < NumSlots
      /\ pc \in Points /\ resume \in {"refresh", "rebuild", "scan"}
      /\ RunLeft # 0
  BY BoundAssumption, RunLeftType DEF IInv, TypeOK, BusyInv
<1>2. CASE ProcessEnds
  <2>1. RunLeft' = 0
    BY <1>2 DEF ProcessEnds, RunLeft
  <2>2. pc' # pc
    BY <1>2 DEF ProcessEnds
  <2> QED
    BY <1>1, <2>1, <2>2 DEF Delete, threadVars, vars
<1>3. CASE App
  <2>1. pc = "sleep"
    BY <1>3 DEF App, AppLoads
  <2>2. RunLeft' < RunLeft /\ RunLeft' \in Nat
    BY <1>3, <2>1, AppTakesSlot
  <2>3. ~Delete /\ ~UNCHANGED vars
    <3>1. PICK d \in Dex, s \in Slots, covered \in BOOLEAN : AppLoads(d, s, covered)
      BY <1>3 DEF App
    <3>2. table[s] # table'[s]
      BY <3>1, DexAssumption DEF AppLoads, IInv, TypeOK
    <3> QED
      BY <3>2 DEF Delete, vars, appVars
  <2> QED
    BY <1>1, <2>2, <2>3
<1>4. CASE Delete \/ UNCHANGED vars
  <2>1. UNCHANGED <<pc, resume, slot, table>>
    BY <1>4 DEF Delete, vars, threadVars, appVars
  <2>2. RunLeft' = RunLeft
    BY <2>1 DEF RunLeft, Rounds, FreeSlots
  <2> QED
    BY <1>1, <1>4, <2>2
<1>5. CASE Begin
  BY <1>1, <1>5, FreeSlotsFinite DEF Begin, RunLeft
<1>6. CASE Load
  BY <1>1, <1>6 DEF Load, RunLeft
<1>7. CASE Add
  BY <1>1, <1>7 DEF Add, RunLeft
<1>8. CASE Turn
  BY <1>1, <1>8 DEF Turn, RunLeft
<1>9. CASE SaveTrunc
  <2>1. /\ pc = "trunc" /\ slot' = slot /\ Rounds' = Rounds /\ ~Delete /\ ~UNCHANGED vars
        /\ Rounds \in Int
        /\ resume = "rebuild" => Rounds >= 10
    BY <1>1, <1>9 DEF SaveTrunc, Rounds, Delete, vars, threadVars, Busy, Resume
  <2>2. \/ pc' = "write" /\ resume' = resume
        \/ pc' = resume
    BY <1>9 DEF SaveTrunc, Resume
  <2>3. CASE resume = "rebuild"
    <3>1. RunLeft = Rounds + 1 /\ RunLeft' \in {Rounds, Rounds - 1}
      BY <2>1, <2>2, <2>3 DEF RunLeft
    <3> QED
      BY <2>1, <3>1
  <2>4. CASE resume = "scan"
    <3>1. RunLeft = Rounds + 4 /\ RunLeft' \in {Rounds + 3, Rounds + 2}
      BY <2>1, <2>2, <2>4 DEF RunLeft
    <3> QED
      BY <2>1, <3>1
  <2>5. CASE resume = "refresh"
    <3>1. RunLeft = 5 + 10 * NumSlots /\ RunLeft' \in {4 + 10 * NumSlots, 3 + 10 * NumSlots}
      BY <2>1, <2>2, <2>5 DEF RunLeft
    <3> QED
      BY <1>1, <2>1, <3>1
  <2> QED
    BY <1>1, <2>3, <2>4, <2>5
<1>10. CASE SaveWrite
  <2>1. /\ pc = "write" /\ slot' = slot /\ Rounds' = Rounds /\ pc' = resume
        /\ ~Delete /\ ~UNCHANGED vars
        /\ Rounds \in Int
    BY <1>1, <1>10 DEF SaveWrite, Rounds, Resume, Delete, vars, threadVars
  <2>3. CASE resume = "rebuild"
    <3>1. RunLeft = Rounds /\ RunLeft' = Rounds - 1
      BY <2>1, <2>3 DEF RunLeft
    <3> QED
      BY <2>1, <3>1
  <2>4. CASE resume = "scan"
    <3>1. RunLeft = Rounds + 3 /\ RunLeft' = Rounds + 2
      BY <2>1, <2>4 DEF RunLeft
    <3> QED
      BY <2>1, <3>1
  <2>5. CASE resume = "refresh"
    <3>1. RunLeft = 4 + 10 * NumSlots /\ RunLeft' = 3 + 10 * NumSlots
      BY <2>1, <2>5 DEF RunLeft
    <3> QED
      BY <1>1, <2>1, <3>1
  <2> QED
    BY <1>1, <2>3, <2>4, <2>5
<1>11. CASE Refresh
  BY <1>1, <1>11 DEF Refresh, RunLeft, Rounds
<1>12. CASE Skip
  BY <1>1, <1>12 DEF Skip, RunLeft, Rounds
<1>13. CASE Mark
  BY <1>1, <1>13 DEF Mark, RunLeft, Rounds
<1>14. CASE TakeUnrecorded
  BY <1>1, <1>14 DEF TakeUnrecorded, RunLeft, Rounds
<1>15. CASE ScanEnd
  BY <1>1, <1>15 DEF ScanEnd, RunLeft, Rounds
<1>16. CASE Rebuild
  BY <1>1, <1>16 DEF Rebuild, RunLeft, Rounds
<1>17. CASE WriteRaw
  BY <1>1, <1>17 DEF WriteRaw, RunLeft, Rounds
<1>18. CASE Fix
  BY <1>1, <1>18 DEF Fix, RunLeft, Rounds
<1>19. CASE WriteFixed
  BY <1>1, <1>19 DEF WriteFixed, RunLeft, Rounds, Busy, Dumping
<1>20. ~Launch
  BY DEF Launch
<1> QED
  BY <1>2, <1>3, <1>4, <1>5, <1>6, <1>7, <1>8, <1>9, <1>10, <1>11, <1>12, <1>13, <1>14, <1>15,
     <1>16, <1>17, <1>18, <1>19, <1>20
     DEF Next, Thread, Die, DieRebuilding, DieWithoutDirectory, Exit

----------------------------------------------------------------------------
(* The process is gone again and again, and started again.                 *)

\* No run has more steps than a number that depends on the slots only.
LEMMA RunLeftBounded == IInv => RunLeft <= 8 + 12 * NumSlots
<1> SUFFICES ASSUME IInv PROVE RunLeft <= 8 + 12 * NumSlots
  OBVIOUS
<1>1. /\ NumSlots \in Nat /\ slot \in Nat /\ slot <= NumSlots
      /\ pc \in Points /\ resume \in {"refresh", "rebuild", "scan"}
  BY BoundAssumption DEF IInv, TypeOK
<1>2. Cardinality(FreeSlots) <= NumSlots /\ Cardinality(FreeSlots) \in Nat
  <2>1. IsFiniteSet(Slots) /\ Cardinality(Slots) = NumSlots
    BY <1>1, FS_Interval DEF Slots
  <2> QED
    BY <2>1, FS_Subset, FreeSlotsFinite DEF FreeSlots
<1>3. Rounds \in Int /\ Rounds <= 10 * NumSlots
  BY <1>1 DEF Rounds
<1>4. RunLeft \in {0, 1, 2 + Rounds, 3 + Rounds, 4 + Rounds, Rounds + 1, Rounds, Rounds - 1,
                   Rounds - 2, Rounds - 3, Rounds - 4, 3 + 10 * NumSlots, 4 + 10 * NumSlots,
                   5 + 10 * NumSlots, 6 + 10 * NumSlots + (NumSlots - slot), 7 + 11 * NumSlots,
                   8 + 11 * NumSlots + Cardinality(FreeSlots)}
  BY <1>1 DEF RunLeft, Points
<1> QED
  BY <1>1, <1>2, <1>3, <1>4

\* Whatever happens in a run leaves less of it, but for a deletion, and no run has more
\* steps than a number that depends on the slots only: the dump thread never turns in a
\* circle (Fupk.cpp:30-141).
THEOREM RunsAreBounded ==
  ASSUME ~LateLoads
  PROVE  Spec => /\ [](RunLeft \in 0 .. (8 + 12 * NumSlots) /\ (RunLeft = 0 <=> pc = "off"))
                 /\ [][pc # "off" => IF Delete THEN RunLeft' = RunLeft ELSE RunLeft' < RunLeft]_vars
<1>1. IInv => RunLeft \in 0 .. (8 + 12 * NumSlots) /\ (RunLeft = 0 <=> pc = "off")
  <2>1. pc = "off" => RunLeft = 0
    BY DEF RunLeft
  <2> QED
    BY <2>1, RunLeftType, RunLeftBounded, BoundAssumption
<1>2. IInv /\ [Next]_vars =>
        [pc # "off" => IF Delete THEN RunLeft' = RunLeft ELSE RunLeft' < RunLeft]_vars
  BY RunDescends
<1> QED
  BY <1>1, <1>2, Invariance, PTL DEF Spec

----------------------------------------------------------------------------
(* What the fairness is about is possible where a run needs it.  The       *)
(* provers do not look into ENABLED: it is proved that the conditions of a *)
(* disjunct of the action hold; that it is then enabled, GuardsSuffice, is *)
(* the meaning of ENABLED: each of them changes a variable and gives a     *)
(* value to every other.                                                   *)

\* The conditions of AppLoads, for a dex file that is always loaded.
CanLoad ==
  /\ pc = "sleep"
  /\ \E d \in Resident, s \in Slots : d \notin Loaded /\ table[s] = NoDex

\* The conditions of Skip, Mark and TakeUnrecorded for what the thread sees in a slot.
CanTake(s) ==
  LET idx == CookieIndex(mem, KeyOf[table[s]])
  IN  \/ idx # -1 /\ CookieStatus(mem, idx) # "Wait"
      \/ idx # -1 /\ CookieStatus(mem, idx) = "Wait"
      \/ idx = -1

\* Those of the actions of the thread, in the order of the run.
CanGoOn ==
  \/ pc = "sleep" /\ Resident \subseteq Loaded /\ LoaderOutcomes # {}
  \/ pc = "load"
  \/ pc = "add" /\ (slot < NumSlots \/ slot = NumSlots)
  \/ pc \in {"trunc", "write", "refresh"}
  \/ pc = "scan" /\ slot < NumSlots /\ (~Sees(slot) \/ CanTake(slot))
  \/ pc = "scan" /\ slot = NumSlots
  \/ pc = "rebuild" /\ ((dex \notin Crashing /\ dir) \/ dex \in Crashing \/ ~dir)
  \/ pc = "fix" /\ (dir \/ ~dir)
  \/ pc \in {"raw", "fixed"}

GuardsSuffice ==
  /\ pc = "off" => ENABLED <<Launch>>_vars
  /\ CanLoad => ENABLED <<LoadResident>>_vars
  /\ CanGoOn => ENABLED <<Thread>>_vars
  /\ pc = "done" => ENABLED <<Exit>>_vars

\* No dex file is in two slots.
DistinctInv == \A r, s \in Slots : table[r] = table[s] /\ table[r] # NoDex => r = s

LEMMA Distinct == Spec => []DistinctInv
<1>1. Init => DistinctInv
  BY DEF Init, DistinctInv
<1>2. IInv /\ DistinctInv /\ [Next]_vars => DistinctInv'
  <2> SUFFICES ASSUME IInv, DistinctInv, [Next]_vars
               PROVE  DistinctInv'
    OBVIOUS
  <2>1. ASSUME NEW d \in Dex, NEW s \in Slots, NEW covered \in BOOLEAN, AppLoads(d, s, covered)
        PROVE  DistinctInv'
    <3>1. /\ table \in [Slots -> Dex \cup {NoDex}] /\ table' = [table EXCEPT ![s] = d]
          /\ \A r \in Slots : table[r] # d
      BY <2>1, DexAssumption DEF AppLoads, Loaded, IInv, TypeOK
    <3> QED
      BY <3>1 DEF DistinctInv
  <2>2. ProcessEnds => DistinctInv'
    BY DEF ProcessEnds, DistinctInv
  <2>3. UNCHANGED table => DistinctInv'
    BY DEF DistinctInv
  <2>4. Thread => UNCHANGED table \/ ProcessEnds
    BY DEF Thread, Begin, Load, Add, Turn, SaveTrunc, SaveWrite, Refresh, Skip, Mark,
           TakeUnrecorded, ScanEnd, Rebuild, WriteRaw, Fix, WriteFixed, DieRebuilding,
           DieWithoutDirectory, appVars
  <2>5. Launch \/ Die \/ Exit \/ Delete \/ UNCHANGED vars => UNCHANGED table \/ ProcessEnds
    BY DEF Launch, Die, Exit, Delete, appVars, vars
  <2> QED
    BY <2>1, <2>2, <2>3, <2>4, <2>5 DEF Next, App
<1> QED
  BY <1>1, <1>2, Invariance, PTL DEF Spec

\* While a dex file is not loaded there is a slot for it, if the table is large enough.
LEMMA SlotIsFree ==
  ASSUME IsFiniteSet(Dex), Cardinality(Dex) <= NumSlots, IInv, DistinctInv,
         NEW d \in Dex, d \notin Loaded
  PROVE  \E s \in Slots : table[s] = NoDex
<1> SUFFICES ASSUME \A s \in Slots : table[s] # NoDex
             PROVE  FALSE
  OBVIOUS
<1>1. table \in [Slots -> Dex \ {d}]
  BY DEF IInv, TypeOK, Loaded
<1>2. NumSlots \in Nat /\ IsFiniteSet(Slots) /\ Cardinality(Slots) = NumSlots
  <2>1. NumSlots \in Nat
    BY BoundAssumption
  <2>2. IsFiniteSet(0 .. (NumSlots - 1)) /\ Cardinality(0 .. (NumSlots - 1)) = NumSlots
    <3>1. NumSlots - 1 \in Int /\ NumSlots - 1 - 0 + 1 = NumSlots /\ (0 > NumSlots - 1 => NumSlots = 0)
      BY <2>1
    <3> QED
      BY <3>1, FS_Interval
  <2> QED
    BY <2>1, <2>2 DEF Slots
<1>3. IsFiniteSet(Dex \ {d}) /\ Cardinality(Dex \ {d}) < NumSlots
  <2>1. IsFiniteSet(Dex \ {d}) /\ Cardinality(Dex \ {d}) = Cardinality(Dex) - 1
    BY FS_RemoveElement
  <2>2. Cardinality(Dex) \in Nat
    BY FS_CardinalityType
  <2> QED
    BY <1>2, <2>1, <2>2
<1>4. PICK r \in Slots, s \in Slots : r # s /\ table[r] = table[s]
  BY <1>1, <1>2, <1>3, FS_PigeonHole
<1> QED
  BY <1>4 DEF DistinctInv

\* The thread waits for the app; the thread can go on.
Awaiting == pc = "sleep" /\ ~(Resident \subseteq Loaded)
Going == pc \notin {"off", "done"} /\ (pc = "sleep" => Resident \subseteq Loaded)

FairEnabled ==
  /\ pc = "off" => ENABLED <<Launch>>_vars
  /\ Awaiting => ENABLED <<LoadResident>>_vars
  /\ Going => ENABLED <<Thread>>_vars
  /\ pc = "done" => ENABLED <<Exit>>_vars

\* Each place of the run has its actions, and there is a slot for what the app loads.
LEMMA FairIsEnabled ==
  ASSUME IsFiniteSet(Dex), Cardinality(Dex) <= NumSlots
  PROVE  Spec /\ []GuardsSuffice => []FairEnabled
<1>1. IInv /\ DistinctInv /\ GuardsSuffice => FairEnabled
  <2> SUFFICES ASSUME IInv, DistinctInv, GuardsSuffice
               PROVE  FairEnabled
    OBVIOUS
  <2>1. ASSUME Awaiting
        PROVE  CanLoad
    <3>1. PICK d \in Resident : d \notin Loaded
      BY <2>1 DEF Awaiting
    <3>2. d \in Dex
      BY DexAssumption
    <3>3. \E s \in Slots : table[s] = NoDex
      BY <3>1, <3>2, SlotIsFree
    <3> QED
      BY <2>1, <3>1, <3>3 DEF Awaiting, CanLoad
  <2>2. ASSUME Going
        PROVE  CanGoOn
    <3>1. pc \in Points /\ slot \in 0 .. NumSlots /\ LoaderOutcomes # {}
      BY BoundAssumption DEF IInv, TypeOK
    <3>2. slot < NumSlots \/ slot = NumSlots
      BY <3>1, BoundAssumption
    <3>3. CanTake(slot)
      BY DEF CanTake
    <3>4. pc \in {"sleep", "load", "add", "trunc", "write", "refresh", "scan", "rebuild",
                  "raw", "fix", "fixed"}
      BY <2>2, <3>1 DEF Going, Points
    <3> QED
      BY <2>2, <3>1, <3>2, <3>3, <3>4 DEF Going, CanGoOn
  <2> QED
    BY <2>1, <2>2 DEF GuardsSuffice, FairEnabled
<1> QED
  BY <1>1, Distinct, Invariance, PTL

----------------------------------------------------------------------------
(* All runs end.                                                           *)

\* What the proofs of liveness assume: fairness, and that the actions it is about
\* are possible where they are awaited.
Live == FairSpec /\ []FairEnabled

\* Only a death or a deletion by the user counts as a fault.
LEMMA FaultSteps ==
  /\ Thread \/ App \/ Launch \/ Exit => faults' = faults
  /\ Die \/ Delete => faults' = faults + 1
BY DEF Thread, App, AppLoads, Launch, Exit, Die, Delete, Begin, Load, Add, Turn, SaveTrunc,
   SaveWrite, Refresh, Skip, Mark, TakeUnrecorded, ScanEnd, Rebuild, WriteRaw, Fix, WriteFixed,
   DieRebuilding, DieWithoutDirectory

\* What a step leaves of a run, and what the steps the fairness is about leave of it.
LEMMA RunStep ==
  ASSUME ~LateLoads, IInv, pc # "off", [Next]_vars, NEW n \in Nat, RunLeft <= n + 1
  PROVE  /\ \/ (RunLeft <= n)'
            \/ (RunLeft <= n + 1)' /\ UNCHANGED <<pc, Loaded>>
         /\ Thread \/ LoadResident \/ Exit => (RunLeft <= n)' \/ UNCHANGED vars
<1>1. RunLeft \in Nat
  BY RunLeftType
<1>2. /\ RunLeft' \in Int
      /\ Delete \/ UNCHANGED vars => RunLeft' = RunLeft
      /\ RunLeft' < RunLeft \/ Delete \/ UNCHANGED vars
  BY RunDescends
<1>3. Delete \/ UNCHANGED vars => UNCHANGED <<pc, Loaded>>
  BY DEF Delete, vars, threadVars, appVars, Loaded
<1>4. Thread \/ LoadResident \/ Exit => ~Delete
  <2>1. LoadResident => App
    BY DexAssumption DEF LoadResident, App
  <2>2. faults \in Int
    BY DEF IInv, TypeOK
  <2> QED
    BY <2>1, <2>2, FaultSteps
<1> QED
  BY <1>1, <1>2, <1>3, <1>4

\* A run of which at most n steps are left ends.
EndsWithin(n) == Live => [](RunLeft <= n => <>(pc = "off"))

\* Induction on a number that goes down.  It is true whatever P says, but no set can hold
\* the numbers a temporal formula is true of, so that the library's theorem,
\* NatInduction, does not give it: the theorems about liveness take the instances they
\* need as hypotheses.
Induction(P(_)) == P(0) /\ (\A n \in Nat : P(n) => P(n + 1)) => \A n \in Nat : P(n)
RunInduction == Induction(EndsWithin)

\* The process never runs for ever: the thread comes to the end of unpackAll, or
\* dies on its way there, however often the directory is deleted meanwhile.
LEMMA EveryRunEnds ==
  ASSUME ~LateLoads, NEW m \in Nat
  PROVE  RunInduction => EndsWithin(m)
<1>1. EndsWithin(0)
  <2>1. IInv /\ RunLeft <= 0 => pc = "off"
    BY RunLeftType
  <2> QED
    BY <2>1, Invariance, PTL DEF EndsWithin, Live, FairSpec
<1>2. ASSUME NEW n \in Nat
      PROVE  EndsWithin(n) => EndsWithin(n + 1)
  <2>1. IInv /\ ~(pc = "off") /\ RunLeft <= n + 1 /\ [Next]_vars =>
          (RunLeft <= n)' \/ ((RunLeft <= n + 1)' /\ UNCHANGED <<pc, Loaded>>)
    BY RunStep
  <2>2. /\ IInv /\ ~(pc = "off") /\ RunLeft <= n + 1 /\ <<Thread>>_vars => (RunLeft <= n)'
        /\ IInv /\ ~(pc = "off") /\ RunLeft <= n + 1 /\ <<LoadResident>>_vars => (RunLeft <= n)'
        /\ IInv /\ ~(pc = "off") /\ RunLeft <= n + 1 /\ <<Exit>>_vars => (RunLeft <= n)'
    <3>1. LoadResident => Next
      BY DexAssumption DEF LoadResident, App, Next
    <3> QED
      BY <3>1, RunStep DEF Next
  <2>3. UNCHANGED <<pc, Loaded>> =>
          /\ Awaiting => Awaiting'
          /\ Going => Going'
          /\ pc = "done" => (pc = "done")'
          /\ ~(pc = "off") => ~(pc = "off")'
    BY DEF Awaiting, Going
  <2>4. IInv => pc = "off" \/ Awaiting \/ Going \/ pc = "done"
    BY DEF Awaiting, Going
  <2>5. /\ FairEnabled /\ Awaiting => ENABLED <<LoadResident>>_vars
        /\ FairEnabled /\ Going => ENABLED <<Thread>>_vars
        /\ FairEnabled /\ pc = "done" => ENABLED <<Exit>>_vars
    BY DEF FairEnabled
  <2>6. Live /\ EndsWithin(n) => [](RunLeft <= n + 1 /\ Awaiting => <>(pc = "off"))
    BY <2>1, <2>2, <2>3, <2>5, Invariance, PTL DEF EndsWithin, Live, FairSpec, Spec
  <2>7. Live /\ EndsWithin(n) => [](RunLeft <= n + 1 /\ Going => <>(pc = "off"))
    BY <2>1, <2>2, <2>3, <2>5, Invariance, PTL DEF EndsWithin, Live, FairSpec, Spec
  <2>8. Live /\ EndsWithin(n) => [](RunLeft <= n + 1 /\ pc = "done" => <>(pc = "off"))
    BY <2>1, <2>2, <2>3, <2>5, Invariance, PTL DEF EndsWithin, Live, FairSpec, Spec
  <2> QED
    BY <2>4, <2>6, <2>7, <2>8, Invariance, PTL DEF EndsWithin, Live, FairSpec
<1>3. \A n \in Nat : EndsWithin(n) => EndsWithin(n + 1)
  BY <1>2
<1>4. RunInduction => \A n \in Nat : EndsWithin(n)
  BY <1>1, <1>3 DEF RunInduction, Induction
<1> QED
  BY <1>4

\* Again and again the process is gone.
LEMMA AllRunsEnd ==
  ASSUME ~LateLoads
  PROVE  Live /\ RunInduction => []<>(pc = "off")
<1>1. 8 + 12 * NumSlots \in Nat
  BY BoundAssumption
<1>2. RunInduction => EndsWithin(8 + 12 * NumSlots)
  BY <1>1, EveryRunEnds
<1> QED
  BY <1>2, RunLeftBounded, Invariance, PTL DEF EndsWithin, Live, FairSpec

\* Again and again the process is gone: all its runs end (Fupk.cpp:30-141).
THEOREM RunsEnd ==
  ASSUME ~LateLoads, IsFiniteSet(Dex), Cardinality(Dex) <= NumSlots
  PROVE  FairSpec /\ []GuardsSuffice /\ RunInduction => []<>(pc = "off")
BY AllRunsEnd, FairIsEnabled, PTL DEF Live, FairSpec

----------------------------------------------------------------------------
(* The user's interventions come to an end, and then the directory stays.  *)

Calm == faults' = faults

\* With at most n faults left they come to an end.
CalmWithin(n) == Spec => [](MaxFaults - faults <= n => <>[][Calm]_vars)

FaultInduction == Induction(CalmWithin)

\* There are finitely many faults.
LEMMA FaultsEnd == Spec /\ FaultInduction => <>[][Calm]_vars
<1>1. CalmWithin(0)
  <2>1. IInv /\ MaxFaults - faults <= 0 /\ [Next]_vars => Calm /\ (MaxFaults - faults <= 0)'
    <3> SUFFICES ASSUME IInv, MaxFaults - faults <= 0, [Next]_vars
                 PROVE  Calm /\ (MaxFaults - faults <= 0)'
      OBVIOUS
    <3>1. faults \in Int /\ faults' \in Int /\ faults' <= MaxFaults /\ MaxFaults \in Int
      BY NextIInv, BoundAssumption DEF IInv, TypeOK
    <3>2. faults' = faults \/ faults' = faults + 1
      BY FaultSteps DEF Next, vars
    <3>3. ~(faults' = faults + 1)
      BY <3>1
    <3> QED
      BY <3>2, <3>3 DEF Calm
  <2> QED
    BY <2>1, Invariance, PTL DEF CalmWithin, Spec
<1>2. ASSUME NEW n \in Nat
      PROVE  CalmWithin(n) => CalmWithin(n + 1)
  <2>1. IInv /\ MaxFaults - faults <= n + 1 /\ [Next]_vars =>
          (Calm /\ (MaxFaults - faults <= n + 1)') \/ (MaxFaults - faults <= n)'
    <3> SUFFICES ASSUME IInv, MaxFaults - faults <= n + 1, [Next]_vars
                 PROVE  (Calm /\ (MaxFaults - faults <= n + 1)') \/ (MaxFaults - faults <= n)'
      OBVIOUS
    <3>1. faults \in Int /\ MaxFaults \in Int
      BY BoundAssumption DEF IInv, TypeOK
    <3>2. faults' = faults \/ faults' = faults + 1
      BY FaultSteps DEF Next, vars
    <3>3. CASE faults' = faults
      BY <3>3 DEF Calm
    <3>4. CASE faults' = faults + 1
      BY <3>1, <3>4
    <3> QED
      BY <3>2, <3>3, <3>4
  <2> QED
    BY <2>1, Invariance, PTL DEF CalmWithin, Spec
<1>3. \A n \in Nat : CalmWithin(n) => CalmWithin(n + 1)
  BY <1>2
<1>4. FaultInduction => \A n \in Nat : CalmWithin(n)
  BY <1>1, <1>3 DEF FaultInduction, Induction
<1>5. FaultInduction => CalmWithin(MaxFaults)
  BY <1>4, BoundAssumption
<1>6. Init => MaxFaults - faults <= MaxFaults
  BY BoundAssumption DEF Init
<1> QED
  BY <1>5, <1>6, PTL DEF CalmWithin, Spec

\* Without a fault the process ends on its own only.
LEMMA CalmSteps ==
  ASSUME IInv, Calm, [Next]_vars
  PROVE  ~Die /\ ~Delete
BY FaultSteps DEF Calm, IInv, TypeOK

\* A step without a fault keeps the directory, which the thread makes when it begins.
LEMMA DirStep ==
  ASSUME IInv, Calm, [Next]_vars
  PROVE  /\ dir => dir'
         /\ pc = "off" => pc' \in {"off", "sleep"}
         /\ pc = "sleep" => pc' = "sleep" \/ (pc' = "load" /\ dir')
<1>1. ~Die /\ ~Delete
  BY CalmSteps
<1>2. dir => dir'
  BY <1>1 DEF Next, Thread, App, AppLoads, Launch, Exit, Begin, Load, Add, Turn, SaveTrunc,
     SaveWrite, Refresh, Skip, Mark, TakeUnrecorded, ScanEnd, Rebuild, WriteRaw, Fix, WriteFixed,
     DieRebuilding, DieWithoutDirectory, ProcessEnds, diskVars, vars
<1>3. pc = "off" => pc' \in {"off", "sleep"}
  BY <1>1 DEF Next, Thread, App, AppLoads, Launch, Exit, Begin, Load, Add, Turn, SaveTrunc,
     SaveWrite, Refresh, Skip, Mark, TakeUnrecorded, ScanEnd, Rebuild, WriteRaw, Fix, WriteFixed,
     DieRebuilding, DieWithoutDirectory, threadVars, vars
<1>4. pc = "sleep" => pc' = "sleep" \/ (pc' = "load" /\ dir')
  BY <1>1 DEF Next, Thread, App, AppLoads, Launch, Exit, Begin, Load, Add, Turn, SaveTrunc,
     SaveWrite, Refresh, Skip, Mark, TakeUnrecorded, ScanEnd, Rebuild, WriteRaw, Fix, WriteFixed,
     DieRebuilding, DieWithoutDirectory, threadVars, vars
<1> QED
  BY <1>2, <1>3, <1>4

\* Again and again the thread is asleep, and at work, too: the app is started again.
LEMMA RunsBegin ==
  ASSUME ~LateLoads
  PROVE  Live /\ RunInduction => []<>(pc = "sleep")
<1>1. IInv /\ pc = "off" /\ [Next]_vars => (pc = "off")' \/ (pc = "sleep")'
  BY DEF Next, Thread, App, AppLoads, Launch, Exit, Begin, Load, Add, Turn, SaveTrunc,
     SaveWrite, Refresh, Skip, Mark, TakeUnrecorded, ScanEnd, Rebuild, WriteRaw, Fix, WriteFixed,
     DieRebuilding, DieWithoutDirectory, Die, Delete, threadVars, vars
<1>2. <<Launch>>_vars => (pc = "sleep")'
  BY DEF Launch
<1>3. FairEnabled /\ pc = "off" => ENABLED <<Launch>>_vars
  BY DEF FairEnabled
<1> QED
  BY <1>1, <1>2, <1>3, AllRunsEnd, Invariance, PTL DEF Live, FairSpec, Spec

\* From some time on there are no faults and the directory is there.
LEMMA DirStays ==
  ASSUME ~LateLoads
  PROVE  Live /\ RunInduction /\ FaultInduction => <>([]dir /\ [][Calm]_vars)
<1>1. IInv /\ [Calm]_vars /\ [Next]_vars =>
        /\ dir => dir'
        /\ pc = "sleep" \/ dir => (pc = "sleep" \/ dir)'
  BY DirStep DEF Calm, vars
<1>2. ~(pc = "sleep" /\ pc = "off")
  OBVIOUS
<1> QED
  BY <1>1, <1>2, FaultsEnd, AllRunsEnd, RunsBegin, Invariance, PTL DEF Live, FairSpec, Spec

----------------------------------------------------------------------------
(* The table that lives through the runs: what the next Load will read, or *)
(* what it has read and become.                                            *)

Held == IF pc \in {"off", "sleep", "load"} THEN disk ELSE mem

\* It says s of the dex files that show k.
Says(k, s) == \E p \in DOMAIN Held : Held[p].key = k /\ Held[p].status = s

\* It has an entry for every dex file that is not ignored.
Full == \A e \in Dex \ Ignored : Recorded(Held, KeyOf[e])

LEMMA HeldType ==
  ASSUME IInv PROVE Held \in Table /\ WellIndexed(Held)
BY DEF IInv, TypeOK, RecordsIndexed, Held

\* After the first scan every dex file is recorded.
LEMMA ScannedIsFull ==
  ASSUME LiveInv, Dex \ Ignored \subseteq Resident, pc \notin {"off", "sleep", "load", "add"}
  PROVE  Full
<1> SUFFICES ASSUME NEW e \in Dex \ Ignored
             PROVE  Recorded(mem, KeyOf[e])
  BY DEF Full, Held
<1>1. PICK s \in Slots : table[s] = e
  BY DEF LiveInv, LoadedInv, Loaded
<1> QED
  BY <1>1 DEF LiveInv, StableInv, RecordedInv, Visible

\* A dex file that is seen is recorded then.
LEMMA SeenIsRecorded ==
  ASSUME LiveInv, Full, pc \notin {"off", "sleep", "load"}, NEW s \in Slots, Sees(s)
  PROVE  Recorded(mem, KeyOf[table[s]]) /\ KeyOf[table[s]] \in Keys
<1>1. table[s] \in Dex \ Ignored
  BY DEF Sees, LiveInv, StableInv, IInv, TypeOK
<1> QED
  BY <1>1, DexAssumption DEF Full, Held

\* When everything is recorded and no one interferes, three steps change the table:
\* the turn of a new run, the mark, and the success of what was marked.
LEMMA HeldSteps ==
  ASSUME LiveInv, ~MayTear, Full, dir, Calm, [Next]_vars
  PROVE  Held' = Held \/ Turn \/ Mark \/ WriteFixed
<1>1. ~Die /\ ~Delete /\ ~DieWithoutDirectory
  BY CalmSteps DEF LiveInv, StableInv, DieWithoutDirectory
<1>2. pc \in Points /\ resume \in {"refresh", "rebuild", "scan"}
  BY DEF LiveInv, StableInv, IInv, TypeOK
<1>3. CASE DieRebuilding \/ Exit
  <2>1. disk' = disk /\ pc' = "off" /\ pc \in {"rebuild", "done"}
    BY <1>3 DEF DieRebuilding, Exit, ProcessEnds
  <2>2. disk = mem
    BY <2>1 DEF LiveInv, StableInv, IInv, SavedInv, Dumping
  <2> QED
    BY <2>1, <2>2 DEF Held
<1>4. CASE Begin \/ Launch \/ Load
  BY <1>4 DEF Begin, Launch, Load, Held, diskVars
<1>5. CASE Add
  <2>1. slot \in Slots
    BY <1>5, BoundAssumption DEF Add, LiveInv, StableInv, IInv, TypeOK, Slots
  <2>2. CASE Sees(slot)
    <3>1. CookieIndex(mem, KeyOf[table[slot]]) # -1
      BY <1>5, <2>1, <2>2, SeenIsRecorded, IndexIsPlace
         DEF Add, LiveInv, StableInv, IInv, TypeOK, RecordsIndexed
    <3> QED
      BY <1>5, <2>2, <3>1 DEF Add, AddCookie, Held
  <2>3. CASE ~Sees(slot)
    BY <1>5, <2>3 DEF Add, Held
  <2> QED
    BY <2>2, <2>3
<1>6. CASE SaveTrunc \/ SaveWrite
  BY <1>2, <1>6 DEF SaveTrunc, SaveWrite, Resume, Held
<1>7. CASE Refresh \/ Skip \/ TakeUnrecorded \/ ScanEnd
  BY <1>7 DEF Refresh, Skip, TakeUnrecorded, ScanEnd, Held
<1>8. CASE Rebuild \/ WriteRaw \/ Fix
  BY <1>8 DEF Rebuild, WriteRaw, Fix, Held
<1>9. CASE App \/ UNCHANGED vars
  BY <1>9 DEF App, AppLoads, vars, threadVars, diskVars, Held
<1> QED
  BY <1>1, <1>3, <1>4, <1>5, <1>6, <1>7, <1>8, <1>9 DEF Next, Thread

\* Each of the three keeps the entries, and the successes among them.
LEMMA TurnHeld ==
  ASSUME LiveInv, Turn
  PROVE  /\ Held = mem /\ Held' = TurnStatus(mem) /\ DOMAIN Held' = DOMAIN Held
         /\ \A p \in DOMAIN Held :
              /\ Held'[p].key = Held[p].key
              /\ Held'[p].status = "Success" <=> Held[p].status = "Success"
BY TurnStatusProperties DEF Turn, LiveInv, StableInv, IInv, TypeOK, Held

LEMMA MarkHeld ==
  ASSUME LiveInv, Mark
  PROVE  /\ DOMAIN Held' = DOMAIN Held
         /\ table[slot] \in Dex \ Ignored /\ slot \in Slots
         /\ \A p \in DOMAIN Held :
              /\ Held'[p].key = Held[p].key
              /\ Held[p].key = KeyOf[table[slot]] =>
                   Held[p].status = "Wait" /\ Held'[p].status = "Unpack"
              /\ Held[p].key # KeyOf[table[slot]] => Held'[p].status = Held[p].status
         /\ \E p \in DOMAIN Held : Held[p].key = KeyOf[table[slot]]
<1> DEFINE k == KeyOf[table[slot]]
           idx == CookieIndex(mem, k)
<1>1. slot \in Slots /\ mem \in Table /\ WellIndexed(mem)
  BY BoundAssumption DEF Mark, LiveInv, StableInv, IInv, TypeOK, RecordsIndexed, Slots
<1>2. table[slot] \in Dex \ Ignored /\ k \in Keys
  BY <1>1, DexAssumption DEF Mark, Sees, LiveInv, StableInv, IInv, TypeOK
<1>3. PICK q \in DOMAIN mem : mem[q].key = k
  BY <1>1, <1>2, IndexIsPlace DEF Mark, Recorded
<1>4. idx = q - 1 /\ q \in Nat /\ \A p \in DOMAIN mem : mem[p].key = k => p = q
  BY <1>1, <1>2, <1>3, IndexIsPlace, TableShape, NoKeyAssumption DEF WellIndexed, OneEntryPerKey
<1>5. idx \in Int /\ idx + 1 = q /\ "Unpack" \in Status
  BY <1>4 DEF Status
<1>6. mem[q].status = "Wait"
  BY <1>5, <1>3 DEF Mark, CookieStatus
<1>7. /\ DOMAIN mem' = DOMAIN mem
      /\ \A p \in DOMAIN mem : /\ mem'[p].key = mem[p].key
                               /\ mem'[p].status = IF p = idx + 1 THEN "Unpack" ELSE mem[p].status
  BY <1>1, <1>5, SetCookieStatusProperties DEF Mark
<1>8. Held = mem /\ Held' = mem'
  BY DEF Mark, Held
<1> QED
  BY <1>2, <1>1, <1>3, <1>4, <1>5, <1>6, <1>7, <1>8

LEMMA WriteFixedHeld ==
  ASSUME LiveInv, Full, WriteFixed
  PROVE  /\ DOMAIN Held' = DOMAIN Held
         /\ \A p \in DOMAIN Held :
              /\ Held'[p].key = Held[p].key
              /\ Held[p].key = KeyOf[dex] =>
                   Held[p].status = "Unpack" /\ Held'[p].status = "Success"
              /\ Held[p].key # KeyOf[dex] => Held'[p].status = Held[p].status
         /\ \E p \in DOMAIN Held : Held[p].key = KeyOf[dex]
<1>1. Busy /\ dex \in Dex \ Ignored /\ mem \in Table /\ cur \in Int
  BY DEF WriteFixed, Busy, Dumping, LiveInv, StableInv, IInv, TypeOK, RoundInv, Visible
<1>2. Held = mem /\ Held' = mem'
  BY DEF WriteFixed, Held
<1>3. PICK q \in DOMAIN mem : mem[q].key = KeyOf[dex]
  BY <1>1, <1>2 DEF Full, Recorded
<1>4. /\ \A p \in DOMAIN mem : mem[p].key = KeyOf[dex] => cur = p - 1 /\ mem[p].status = "Unpack"
      /\ \A p \in DOMAIN mem : p \in Int
  BY <1>1, TableShape DEF LiveInv, StableInv, IInv, AttemptInv
<1>5. /\ DOMAIN mem' = DOMAIN mem
      /\ \A p \in DOMAIN mem : /\ mem'[p].key = mem[p].key
                               /\ mem'[p].status = IF p = cur + 1 THEN "Success" ELSE mem[p].status
  <2>1. "Success" \in Status
    BY DEF Status
  <2> QED
    BY <1>1, <2>1, SetCookieStatusProperties DEF WriteFixed
<1>6. \A p \in DOMAIN mem : mem[p].key = KeyOf[dex] <=> p = cur + 1
  BY <1>3, <1>4, <1>1
<1> QED
  BY <1>2, <1>3, <1>4, <1>5, <1>6

\* Nothing that is recorded is lost.
LEMMA FullStep ==
  ASSUME LiveInv, ~MayTear, Full, dir, Calm, [Next]_vars
  PROVE  Full'
<1>1. CASE Held' = Held
  BY <1>1 DEF Full, Recorded
<1>2. CASE Turn \/ Mark \/ WriteFixed
  <2>1. DOMAIN Held' = DOMAIN Held /\ \A p \in DOMAIN Held : Held'[p].key = Held[p].key
    BY <1>2, TurnHeld, MarkHeld, WriteFixedHeld
  <2> QED
    BY <2>1 DEF Full, Recorded
<1> QED
  BY <1>1, <1>2, HeldSteps

----------------------------------------------------------------------------
(* A dex file that shows k is unpacked, or in the thread's hands: from     *)
(* there on nothing stops it when it does not kill its process.            *)

InHand(k) == Busy /\ KeyOf[dex] = k

Taken(k) == Says(k, "Success") \/ InHand(k)

\* No dex file that kills its process shows k.
Harmless(k) == \A e \in Crashing \ Ignored : KeyOf[e] # k

LEMMA TakenStep ==
  ASSUME LiveInv, ~MayTear, Full, dir, Calm, [Next]_vars, NEW k, Harmless(k), Taken(k)
  PROVE  Taken(k)'
<1>1. CASE Says(k, "Success")
  <2>1. PICK p \in DOMAIN Held : Held[p].key = k /\ Held[p].status = "Success"
    BY <1>1 DEF Says
  <2>2. p \in DOMAIN Held' /\ Held'[p].key = k /\ Held'[p].status = "Success"
    <3>1. CASE Held' = Held
      BY <2>1, <3>1
    <3>2. CASE Turn
      BY <2>1, <3>2, TurnHeld
    <3>3. CASE Mark
      BY <2>1, <3>3, MarkHeld
    <3>4. CASE WriteFixed
      BY <2>1, <3>4, WriteFixedHeld
    <3> QED
      BY <3>1, <3>2, <3>3, <3>4, HeldSteps
  <2> QED
    BY <2>2 DEF Taken, Says
<1>2. CASE InHand(k)
  <2>1. ~Die /\ ~Delete /\ ~DieWithoutDirectory
    BY CalmSteps DEF LiveInv, StableInv, DieWithoutDirectory
  <2>2. ~DieRebuilding
    BY <1>2 DEF DieRebuilding, InHand, Harmless, LiveInv, StableInv, RoundInv, Visible
  <2>3. CASE WriteFixed
    <3>1. PICK p \in DOMAIN Held : Held[p].key = KeyOf[dex]
      BY <2>3, WriteFixedHeld
    <3>2. p \in DOMAIN Held' /\ Held'[p].key = k /\ Held'[p].status = "Success"
      BY <1>2, <2>3, <3>1, WriteFixedHeld DEF InHand
    <3> QED
      BY <3>2 DEF Taken, Says
  <2>4. CASE SaveTrunc \/ SaveWrite
    <3>1. Busy' /\ dex' = dex
      BY <1>2, <2>4 DEF SaveTrunc, SaveWrite, Resume, InHand, Busy, Dumping
    <3> QED
      BY <1>2, <3>1 DEF Taken, InHand
  <2>5. CASE Rebuild \/ WriteRaw \/ Fix
    <3>1. Busy' /\ dex' = dex
      BY <2>5 DEF Rebuild, WriteRaw, Fix, Busy, Dumping
    <3> QED
      BY <1>2, <3>1 DEF Taken, InHand
  <2>6. CASE App \/ UNCHANGED vars
    <3>1. UNCHANGED <<pc, resume, dex>>
      BY <2>6 DEF App, AppLoads, vars, threadVars
    <3> QED
      BY <1>2, <3>1 DEF Taken, InHand, Busy, Dumping
  <2>7. pc \in {"rebuild", "raw", "fix", "fixed", "trunc", "write"}
    BY <1>2 DEF InHand, Busy, Dumping
  <2> QED
    BY <2>1, <2>2, <2>3, <2>4, <2>5, <2>6, <2>7
       DEF Next, Thread, Begin, Load, Add, Turn, Refresh, Skip, Mark, TakeUnrecorded, ScanEnd,
           Launch, Exit
<1> QED
  BY <1>1, <1>2 DEF Taken

----------------------------------------------------------------------------
(* Until then its chances improve: the entries that wait are tried and not *)
(* tried again before all of them were, and then all failures wait.        *)

Waiting == {p \in DOMAIN Held : Held[p].status = "Wait"}

\* How many dex files are, at most, marked before it.
Chances(k) ==
  IF Says(k, "Wait") THEN Cardinality(Waiting) ELSE Cardinality(Waiting) + Len(Held) + 1

LEMMA WaitingFinite ==
  ASSUME NEW tab \in Table, NEW P \in SUBSET DOMAIN tab
  PROVE  /\ IsFiniteSet(P)
         /\ Cardinality(P) \in Nat
         /\ Cardinality(P) <= Len(tab)
         /\ P # {} => Cardinality(P) > 0
<1>1. Len(tab) \in Nat /\ DOMAIN tab = 1 .. Len(tab)
  BY TableShape
<1>2. IsFiniteSet(DOMAIN tab) /\ Cardinality(DOMAIN tab) = Len(tab)
  BY <1>1, FS_Interval
<1>3. IsFiniteSet(P) /\ Cardinality(P) <= Len(tab)
  BY <1>2, FS_Subset
<1>4. Cardinality(P) \in Nat
  BY <1>3, FS_CardinalityType
<1>5. P # {} => Cardinality(P) # 0
  BY <1>3, FS_EmptySet
<1> QED
  BY <1>3, <1>4, <1>5

\* Whatever waits is somewhere in the table, and there are chances until it is taken.
LEMMA ChancesType ==
  ASSUME LiveInv, NEW k
  PROVE  /\ Chances(k) \in Nat
         /\ Cardinality(Waiting) \in Nat
         /\ Len(Held) \in Nat
         /\ Cardinality(Waiting) <= Len(Held)
         /\ Chances(k) > 0
<1>1. Held \in Table /\ Len(Held) \in Nat
  BY HeldType, TableShape DEF LiveInv, StableInv
<1>2. /\ IsFiniteSet(Waiting) /\ Cardinality(Waiting) \in Nat /\ Cardinality(Waiting) <= Len(Held)
      /\ Waiting # {} => Cardinality(Waiting) > 0
  BY <1>1, WaitingFinite DEF Waiting
<1>3. Says(k, "Wait") => Waiting # {}
  BY DEF Says, Waiting
<1> QED
  BY <1>1, <1>2, <1>3 DEF Chances

\* What a new run makes of the statuses: the mark of the last one becomes a failure;
\* failures wait again when nothing else does.
LEMMA TurnStatusCases ==
  ASSUME NEW tab \in Table
  PROVE  /\ ~NoneWaits(tab) =>
              \A p \in DOMAIN tab : TurnStatus(tab)[p].status =
                IF tab[p].status = "Unpack" THEN "Fail" ELSE tab[p].status
         /\ NoneWaits(tab) =>
              \A p \in DOMAIN tab : TurnStatus(tab)[p].status =
                IF tab[p].status \in {"Unpack", "Fail"} THEN "Wait" ELSE tab[p].status
<1> DEFINE u == TurnUnpack(tab)
<1>1. /\ u \in Table /\ DOMAIN u = DOMAIN tab
      /\ \A p \in DOMAIN tab :
           u[p].status = IF tab[p].status = "Unpack" THEN "Fail" ELSE tab[p].status
  BY TurnProperties
<1>2. TurnStatus(tab) = IF NoneWaits(u) THEN TurnFail(u) ELSE u
  BY DEF TurnStatus
<1> HIDE DEF u
<1>3. NoneWaits(u) <=> NoneWaits(tab)
  BY <1>1 DEF NoneWaits
<1>4. \A p \in DOMAIN u : TurnFail(u)[p].status = IF u[p].status = "Fail" THEN "Wait" ELSE u[p].status
  BY <1>1, TurnProperties
<1> QED
  BY <1>1, <1>2, <1>3, <1>4

\* The chances of a dex file that is not taken do not get worse, and a mark, which is
\* another's, makes them better.
LEMMA ChancesStep ==
  ASSUME LiveInv, LiveInv', ~MayTear, Full, dir, Calm, [Next]_vars,
         NEW d \in Dex \ Ignored, ~Taken(KeyOf[d]), ~Taken(KeyOf[d])'
  PROVE  /\ Chances(KeyOf[d])' <= Chances(KeyOf[d])
         /\ Mark => Chances(KeyOf[d])' < Chances(KeyOf[d])
         /\ Turn => Waiting' # {}
<1> DEFINE k == KeyOf[d]
<1>1. /\ Held \in Table /\ WellIndexed(Held) /\ k \in Keys
      /\ Cardinality(Waiting) \in Nat /\ Len(Held) \in Nat /\ IsFiniteSet(Waiting)
  BY HeldType, TableShape, WaitingFinite, DexAssumption DEF LiveInv, StableInv, Waiting
<1>2. /\ Held' \in Table
      /\ Cardinality(Waiting') \in Nat /\ Len(Held') \in Nat
      /\ Cardinality(Waiting') <= Len(Held')
      /\ DOMAIN Held' = 1 .. Len(Held')
  <2>1. Held' \in Table
    BY DEF Held, LiveInv, StableInv, IInv, TypeOK
  <2> QED
    BY <2>1, TableShape, WaitingFinite DEF Waiting
<1>3. PICK q \in DOMAIN Held : Held[q].key = k
  BY DEF Full, Recorded
<1>4. DOMAIN Held' = DOMAIN Held => Len(Held') = Len(Held)
  BY <1>1, <1>2, TableShape
<1> HIDE DEF k
<1>5. CASE Mark
  <2> DEFINE j == KeyOf[table[slot]]
  <2>1. j # k
    <3>1. Busy' /\ dex' = table[slot]
      BY <1>5 DEF Mark, Busy
    <3> QED
      BY <3>1 DEF Taken, InHand, k
  <2>2. /\ DOMAIN Held' = DOMAIN Held
        /\ \A p \in DOMAIN Held :
             /\ Held'[p].key = Held[p].key
             /\ Held[p].key = j => Held[p].status = "Wait" /\ Held'[p].status = "Unpack"
             /\ Held[p].key # j => Held'[p].status = Held[p].status
        /\ j \in Keys
    BY <1>5, MarkHeld, DexAssumption
  <2>3. PICK r \in DOMAIN Held : Held[r].key = j
    BY <1>5, MarkHeld
  <2> HIDE DEF j
  <2>4. \A p \in DOMAIN Held : Held[p].key = j => p = r
    BY <1>1, <2>2, <2>3, NoKeyAssumption DEF WellIndexed, OneEntryPerKey
  <2>5. r \in Waiting /\ Waiting' = Waiting \ {r}
    BY <2>2, <2>3, <2>4 DEF Waiting
  <2>6. Cardinality(Waiting') = Cardinality(Waiting) - 1
    BY <1>1, <2>5, FS_RemoveElement
  <2>7. Says(k, "Wait")' <=> Says(k, "Wait")
    BY <2>1, <2>2 DEF Says
  <2>8. Chances(k)' < Chances(k)
    BY <1>1, <1>4, <2>2, <2>6, <2>7 DEF Chances
  <2>9. ~Turn
    BY <1>5 DEF Mark, Turn
  <2> QED
    BY <1>1, <1>2, <2>8, <2>9 DEF Chances, k
<1>6. CASE Turn
  <2>1. /\ Held = mem /\ Held' = TurnStatus(Held) /\ DOMAIN Held' = DOMAIN Held
        /\ \A p \in DOMAIN Held : Held'[p].key = Held[p].key
    BY <1>6, TurnHeld
  <2>2. Held[q].status \in {"Wait", "Unpack", "Fail"}
    <3>1. Held[q].status \in Status
      BY <1>1, TableShape DEF Entry
    <3>2. Held[q].status # "Success"
      BY <1>3 DEF Taken, Says, k
    <3>3. Held[q].status # "Error"
      BY <1>1, <1>3, <2>1, NoKeyAssumption DEF LiveInv, StableInv, ErrorInv
    <3> QED
      BY <3>1, <3>2, <3>3 DEF Status
  <2>3. CASE ~NoneWaits(Held)
    <3>1. \A p \in DOMAIN Held : Held'[p].status = "Wait" <=> Held[p].status = "Wait"
      BY <1>1, <2>1, <2>3, TurnStatusCases
    <3>2. Waiting' = Waiting /\ Waiting # {}
      BY <2>1, <2>3, <3>1 DEF Waiting, NoneWaits
    <3>3. Says(k, "Wait")' <=> Says(k, "Wait")
      BY <2>1, <3>1 DEF Says
    <3> QED
      BY <1>1, <1>4, <1>6, <2>1, <3>2, <3>3 DEF Chances, Mark, Turn, k
  <2>4. CASE NoneWaits(Held)
    <3>1. Held'[q].status = "Wait" /\ Held'[q].key = k
      BY <1>1, <1>3, <2>1, <2>2, <2>4, TurnStatusCases DEF NoneWaits
    <3>2. q \in Waiting' /\ Says(k, "Wait")'
      BY <2>1, <3>1 DEF Waiting, Says
    <3>3. Waiting = {} /\ ~Says(k, "Wait")
      BY <2>4 DEF NoneWaits, Waiting, Says
    <3>4. Chances(k)' = Cardinality(Waiting') /\ Chances(k) = Cardinality(Waiting) + Len(Held) + 1
      BY <3>2, <3>3 DEF Chances
    <3>5. Chances(k)' <= Chances(k)
      BY <1>1, <1>2, <1>4, <2>1, <3>4
    <3> QED
      BY <1>6, <3>2, <3>5 DEF Mark, Turn, k
  <2> QED
    BY <2>3, <2>4
<1>7. CASE WriteFixed
  <2>1. KeyOf[dex] # k
    BY <1>7 DEF WriteFixed, Taken, InHand, Busy, Dumping, k
  <2>2. /\ DOMAIN Held' = DOMAIN Held
        /\ \A p \in DOMAIN Held :
             /\ Held'[p].key = Held[p].key
             /\ Held[p].key = KeyOf[dex] =>
                  Held[p].status = "Unpack" /\ Held'[p].status = "Success"
             /\ Held[p].key # KeyOf[dex] => Held'[p].status = Held[p].status
    BY <1>7, WriteFixedHeld
  <2>3. Waiting' = Waiting /\ (Says(k, "Wait")' <=> Says(k, "Wait"))
    BY <2>1, <2>2 DEF Waiting, Says
  <2> QED
    BY <1>1, <1>4, <1>7, <2>2, <2>3 DEF Chances, Mark, Turn, WriteFixed, k
<1>8. CASE Held' = Held /\ ~Mark /\ ~Turn
  <2>1. Waiting' = Waiting /\ (Says(k, "Wait")' <=> Says(k, "Wait"))
    BY <1>8 DEF Waiting, Says
  <2> QED
    BY <1>1, <1>8, <2>1 DEF Chances, k
<1> QED
  BY <1>5, <1>6, <1>7, <1>8, HeldSteps

----------------------------------------------------------------------------
(* Every run marks a dex file that waits, if one is not taken meanwhile.   *)

\* The run has a mark before it.
Promise ==
  \/ pc \in {"sleep", "load", "add"}
  \/ (pc \in {"trunc", "write"} /\ resume = "refresh") /\ Waiting # {}
  \/ pc = "refresh" /\ Waiting # {}
  \/ pc = "scan" /\ \E s \in Slots : s >= slot /\ Visible(s) /\ Says(KeyOf[table[s]], "Wait")

\* An entry that waits is about a dex file in some slot.
LEMMA WaitingIsVisible ==
  ASSUME LiveInv, Dex \ Ignored \subseteq Resident, pc \notin {"off", "sleep"}, Waiting # {}
  PROVE  \E s \in Slots : Visible(s) /\ Says(KeyOf[table[s]], "Wait")
<1>1. PICK p \in DOMAIN Held : Held[p].status = "Wait"
  BY DEF Waiting
<1>2. PICK e \in Dex \ Ignored : Held[p].key = KeyOf[e]
  BY DEF LiveInv, KnownInv, Held
<1>3. PICK s \in Slots : table[s] = e
  BY DEF LiveInv, LoadedInv, Loaded
<1> QED
  BY <1>1, <1>2, <1>3 DEF Says, Visible

\* The loop does not pass a slot whose dex file waits.
LEMMA SkipDoesNotWait ==
  ASSUME LiveInv, Skip
  PROVE  ~(Visible(slot) /\ Says(KeyOf[table[slot]], "Wait"))
<1> SUFFICES ASSUME Visible(slot), Says(KeyOf[table[slot]], "Wait") PROVE FALSE
  OBVIOUS
<1>1. /\ slot \in Slots /\ mem \in Table /\ WellIndexed(mem)
      /\ Held = mem /\ KeyOf[table[slot]] \in Keys
  BY BoundAssumption, DexAssumption
     DEF Skip, LiveInv, StableInv, IInv, TypeOK, RecordsIndexed, Slots, Held, Visible
<1>2. Sees(slot)
  BY <1>1, VisibleIsSeen DEF Skip, LiveInv
<1>3. PICK p \in DOMAIN mem : mem[p].key = KeyOf[table[slot]] /\ mem[p].status = "Wait"
  BY <1>1 DEF Says
<1>4. CookieIndex(mem, KeyOf[table[slot]]) = p - 1 /\ p - 1 + 1 = p
  BY <1>1, <1>3, IndexIsPlace, TableShape
<1>5. CookieStatus(mem, p - 1) = "Wait"
  BY <1>3, <1>4 DEF CookieStatus
<1> QED
  BY <1>2, <1>4, <1>5 DEF Skip

\* A run that has a mark before it keeps it there until it comes.
LEMMA PromiseStep ==
  ASSUME ~LateLoads, ~MayTear, Dex \ Ignored \subseteq Resident,
         LiveInv, LiveInv', Full, dir, Calm, [Next]_vars,
         NEW d \in Dex \ Ignored, ~Taken(KeyOf[d]), ~Taken(KeyOf[d])',
         Promise, ~Mark
  PROVE  Promise'
<1>1. ~Die /\ ~Delete /\ ~DieWithoutDirectory
  BY CalmSteps DEF LiveInv, StableInv, DieWithoutDirectory
<1>2. CASE pc = "sleep"
  BY <1>2, DirStep DEF Promise, LiveInv, StableInv
<1>3. CASE pc = "load"
  <2>1. pc' \in {"load", "add"}
    BY <1>1, <1>3 DEF Next, Thread, App, AppLoads, Launch, Exit, Begin, Load, Add, Turn, SaveTrunc,
       SaveWrite, Refresh, Skip, Mark, TakeUnrecorded, ScanEnd, Rebuild, WriteRaw, Fix, WriteFixed,
       DieRebuilding, threadVars, vars
  <2> QED
    BY <2>1 DEF Promise
<1>4. CASE pc = "add"
  <2>1. pc' = "add" \/ (Turn /\ pc' = "trunc" /\ resume' = "refresh")
    BY <1>1, <1>4 DEF Next, Thread, App, AppLoads, Launch, Exit, Begin, Load, Add, Turn, SaveTrunc,
       SaveWrite, Refresh, Skip, Mark, TakeUnrecorded, ScanEnd, Rebuild, WriteRaw, Fix, WriteFixed,
       DieRebuilding, threadVars, vars
  <2> QED
    BY <2>1, ChancesStep DEF Promise
<1>5. CASE pc \in {"trunc", "write", "refresh"}
  <2>1. Waiting # {} /\ (pc \in {"trunc", "write"} => resume = "refresh")
    BY <1>5 DEF Promise
  <2>2. \/ pc' \in {"trunc", "write"} /\ resume' = "refresh"
        \/ pc' = "refresh"
        \/ Refresh
    BY <1>1, <1>5, <2>1 DEF Next, Thread, App, AppLoads, Launch, Exit, Begin, Load, Add, Turn,
       SaveTrunc, SaveWrite, Resume, Skip, Mark, TakeUnrecorded, ScanEnd, Rebuild, WriteRaw, Fix,
       WriteFixed, DieRebuilding, threadVars, vars
  <2>3. Held' = Held
    BY <1>5, HeldSteps DEF Turn, WriteFixed
  <2>4. Waiting' # {}
    BY <2>1, <2>3 DEF Waiting
  <2>5. CASE Refresh
    <3>1. pc' = "scan" /\ slot' = 0
      BY <2>5 DEF Refresh
    <3>2. PICK s \in Slots : (Visible(s) /\ Says(KeyOf[table[s]], "Wait"))'
      <4>1. table' = table
        BY <2>5 DEF Refresh
      <4>2. PICK s \in Slots : Visible(s) /\ Says(KeyOf[table[s]], "Wait")
        BY <1>5, <2>1, WaitingIsVisible
      <4> QED
        BY <2>3, <4>1, <4>2 DEF Says, Visible
    <3>3. s >= slot'
      BY <3>1, BoundAssumption DEF Slots
    <3> QED
      BY <3>1, <3>2, <3>3 DEF Promise
  <2> QED
    BY <2>2, <2>4, <2>5 DEF Promise
<1>6. CASE pc = "scan"
  <2>1. Held' = Held
    BY <1>6, HeldSteps DEF Turn, WriteFixed
  <2>2. PICK s \in Slots : s >= slot /\ Visible(s) /\ Says(KeyOf[table[s]], "Wait")
    BY <1>6 DEF Promise
  <2>3. slot \in Nat /\ s \in Nat /\ s < NumSlots /\ NumSlots \in Nat
    BY BoundAssumption DEF LiveInv, StableInv, IInv, TypeOK, Slots
  <2>4. ~TakeUnrecorded /\ ~ScanEnd
    BY <2>2, <2>3, NoneUnrecorded DEF LiveInv, ScanEnd
  <2>5. \/ Skip
        \/ UNCHANGED <<pc, slot, table>>
    BY <1>1, <1>6, <2>4 DEF Next, Thread, App, AppLoads, Launch, Exit, Begin, Load, Add, Turn,
       SaveTrunc, SaveWrite, Refresh, Rebuild, WriteRaw, Fix, WriteFixed, DieRebuilding,
       threadVars, appVars, vars
  <2>6. CASE Skip
    <3>1. pc' = "scan" /\ slot' = slot + 1 /\ table' = table
      BY <1>6, <2>6 DEF Skip
    <3>2. s # slot
      BY <2>2, <2>6, SkipDoesNotWait
    <3>3. s >= slot'
      BY <2>2, <2>3, <3>1, <3>2
    <3>4. (Visible(s) /\ Says(KeyOf[table[s]], "Wait"))'
      BY <2>1, <2>2, <3>1 DEF Says, Visible
    <3> QED
      BY <3>1, <3>3, <3>4 DEF Promise
  <2>7. CASE UNCHANGED <<pc, slot, table>>
    <3>1. (Visible(s) /\ Says(KeyOf[table[s]], "Wait"))'
      BY <2>1, <2>2, <2>7 DEF Says, Visible
    <3> QED
      BY <1>6, <2>2, <2>7, <3>1 DEF Promise
  <2> QED
    BY <2>5, <2>6, <2>7
<1> QED
  BY <1>2, <1>3, <1>4, <1>5, <1>6 DEF Promise

----------------------------------------------------------------------------
(* From run to run the chances get better, until the dex file is taken.    *)

\* The dex files AllUnpacked is about.
GoodDex == Resident \ (Crashing \cup Ignored)

\* At most n chances, or one more in a run that has a mark before it.
Better(k, n) == Chances(k) <= n \/ (Chances(k) <= n + 1 /\ Promise)

LEMMA BetterStep ==
  ASSUME ~LateLoads, ~MayTear, Dex \ Ignored \subseteq Resident,
         LiveInv, LiveInv', Full, dir, Calm, [Next]_vars,
         NEW d \in GoodDex, ~Taken(KeyOf[d]), ~Taken(KeyOf[d])', NEW n \in Nat
  PROVE  /\ Chances(KeyOf[d]) <= n + 1 => (Chances(KeyOf[d]) <= n + 1)'
         /\ Better(KeyOf[d], n) => Better(KeyOf[d], n)'
<1> DEFINE c == Chances(KeyOf[d])
<1>1. d \in Dex \ Ignored
  BY DexAssumption DEF GoodDex
<1>2. c \in Int /\ c' \in Int
  <2>1. Held' \in Table
    BY DEF Held, LiveInv, StableInv, IInv, TypeOK
  <2>2. Len(Held') \in Nat /\ Cardinality(Waiting') \in Nat
    BY <2>1, TableShape, WaitingFinite DEF Waiting
  <2> QED
    BY <2>2, ChancesType DEF Chances
<1>3. c' <= c /\ (Mark => c' < c)
  BY <1>1, ChancesStep
<1>4. Promise /\ ~Mark => Promise'
  BY <1>1, PromiseStep
<1> HIDE DEF c
<1>5. /\ c <= n + 1 => c' <= n + 1
      /\ c <= n \/ (c <= n + 1 /\ Promise) => c' <= n \/ (c' <= n + 1 /\ Promise')
  BY <1>2, <1>3, <1>4
<1> QED
  BY <1>5 DEF Better, c

\* From some time on everything is recorded besides.
LEMMA FullStays ==
  ASSUME ~LateLoads, ~MayTear, Dex \ Ignored \subseteq Resident
  PROVE  Live /\ RunInduction /\ FaultInduction => <>([]dir /\ []Full /\ [][Calm]_vars)
<1> DEFINE Early == pc \in {"sleep", "load", "add"}
<1>1. LiveInv /\ LiveInv' /\ dir /\ [Calm]_vars /\ [Next]_vars =>
        /\ Full => Full'
        /\ Early \/ Full => (Early \/ Full)'
  <2> SUFFICES ASSUME LiveInv, LiveInv', dir, [Calm]_vars, [Next]_vars
               PROVE  /\ Full => Full'
                      /\ Early \/ Full => (Early \/ Full)'
    OBVIOUS
  <2>1. Calm
    BY DEF Calm, vars
  <2>2. Full => Full'
    BY <2>1, FullStep
  <2>3. Early => Early' \/ pc' = "trunc"
    BY <2>1, CalmSteps DEF LiveInv, StableInv, Next, Thread, App, AppLoads, Launch, Exit, Begin,
       Load, Add, Turn, SaveTrunc, SaveWrite, Refresh, Skip, Mark, TakeUnrecorded, ScanEnd, Rebuild,
       WriteRaw, Fix, WriteFixed, DieRebuilding, DieWithoutDirectory, threadVars, vars
  <2>4. pc' = "trunc" => Full'
    <3> SUFFICES ASSUME pc' = "trunc", NEW e \in Dex \ Ignored
                 PROVE  Recorded(mem', KeyOf[e])
      BY DEF Full, Held
    <3>1. PICK s \in Slots : table'[s] = e
      BY DEF LiveInv, LoadedInv, Loaded
    <3> QED
      BY <3>1 DEF LiveInv, StableInv, RecordedInv, Visible
  <2> QED
    BY <2>2, <2>3, <2>4
<1>2. /\ pc = "sleep" => Early
      /\ ~(pc = "off" /\ Early)
  OBVIOUS
<1> HIDE DEF Early
<1> QED
  BY <1>1, <1>2, DirStays, AllRunsEnd, RunsBegin, LiveInvariance, PTL DEF Live, FairSpec, Spec

\* The table has no more entries than the VM has slots.
LEMMA TableBounded ==
  ASSUME LiveInv, Dex \ Ignored \subseteq Resident, pc \notin {"off", "sleep"}
  PROVE  Len(Held) <= NumSlots
<1>1. /\ Held \in Table /\ WellIndexed(Held) /\ Len(Held) \in Nat /\ DOMAIN Held = 1 .. Len(Held)
      /\ NumSlots \in Nat
  BY HeldType, TableShape, BoundAssumption DEF LiveInv, StableInv
<1>2. /\ IsFiniteSet(DOMAIN Held) /\ Cardinality(DOMAIN Held) = Len(Held)
      /\ IsFiniteSet(Slots) /\ Cardinality(Slots) = NumSlots
  <2>1. IsFiniteSet(1 .. Len(Held)) /\ Cardinality(1 .. Len(Held)) = Len(Held)
    BY <1>1, FS_Interval
  <2>2. IsFiniteSet(0 .. (NumSlots - 1)) /\ Cardinality(0 .. (NumSlots - 1)) = NumSlots
    <3>1. NumSlots - 1 \in Int /\ NumSlots - 1 - 0 + 1 = NumSlots /\ (0 > NumSlots - 1 => NumSlots = 0)
      BY <1>1
    <3> QED
      BY <3>1, FS_Interval
  <2> QED
    BY <1>1, <2>1, <2>2 DEF Slots
<1>3. \A p \in DOMAIN Held : \E s \in Slots : Visible(s) /\ Held[p].key = KeyOf[table[s]]
  <2> TAKE p \in DOMAIN Held
  <2>1. PICK e \in Dex \ Ignored : Held[p].key = KeyOf[e]
    BY DEF LiveInv, KnownInv, Held
  <2>2. PICK s \in Slots : table[s] = e
    BY DEF LiveInv, LoadedInv, Loaded
  <2> QED
    BY <2>1, <2>2 DEF Visible
<1> DEFINE f == [p \in DOMAIN Held |->
                  CHOOSE s \in Slots : Visible(s) /\ Held[p].key = KeyOf[table[s]]]
<1>4. \A p \in DOMAIN Held : f[p] \in Slots /\ Visible(f[p]) /\ Held[p].key = KeyOf[table[f[p]]]
  BY <1>3
<1>5. f \in [DOMAIN Held -> Slots]
  BY <1>4
<1> HIDE DEF f
<1> SUFFICES ASSUME Len(Held) > NumSlots PROVE FALSE
  BY <1>1
<1>6. PICK p \in DOMAIN Held, q \in DOMAIN Held : p # q /\ f[p] = f[q]
  BY <1>2, <1>5, FS_PigeonHole
<1>7. Held[p].key = Held[q].key /\ Held[p].key # NoKey
  BY <1>4, <1>6, DexAssumption, NoKeyAssumption DEF Visible
<1> QED
  BY <1>1, <1>6, <1>7 DEF WellIndexed, OneEntryPerKey

\* With at most n chances, the dex file d is taken in the end.
TakenWithin(d, n) ==
  Live /\ RunInduction =>
    []([]dir /\ []Full /\ [][Calm]_vars /\ Chances(KeyOf[d]) <= n => <>Taken(KeyOf[d]))

AllWithin(n) == \A d \in GoodDex : TakenWithin(d, n)

TryInduction == Induction(AllWithin)

LEMMA EachIsTaken ==
  ASSUME ~LateLoads, ~MayTear, Dex \ Ignored \subseteq Resident, NEW d \in GoodDex, NEW m \in Nat
  PROVE  TryInduction => TakenWithin(d, m)
<1>1. AllWithin(0)
  <2> SUFFICES ASSUME NEW e \in GoodDex PROVE TakenWithin(e, 0)
    BY DEF AllWithin
  <2>1. LiveInv => ~(Chances(KeyOf[e]) <= 0)
    BY ChancesType
  <2> QED
    BY <2>1, LiveInvariance, PTL DEF TakenWithin, Live, FairSpec
<1>2. ASSUME NEW n \in Nat
      PROVE  AllWithin(n) => AllWithin(n + 1)
  <2> SUFFICES ASSUME NEW e \in GoodDex
               PROVE  TakenWithin(e, n) => TakenWithin(e, n + 1)
    BY DEF AllWithin
  <2> DEFINE k == KeyOf[e]
  <2>1. LiveInv /\ LiveInv' /\ Full /\ dir /\ [Calm]_vars /\ [Next]_vars
        /\ ~Taken(k) /\ ~Taken(k)' =>
          /\ Chances(k) <= n + 1 => (Chances(k) <= n + 1)'
          /\ Better(k, n) => Better(k, n)'
    BY BetterStep DEF Calm, vars
  <2>2. Chances(k) <= n + 1 /\ pc = "sleep" => Better(k, n)
    BY DEF Better, Promise
  <2>3. Better(k, n) /\ pc = "off" => Chances(k) <= n
    BY DEF Better, Promise
  <2> QED
    BY <2>1, <2>2, <2>3, LiveInvariance, AllRunsEnd, RunsBegin, PTL
       DEF TakenWithin, Live, FairSpec, Spec
<1>3. \A n \in Nat : AllWithin(n) => AllWithin(n + 1)
  BY <1>2
<1>4. TryInduction => \A n \in Nat : AllWithin(n)
  BY <1>1, <1>3 DEF TryInduction, Induction
<1> QED
  BY <1>4 DEF AllWithin

\* When the process is gone, a dex file that was taken is a success on disk.
LEMMA TakenIsPersisted ==
  ASSUME IInv, pc = "off", NEW k \in Keys, Taken(k)
  PROVE  StatusOf(Persisted, k) = "Success"
<1>1. Says(k, "Success")
  BY DEF Taken, InHand, Busy, Dumping
<1>2. Held = disk /\ Persisted = disk
  BY DEF Held, Persisted
<1> QED
  BY <1>1, <1>2, PersistedType, SuccessMeansEntry DEF Says

\* A dex file that can be taken is a success on disk in the end, for good.
AllUnpacked == \A d \in GoodDex : <>[](StatusOf(Persisted, KeyOf[d]) = "Success")

LEMMA GoodDexesTaken ==
  ASSUME ~LateLoads, ~MayTear, Dex \ Ignored \subseteq Resident,
         \A d \in GoodDex : Harmless(KeyOf[d])
  PROVE  Live /\ RunInduction /\ FaultInduction /\ TryInduction => AllUnpacked
<1> SUFFICES ASSUME NEW d \in GoodDex
             PROVE  Live /\ RunInduction /\ FaultInduction /\ TryInduction
                      => <>[](StatusOf(Persisted, KeyOf[d]) = "Success")
  BY DEF AllUnpacked, Live
<1> DEFINE k == KeyOf[d]
           M == 2 * NumSlots + 1
<1>1. k \in Keys /\ Harmless(k) /\ M \in Nat
  BY DexAssumption, BoundAssumption DEF GoodDex
<1>2. TryInduction => TakenWithin(d, M)
  BY <1>1, EachIsTaken
<1>3. LiveInv /\ ~(pc = "off") /\ ~(pc = "sleep") => Chances(k) <= M
  <2> SUFFICES ASSUME LiveInv, pc \notin {"off", "sleep"}
               PROVE  Chances(k) <= M
    OBVIOUS
  <2>1. Len(Held) <= NumSlots /\ NumSlots \in Nat
    BY TableBounded, BoundAssumption
  <2>2. /\ Cardinality(Waiting) \in Nat /\ Len(Held) \in Nat
        /\ Cardinality(Waiting) <= Len(Held)
    BY ChancesType
  <2> QED
    BY <2>1, <2>2 DEF Chances
<1>4. LiveInv /\ [Calm]_vars /\ [Next]_vars /\ pc = "sleep" =>
        (pc = "sleep" \/ (~(pc = "off") /\ ~(pc = "sleep")))'
  BY DirStep DEF Calm, vars, LiveInv, StableInv
<1>5. LiveInv /\ Full /\ dir /\ [Calm]_vars /\ [Next]_vars /\ Taken(k) => Taken(k)'
  BY <1>1, TakenStep DEF Calm, vars
<1>6. LiveInv /\ pc = "off" /\ Taken(k) => StatusOf(Persisted, k) = "Success"
  BY <1>1, TakenIsPersisted DEF LiveInv, StableInv
<1>7. LiveInv /\ dir' /\ [Calm]_vars /\ [Next]_vars /\ StatusOf(Persisted, k) = "Success"
        => (StatusOf(Persisted, k) = "Success")'
  <2> SUFFICES ASSUME LiveInv, dir', [Calm]_vars, [Next]_vars, StatusOf(Persisted, k) = "Success"
               PROVE  StatusOf(Persisted, k)' = "Success"
    OBVIOUS
  <2>1. IInv /\ Calm
    BY DEF Calm, vars, LiveInv, StableInv
  <2>2. ~(pc = "write" /\ pc' = "off")
    BY <2>1, CalmSteps DEF IInv, TypeOK, Next, Thread, App, AppLoads, Launch, Exit, Begin, Load,
       Add, Turn, SaveTrunc, SaveWrite, Resume, Refresh, Skip, Mark, TakeUnrecorded, ScanEnd,
       Rebuild, WriteRaw, Fix, WriteFixed, DieRebuilding, DieWithoutDirectory, threadVars, vars
  <2> QED
    BY <1>1, <2>1, <2>2, SuccessStays
<1> HIDE DEF k, M
<1>8. TakenWithin(d, M) <=>
        (Live /\ RunInduction =>
           []([]dir /\ []Full /\ [][Calm]_vars /\ Chances(k) <= M => <>Taken(k)))
  BY DEF TakenWithin, k
<1>9. Live /\ RunInduction /\ FaultInduction => <>([]dir /\ []Full /\ [][Calm]_vars /\ Chances(k) <= M)
  <2>1. ~(pc = "off" /\ pc = "sleep")
    OBVIOUS
  <2> QED
    BY <1>3, <1>4, <2>1, FullStays, AllRunsEnd, RunsBegin, LiveInvariance, PTL
       DEF Live, FairSpec, Spec
<1>10. Live /\ RunInduction /\ FaultInduction /\ TryInduction
         => <>([]dir /\ []Full /\ [][Calm]_vars /\ []Taken(k))
  BY <1>2, <1>5, <1>8, <1>9, LiveInvariance, PTL DEF Live, FairSpec, Spec
<1>11. Live /\ RunInduction /\ FaultInduction /\ TryInduction => <>[](StatusOf(Persisted, k) = "Success")
  BY <1>6, <1>7, <1>10, AllRunsEnd, LiveInvariance, PTL DEF Live, FairSpec, Spec
<1> QED
  BY <1>11 DEF k

\* A dex file that the app always loads and that does not kill its process is unpacked
\* in the end, for good, whatever other dex files do (Fupk.cpp:117-139): if no
\* file is cut off and the app loads every dex file each time, for an entry that
\* waits for a dex file that does not come keeps the failures from another try;
\* and if no dex file that kills the process shows the same name and signature.
\* There is a slot for each dex file. The three inductions are over the steps of a
\* run, the faults and the chances left.
THEOREM GoodDexesUnpacked ==
  ASSUME ~LateLoads, ~MayTear, Dex \ Ignored \subseteq Resident,
         \A d \in GoodDex : Harmless(KeyOf[d]),
         IsFiniteSet(Dex), Cardinality(Dex) <= NumSlots
  PROVE  FairSpec /\ []GuardsSuffice /\ RunInduction /\ FaultInduction /\ TryInduction
           => AllUnpacked /\ GoodDexUnpacked
<1>1. Live /\ RunInduction /\ FaultInduction /\ TryInduction => AllUnpacked
  BY GoodDexesTaken
<1>2. AllUnpacked => GoodDexUnpacked
  BY DEF AllUnpacked, GoodDex, GoodDexUnpacked
<1> QED
  BY <1>1, <1>2, FairIsEnabled, PTL DEF Live, FairSpec

====
