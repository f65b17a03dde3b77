---- MODULE UnpackInfo ----
(***************************************************************************)
(* The table of cookies kept in .fupk3/information.json: UnpackInfo.h and  *)
(* UnpackInfo.cpp.  One entry per dex file ever seen, identified by the    *)
(* pair (name, signature), which is one value of Keys here.  The JSON      *)
(* array is a sequence; its element i is the entry at position i + 1.      *)
(***************************************************************************)
EXTENDS Integers, Sequences

CONSTANTS
  Keys,      \* the (name, signature) pairs a dex file can have
  NoKey      \* what an entry cut off before its signature identifies: nothing

ASSUME NoKeyAssumption == NoKey \notin Keys

\* UnpackInfo::Status
Status == {"Wait", "Unpack", "Success", "Fail", "Error"}

Entry == [key : Keys \cup {NoKey}, index : Nat, status : Status]

Table == Seq(Entry)

----------------------------------------------------------------------------
(* Operations *)

\* The position of the first entry recorded for k.
FirstOf(tab, k) ==
  CHOOSE p \in DOMAIN tab : /\ tab[p].key = k
                            /\ \A q \in 1 .. (p - 1) : tab[q].key # k

Recorded(tab, k) == \E p \in DOMAIN tab : tab[p].key = k

\* getCookieIndex: the "index" field of the entry, not its place in the array.
CookieIndex(tab, k) ==
  IF Recorded(tab, k) THEN tab[FirstOf(tab, k)].index ELSE -1

\* getCookieStatus
CookieStatus(tab, idx) ==
  IF idx + 1 \in DOMAIN tab THEN tab[idx + 1].status ELSE "Error"

\* setCookieStatus: an index outside the array changes nothing.
SetCookieStatus(tab, idx, s) ==
  IF idx + 1 \in DOMAIN tab THEN [tab EXCEPT ![idx + 1].status = s] ELSE tab

\* Mutant of AddCookie: no look for an entry that is there.
AddCookieAgain(tab, k) ==
  Append(tab, [key |-> k, index |-> Len(tab), status |-> "Wait"])

\* addCookie
AddCookie(tab, k) ==
  IF CookieIndex(tab, k) # -1
  THEN tab
  ELSE Append(tab, [key |-> k, index |-> Len(tab), status |-> "Wait"])

----------------------------------------------------------------------------
(* saveConfigFile and loadConfigFile.  A file written in full parses back  *)
(* to the table it was made from.  A file cut off in the middle does not   *)
(* parse, but the reader fills mConfig as it goes and loadConfigFile       *)
(* leaves there what was read: the entries before the cut, and, when the   *)
(* cut falls inside an entry, what the entry's fields read so far amount   *)
(* to.  The fields are written in the order index, name, signature,        *)
(* status, and a status that is missing reads as 0.                        *)

NullEntry == [key |-> NoKey, index |-> 0, status |-> "Error"]

GhostEntry == [key |-> NoKey, index |-> 0, status |-> "Wait"]

CutEntry(e) ==
  IF e = NullEntry
  THEN {NullEntry}
  ELSE {NullEntry, GhostEntry, [e EXCEPT !.status = "Wait"]}

CutTable(tab) ==
  {SubSeq(tab, 1, n) : n \in 0 .. Len(tab)}
  \cup UNION {{Append(SubSeq(tab, 1, n - 1), e) : e \in CutEntry(tab[n])} : n \in DOMAIN tab}

----------------------------------------------------------------------------
(* The second half of Fupk::restoreLastStatus *)

\* Mutants of TurnUnpack: the marks of the last run are left; whatever does not
\* wait is a failure.
TurnUnpackNone(tab) == tab

TurnUnpackAll(tab) ==
  [p \in DOMAIN tab |->
     IF tab[p].status # "Wait" THEN [tab[p] EXCEPT !.status = "Fail"] ELSE tab[p]]

\* The entry that was being unpacked when the process died is left out.
TurnUnpack(tab) ==
  [p \in DOMAIN tab |->
     IF tab[p].status = "Unpack" THEN [tab[p] EXCEPT !.status = "Fail"] ELSE tab[p]]

TurnFail(tab) ==
  [p \in DOMAIN tab |->
     IF tab[p].status = "Fail" THEN [tab[p] EXCEPT !.status = "Wait"] ELSE tab[p]]

NoneWaits(tab) == \A p \in DOMAIN tab : tab[p].status # "Wait"

\* Mutants of TurnStatus: failures are given another try when there is nothing but
\* failures; they are always given one.
TurnStatusAlone(tab) ==
  LET turned == TurnUnpack(tab)
  IN  IF \A p \in DOMAIN turned : turned[p].status = "Fail" THEN TurnFail(turned) ELSE turned

TurnStatusAlways(tab) == TurnFail(TurnUnpack(tab))

\* Failures are given another try only when nothing else waits.
TurnStatus(tab) ==
  LET turned == TurnUnpack(tab)
  IN  IF NoneWaits(turned) THEN TurnFail(turned) ELSE turned

----------------------------------------------------------------------------
(* What a table must satisfy for an index to name one dump file for one    *)
(* dex file: the stored index of an entry is its place in the array, and   *)
(* no two entries are about the same dex file.                             *)

IndexedByPlace(tab) ==
  \A p \in DOMAIN tab : tab[p].key # NoKey => tab[p].index = p - 1

OneEntryPerKey(tab) ==
  \A p, q \in DOMAIN tab : tab[p].key = tab[q].key /\ tab[p].key # NoKey => p = q

WellIndexed(tab) == IndexedByPlace(tab) /\ OneEntryPerKey(tab)

\* The status recorded for k, or "Unknown".
StatusOf(tab, k) ==
  IF Recorded(tab, k) THEN tab[FirstOf(tab, k)].status ELSE "Unknown"

====
