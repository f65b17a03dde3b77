---- MODULE UnpackJob ----
(***************************************************************************)
(* What the table of cookies promises, run after run, without processes,   *)
(* slots, files or indices: the life of the attempts to unpack each dex    *)
(* file (the comments of Fupk.cpp:102, 118-119 and 124-125), and of the    *)
(* record of them, which is written anew after each change.                *)
(*                                                                         *)
(*   - at most one attempt is open, and it is a first or a repeated try of *)
(*     a dex file that was waiting;                                        *)
(*   - an attempt ends as a success, or is found open by the next run and  *)
(*     becomes a failure;                                                  *)
(*   - failures wait again only when nothing else does;                    *)
(*   - each of these changes opens the record, and nothing else happens    *)
(*     until it is closed, or the process dies and loses what is in it;    *)
(*   - as long as the record is closed, no status changes but by those     *)
(*     attempts: a success stays, unless the user deletes everything.      *)
(***************************************************************************)
CONSTANTS
  Keys,       \* the dex files
  Tearable    \* can a part of an open record be lost?

VARIABLES
  status,
  record      \* is it there, and is it being written?

vars == <<status, record>>

Statuses == {"Unknown", "Wait", "Unpack", "Success", "Fail"}

Records == {"gone", "open", "kept"}

NothingKnown == [k \in Keys |-> "Unknown"]

Init == status = NothingKnown /\ record = "gone"

Prepare ==
  /\ record = "gone"
  /\ record' = "kept"
  /\ UNCHANGED status

\* Each change is written down at once, by rewriting the whole record.
Change ==
  /\ record = "kept"
  /\ record' = "open"

\* A run starts and finds the dex files in found.
NewRun(found) ==
  LET listed == [k \in Keys |-> CASE k \in found             -> "Wait"
                                  [] status[k] = "Unpack"    -> "Fail"
                                  [] OTHER                   -> status[k]]
  IN  /\ Change
      /\ \A k \in found : status[k] = "Unknown"
      /\ \/ status' = listed
         \/ /\ \A k \in Keys : listed[k] # "Wait"
            /\ status' = [k \in Keys |-> IF listed[k] = "Fail" THEN "Wait" ELSE listed[k]]

Attempt(k) ==
  /\ Change
  /\ status[k] = "Wait"
  /\ \A j \in Keys : status[j] # "Unpack"
  /\ status' = [status EXCEPT ![k] = "Unpack"]

Succeed(k) ==
  /\ Change
  /\ status[k] = "Unpack"
  /\ status' = [status EXCEPT ![k] = "Success"]

Close ==
  /\ record = "open"
  /\ record' = "kept"
  /\ UNCHANGED status

\* The process dies while the record is open.
Lose ==
  /\ record = "open"
  /\ record' = "kept"
  /\ status' = NothingKnown

\* The same, when only the end of the record is lost: what was read of the entry in
\* the middle of which it was cut says that its dex file waits.
LosePart ==
  /\ Tearable
  /\ record = "open"
  /\ record' = "kept"
  /\ status' \in [Keys -> Statuses]
  /\ \A k \in Keys : status'[k] \in {status[k], "Unknown", "Wait"}
  /\ \A j, k \in Keys : (\A i \in {j, k} : status'[i] = "Wait" /\ status[i] # "Wait") => j = k

Delete ==
  /\ record # "gone"
  /\ record' = "gone"
  /\ status' = NothingKnown

Next ==
  \/ Prepare \/ Close \/ Lose \/ LosePart \/ Delete
  \/ \E found \in SUBSET Keys : NewRun(found)
  \/ \E k \in Keys : Attempt(k) \/ Succeed(k)

Spec == Init /\ [][Next]_vars

====
