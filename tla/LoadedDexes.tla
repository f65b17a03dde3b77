---------------------------- MODULE LoadedDexes ----------------------------
(***************************************************************************)
(* What the VM's table of user dex files promises its callers: it is a set *)
(* of cookies.  A cookie is put in when its dex file is opened, it stays   *)
(* until somebody closes it, and a caller that shows a cookie of the set   *)
(* is never turned away.  DexFileTable implements it with a hash table.    *)
(***************************************************************************)
CONSTANT Dexes      \* the cookies: addresses of DexOrJar structures

VARIABLES loaded,   \* the cookies in the set
          leaving,  \* those that are being closed
          refused   \* the cookies a caller showed in vain

vars == <<loaded, leaving, refused>>

Init == loaded = {} /\ leaving = {} /\ refused = {}

\* addToDexFileTable
Add(d) ==
  /\ d \notin loaded
  /\ loaded' = loaded \cup {d}
  /\ UNCHANGED <<leaving, refused>>

\* closeDexFile of a dex file no class was loaded from
Leave(d) ==
  /\ d \in loaded
  /\ leaving' = leaving \cup {d}
  /\ UNCHANGED <<loaded, refused>>

Remove(d) ==
  /\ d \in leaving
  /\ leaving' = leaving \ {d} /\ loaded' = loaded \ {d}
  /\ UNCHANGED refused

\* validateCookie of a cookie that is not in the set
Refuse(d) ==
  /\ d \notin loaded
  /\ refused' = refused \cup {d}
  /\ UNCHANGED <<loaded, leaving>>

Next == \E d \in Dexes : Add(d) \/ Leave(d) \/ Remove(d) \/ Refuse(d)

Spec == Init /\ [][Next]_vars
=============================================================================
