------------------------ MODULE DexFileTable_proofs ------------------------
(***************************************************************************)
(* TLAPS proofs about DexFileTable: for any set of dex files, any          *)
(* addresses and any size, the hash table is a set that answers every      *)
(* caller rightly, and the walk of the dump thread is complete and safe    *)
(* unless the table is moved or a dex file closed under it.                *)
(***************************************************************************)
EXTENDS DexFileTable, FiniteSetTheorems, TLAPS

-----------------------------------------------------------------------------
(* The inductive invariant.                                                *)

\* Between the home slot of a dex file and the slot it is in, none is empty.
Reach(a, n) ==
  \A s \in Slots(n) : a[s] \in Dexes =>
    \A k \in Slots(n) : OnWay(Home(a[s], n), k, s) => a[k] # Null

Unique(a, n) ==
  \A r, s \in Slots(n) : a[r] \in Dexes /\ a[r] = a[s] => r = s

\* d has been put into the table and not been taken out.
Listed(d) ==
  \/ life[d] \in {"open", "closing"}
  \/ life[d] = "opening" /\ step # "add"

\* Who is inside the table, and which dex files are in it.
TableInv ==
  /\ \A d \in Dexes : life[d] = "opening" <=> owner = d
  /\ \A d \in Dexes : life[d] # "refused"
  /\ Reach(entries, length) /\ Unique(entries, length)
  /\ \A s \in Slots(length) : entries[s] \in Dexes => Listed(entries[s])
  /\ \A d \in Dexes : Listed(d) => \E s \in Slots(length) : entries[s] = d

\* The new array holds what was copied so far.
FreshInv ==
  step \in {"copy", "publish"} =>
    /\ fresh \in [Slots(2 * tableSize) -> Dexes \cup {Null}]
    /\ Reach(fresh, 2 * tableSize) /\ Unique(fresh, 2 * tableSize)
    /\ \A s \in Slots(2 * tableSize) : fresh[s] \in Dexes =>
         \E r \in Slots(copied) : entries[r] = fresh[s]
    /\ \A r \in Slots(copied) : entries[r] \in Dexes =>
         \E s \in Slots(2 * tableSize) : fresh[s] = entries[r]
    /\ step = "publish" => copied = tableSize

LiveSlots(a, n) == {s \in Slots(n) : a[s] \in Dexes}
DeadSlots(a, n) == {s \in Slots(n) : a[s] = Tombstone}

\* The counters, in the middle of an operation too, and the load they keep.
CountInv ==
  /\ numEntries = Cardinality(LiveSlots(entries, length))
  /\ IF step = "setsize"
     THEN DeadSlots(entries, length) = {}
     ELSE numDeadEntries = Cardinality(DeadSlots(entries, length))
  /\ numEntries >= 0 /\ numDeadEntries >= 0
  /\ step \in {"copy", "publish"} =>
       Cardinality(LiveSlots(fresh, 2 * tableSize)) = Cardinality(LiveSlots(entries, copied))
  /\ IF step \in {"grow", "copy", "publish", "setsize"}
     THEN (numEntries + numDeadEntries) * 8 <= tableSize * 10
     ELSE ~TooFull(numEntries + numDeadEntries, tableSize)
  /\ tableSize >= 2

\* The walk while nothing is moved: what it was given is behind it, and what is
\* still to come lies ahead, but for what restoreLastStatus overlooks; a slot that
\* was looked at is what it was then.
OnCourse ==
  /\ step \notin {"publish", "setsize"} /\ at = "here"
  /\ \A d \in held : \E s \in Slots(length) : entries[s] = d
  /\ \A s \in Slots(length) : s < i /\ entries[s] \in held =>
       entries[s] \in seen \/ Overlooked(entries[s])
  /\ \A d \in seen \ closed : \E s \in Slots(length) : s < i /\ entries[s] = d
  /\ again \subseteq closed
  /\ scan = "use" =>
       /\ i < tableSize
       /\ entries[i] \in held => datum = entries[i]
       /\ datum \in Dexes \ closed => entries[i] = datum
  /\ closed = {} =>
       /\ scan = "readable" => entries[i] # Null
       /\ scan = "take" => entries[i] \in Dexes
       /\ scan = "use" => datum \in Dexes

WalkInv ==
  /\ scan \in Holding => i < tableSize
  /\ scan \notin Holding => at = "here"
  /\ scan \in {"off", "finished"} => seen = {} /\ again = {} /\ closed = {} /\ i = 0
  /\ scan \in Walking /\ pass # "restore" => held \subseteq mapped
  /\ scan \in Walking /\ ~moved => OnCourse

IInv == TypeOK /\ TableInv /\ FreshInv /\ CountInv /\ WalkInv /\ DeathHasCause /\ WalkOnce

-----------------------------------------------------------------------------
(* Probing.                                                                *)

\* The home slot of a dex file is in the array.
LEMMA HomeInArray ==
  ASSUME NEW d \in Dexes, NEW n \in Nat \ {0}
  PROVE  Home(d, n) \in Slots(n)
<1>1. Address[d] \in Nat
  BY DexesAssumption
<1>2. Address[d] % n \in 0 .. (n - 1)
  BY <1>1
<1>3. QED
  BY <1>2 DEF Home, Slots

\* Null, Tombstone and Junk are no dex files.
LEMMA NoDexFiles == Null \notin Dexes /\ Tombstone \notin Dexes /\ Junk \notin Dexes
                      /\ Null # Tombstone /\ Null # Junk /\ Tombstone # Junk
                      /\ NoDex \notin Dexes
  BY DataAssumption, DexesAssumption

\* A search for a dex file that is in a table with unbroken ways finds it.
LEMMA SearchFinds ==
  ASSUME NEW n \in Nat \ {0}, NEW a \in [Slots(n) -> Data], Reach(a, n),
         NEW d \in Dexes, NEW s \in Slots(n), EndsAt(a, n, d, s),
         NEW t \in Slots(n), a[t] = d
  PROVE  a[s] = d
<1> SUFFICES ASSUME a[s] = Null
             PROVE  FALSE
  BY DEF EndsAt
<1>1. Home(d, n) \in Slots(n) /\ s # t
  BY HomeInArray, NoDexFiles
<1>2. CASE OnWay(Home(d, n), s, t)
  BY <1>2 DEF Reach
<1>3. CASE OnWay(Home(d, n), t, s)
  BY <1>3 DEF EndsAt
<1>4. OnWay(Home(d, n), s, t) \/ OnWay(Home(d, n), t, s)
  BY <1>1 DEF OnWay, Slots
<1>5. QED
  BY <1>2, <1>3, <1>4

\* b has one more live slot than a, or one more that is dead instead.
Gains(a, b, n, s) ==
  /\ LiveSlots(b, n) = LiveSlots(a, n) \cup {s} /\ s \notin LiveSlots(a, n)
  /\ DeadSlots(b, n) = DeadSlots(a, n)
Loses(a, b, n, s) ==
  /\ LiveSlots(b, n) = LiveSlots(a, n) \ {s} /\ s \in LiveSlots(a, n)
  /\ DeadSlots(b, n) = DeadSlots(a, n) \cup {s} /\ s \notin DeadSlots(a, n)

Absent(a, n, d) == \A t \in Slots(n) : a[t] # d

\* Filling a slot, at the end of an unbroken way, breaks no way.
LEMMA FillKeepsWays ==
  ASSUME NEW n \in Nat \ {0}, NEW a \in [Slots(n) -> Data], Reach(a, n), Unique(a, n),
         NEW d \in Dexes, Absent(a, n, d),
         NEW s \in Slots(n), FreeAt(a, n, d, s),
         NEW b, b = [a EXCEPT ![s] = d]
  PROVE  Reach(b, n) /\ Unique(b, n) /\ Gains(a, b, n, s)
<1>0. /\ \A t \in Slots(n) : b[t] = IF t = s THEN d ELSE a[t]
      /\ d # Null /\ d # Tombstone /\ Null \notin Dexes /\ Null # Tombstone
  BY NoDexFiles
<1>1. Reach(b, n)
  <2> SUFFICES ASSUME NEW t \in Slots(n), b[t] \in Dexes, NEW k \in Slots(n),
                      OnWay(Home(b[t], n), k, t)
               PROVE  b[k] # Null
    BY DEF Reach
  <2>1. CASE t = s
    BY <1>0, <2>1 DEF FreeAt
  <2>2. CASE t # s
    BY <1>0, <2>2 DEF Reach
  <2>3. QED
    BY <2>1, <2>2
<1>2. Unique(b, n)
  BY <1>0 DEF Unique, Absent
<1>3. LiveSlots(b, n) = LiveSlots(a, n) \cup {s} /\ s \notin LiveSlots(a, n)
  BY <1>0 DEF LiveSlots, FreeAt
<1>4. DeadSlots(b, n) = DeadSlots(a, n)
  BY <1>0 DEF DeadSlots, FreeAt
<1>5. QED
  BY <1>1, <1>2, <1>3, <1>4 DEF Gains

\* Putting a tombstone into a slot breaks no way.
LEMMA BuryKeepsWays ==
  ASSUME NEW n \in Nat \ {0}, NEW a \in [Slots(n) -> Data], Reach(a, n), Unique(a, n),
         NEW s \in Slots(n), a[s] \in Dexes,
         NEW b, b = [a EXCEPT ![s] = Tombstone]
  PROVE  Reach(b, n) /\ Unique(b, n) /\ Loses(a, b, n, s)
<1>0. /\ \A t \in Slots(n) : b[t] = IF t = s THEN Tombstone ELSE a[t]
      /\ Tombstone \notin Dexes /\ Null \notin Dexes /\ Null # Tombstone
  BY NoDexFiles
<1>1. Reach(b, n)
  BY <1>0 DEF Reach
<1>2. Unique(b, n)
  BY <1>0 DEF Unique
<1>3. LiveSlots(b, n) = LiveSlots(a, n) \ {s} /\ s \in LiveSlots(a, n)
  BY <1>0 DEF LiveSlots
<1>4. DeadSlots(b, n) = DeadSlots(a, n) \cup {s} /\ s \notin DeadSlots(a, n)
  BY <1>0 DEF DeadSlots
<1>5. QED
  BY <1>1, <1>2, <1>3, <1>4 DEF Loses

\* The slots of an array are finitely many.
LEMMA SlotSets ==
  ASSUME NEW n \in Nat, NEW a
  PROVE  /\ IsFiniteSet(Slots(n)) /\ Cardinality(Slots(n)) = n
         /\ IsFiniteSet(LiveSlots(a, n)) /\ Cardinality(LiveSlots(a, n)) \in Nat
         /\ IsFiniteSet(DeadSlots(a, n)) /\ Cardinality(DeadSlots(a, n)) \in Nat
<1>1. IsFiniteSet(0 .. (n - 1)) /\ Cardinality(0 .. (n - 1)) = n
  <2>1. 0 \in Int /\ n - 1 \in Int /\ (IF 0 > n - 1 THEN 0 ELSE (n - 1) - 0 + 1) = n
    OBVIOUS
  <2>2. QED
    BY <2>1, FS_Interval
<1>2. LiveSlots(a, n) \in SUBSET Slots(n) /\ DeadSlots(a, n) \in SUBSET Slots(n)
  BY DEF LiveSlots, DeadSlots
<1>3. IsFiniteSet(Slots(n)) /\ Cardinality(Slots(n)) = n
  BY <1>1 DEF Slots
<1>4. IsFiniteSet(LiveSlots(a, n)) /\ IsFiniteSet(DeadSlots(a, n))
  BY <1>2, <1>3, FS_Subset
<1>5. QED
  BY <1>3, <1>4, FS_CardinalityType

-----------------------------------------------------------------------------
(* The initial state, and types.                                           *)

LEMMA InitIInv == Init => IInv
<1> SUFFICES ASSUME Init
             PROVE  IInv
  OBVIOUS
<1> USE DEF Init
<1>1. InitialSize \in Nat \ {0, 1} /\ entries = [s \in Slots(InitialSize) |-> Null]
  BY SizeAssumption
<1>2. TypeOK
  <2>1. entries \in [Slots(InitialSize) -> Data]
    BY <1>1 DEF Data
  <2>2. /\ life \in [Dexes -> Life] /\ okayToFree \in [Dexes -> BOOLEAN]
        /\ owner \in Dexes \cup {NoDex} /\ step \in Step /\ scan \in Scan
        /\ datum \in Data \cup {Junk} /\ at \in {"here", "freed"} /\ pass \in Pass
    BY DEF Life, Step, Scan, Walking, Data, Pass
  <2>3. /\ tableSize \in Nat \ {0} /\ length = tableSize /\ copied = 0 /\ i = 0
        /\ numEntries = 0 /\ numDeadEntries = 0 /\ step = "idle" /\ owner = NoDex
    BY <1>1
  <2>4. 0 \in 0 .. tableSize /\ 0 \in Int /\ 0 \in Nat
    BY <2>3
  <2>5. QED
    BY <2>1, <2>2, <2>3, <2>4 DEF TypeOK
<1>3. \A s \in Slots(length) : entries[s] = Null
  BY <1>1
<1>4. TableInv
  BY <1>3, NoDexFiles DEF TableInv, Reach, Unique, Listed
<1>5. FreshInv
  BY DEF FreshInv
<1>6. CountInv
  <2>1. LiveSlots(entries, length) = {} /\ DeadSlots(entries, length) = {}
    BY <1>3, NoDexFiles DEF LiveSlots, DeadSlots
  <2>2. Cardinality({}) = 0
    BY FS_EmptySet
  <2>3. ~(0 * 8 > tableSize * 5) /\ tableSize >= 2
    BY <1>1
  <2>4. ~TooFull(numEntries + numDeadEntries, tableSize)
    BY <2>3 DEF TooFull
  <2>5. step = "idle" /\ numEntries = 0 /\ numDeadEntries = 0 /\ 0 >= 0
    OBVIOUS
  <2> HIDE DEF Init
  <2>6. QED
    BY <2>1, <2>2, <2>3, <2>4, <2>5 DEF CountInv
<1>7. WalkInv /\ DeathHasCause /\ WalkOnce
  BY DEF WalkInv, DeathHasCause, WalkOnce, Walking, Holding
<1>8. QED
  BY <1>2, <1>4, <1>5, <1>6, <1>7 DEF IInv

\* The operations of the table keep its types.
LEMMA OperationTypes ==
  ASSUME TypeOK, (\E d \in Dexes : Open(d) \/ Add(d) \/ OpenReturns(d)) \/ Resize
  PROVE  TypeOK'
<1> USE DEF TypeOK
<1>1. ASSUME NEW d \in Dexes, Open(d)
      PROVE  TypeOK'
  BY <1>1, DexesAssumption DEF Open, Free, Step, Life, table, walk
<1>2. ASSUME NEW d \in Dexes, Add(d)
      PROVE  TypeOK'
  <2>1. entries' \in [Slots(length) -> Data] /\ numEntries' \in Int
    BY <1>2 DEF Add, Data
  <2>2. step' \in {"grow", "unlock"} /\ owner' \in Dexes /\ owner' # NoDex
    BY <1>2, DexesAssumption DEF Add
  <2>3. QED
    BY <1>2, <2>1, <2>2 DEF Add, Step, dexes, walk
<1>3. ASSUME NEW d \in Dexes, OpenReturns(d)
      PROVE  TypeOK'
  BY <1>3 DEF OpenReturns, Step, Life, table, walk
<1>4. CASE Grow
  <2>1. fresh' \in [Slots(2 * tableSize) -> Data]
    BY <1>4 DEF Grow, Data
  <2>2. QED
    BY <1>4, <2>1 DEF Grow, Step, table, dexes, walk
<1>5. CASE Copy
  <2>1. fresh' \in [Slots(2 * tableSize) -> Data]
    BY <1>5 DEF Copy, Data
  <2>2. QED
    BY <1>5, <2>1 DEF Copy, table, dexes, walk
<1>6. CASE FreeOld
  BY <1>6 DEF FreeOld, Step, table, dexes
<1>7. CASE Publish
  BY <1>7 DEF Publish, Step, dexes, walk
<1>8. CASE SetSize
  BY <1>8 DEF SetSize, Step, dexes, walk
<1>9. QED
  BY <1>1, <1>2, <1>3, <1>4, <1>5, <1>6, <1>7, <1>8 DEF Resize

\* So do the operations on a dex file that is open.
LEMMA ClosingTypes ==
  ASSUME TypeOK, NEW d \in Dexes,
         Close(d) \/ Remove(d) \/ FreeDexOrJar(d) \/ Define(d)
  PROVE  TypeOK'
<1> USE DEF TypeOK
<1>1. CASE Close(d)
  BY <1>1 DEF Close, Life, table, lock, walk
<1>2. CASE Remove(d)
  <2>1. /\ entries' \in [Slots(length) -> Data]
        /\ numEntries' \in Int /\ numDeadEntries' \in Int
    BY <1>2 DEF Remove, Data
  <2>2. closed' \subseteq Dexes
    BY <1>2 DEF Remove, Forget
  <2>3. QED
    BY <1>2, <2>1, <2>2 DEF Remove, Forget, Life, lock
<1>3. CASE FreeDexOrJar(d)
  BY <1>3 DEF FreeDexOrJar, Life, table, lock, walk
<1>4. CASE Define(d)
  <2>1. life' \in [Dexes -> Life] /\ okayToFree' \in [Dexes -> BOOLEAN]
    BY <1>4 DEF Define, Life
  <2>2. QED
    BY <1>4, <2>1 DEF Define, table, lock, walk
<1>5. QED
  BY <1>1, <1>2, <1>3, <1>4

\* The dump thread changes nothing of the table's.
LEMMA WalkChanges ==
  Walk => UNCHANGED <<table, lock, dexes>>
  BY DEF Walk, StartScan, CheckSize, EndScan, CheckNull, CheckReadable, Take, Use,
         UseGarbage, WalkOnly

LEMMA WalkTypes ==
  ASSUME TypeOK, WalkInv, Walk
  PROVE  TypeOK'
<1> DEFINE Mine == /\ pass \in Pass /\ mapped \subseteq Dexes /\ scan \in Scan /\ i \in Nat /\ at \in {"here", "freed"}
                   /\ datum \in Data \cup {Junk}
                   /\ seen \subseteq Dexes /\ again \subseteq Dexes
                   /\ held \subseteq Dexes /\ closed \subseteq Dexes /\ moved \in BOOLEAN
<1>1. Mine
  BY DEF TypeOK
<1>2. Mine'
  <2>1. CASE StartScan
    BY <1>1, <2>1 DEF StartScan, Scan, Walking, Live
  <2>2. CASE CheckSize
    BY <1>1, <2>2 DEF CheckSize, WalkOnly, Scan, Walking
  <2>3. CASE EndScan
    BY <1>1, <2>3 DEF EndScan, Scan, Walking, Pass
  <2>4. CASE CheckNull
    BY <1>1, <2>4 DEF CheckNull, WalkOnly, NextSlot, Scan, Walking
  <2>5. CASE CheckReadable
    BY <1>1, <2>5 DEF CheckReadable, WalkOnly, NextSlot, Scan, Walking
  <2>6. CASE Take
    <3>1. scan = "take" /\ i < tableSize /\ i \in Nat /\ length >= tableSize
      BY <2>6 DEF Take, TypeOK, WalkInv, Holding
    <3>2. datum' \in Data \cup {Junk}
      <4>1. CASE at = "here"
        <5>1. i \in Slots(length)
          BY <3>1 DEF Slots, TypeOK
        <5>2. entries[i] \in Data
          BY <5>1 DEF TypeOK
        <5>3. QED
          BY <2>6, <4>1, <5>2 DEF Take, DataRead
      <4>2. CASE at # "here"
        BY <2>6, <4>2 DEF Take, DataRead
      <4>3. QED
        BY <4>1, <4>2
    <3>3. QED
      BY <1>1, <2>6, <3>2 DEF Take, WalkOnly, Scan, Walking
  <2>7. CASE Use
    BY <1>1, <2>7 DEF Use, WalkOnly, NextSlot, IsDexOrJar, Scan, Walking, Data
  <2>8. CASE UseGarbage
    BY <1>1, <2>8 DEF UseGarbage, WalkOnly, NextSlot, Scan, Walking, Data
  <2>9. QED
    BY <2>1, <2>2, <2>3, <2>4, <2>5, <2>6, <2>7, <2>8 DEF Walk
<1>3. QED
  BY <1>2, WalkChanges DEF TypeOK, table, lock, dexes

-----------------------------------------------------------------------------
(* The table.                                                              *)

Inv == TypeOK /\ TableInv /\ FreshInv /\ CountInv

LEMMA OpenKeeps ==
  ASSUME Inv, NEW d \in Dexes, Open(d)
  PROVE  TableInv' /\ FreshInv' /\ CountInv'
<1> USE DEF Inv, TypeOK
<1>1. /\ owner = NoDex /\ step = "idle" /\ owner' = d /\ step' = "add"
      /\ life' = [life EXCEPT ![d] = "opening"] /\ life[d] = "absent"
      /\ UNCHANGED <<entries, length, tableSize, numEntries, numDeadEntries>>
  BY DEF Open, Free, table
<1>2. \A e \in Dexes : Listed(e)' <=> Listed(e)
  BY <1>1, NoDexFiles DEF TableInv, Listed
<1>3. TableInv'
  <2>1. \A e \in Dexes : life'[e] = "opening" <=> owner' = e
    BY <1>1, NoDexFiles DEF TableInv
  <2>2. \A e \in Dexes : life'[e] # "refused"
    BY <1>1 DEF TableInv
  <2>3. QED
    BY <1>1, <1>2, <2>1, <2>2 DEF TableInv
<1>4. FreshInv' /\ CountInv'
  BY <1>1 DEF FreshInv, CountInv
<1>5. QED
  BY <1>3, <1>4

LEMMA AddKeeps ==
  ASSUME Inv, NEW d \in Dexes, Add(d)
  PROVE  TableInv' /\ FreshInv' /\ CountInv'
<1> USE DEF Inv, TypeOK
<1>1. /\ owner = d /\ step = "add" /\ length = tableSize /\ life[d] = "opening"
      /\ UNCHANGED <<length, tableSize, numDeadEntries, owner, life>>
      /\ step' = IF TooFull(numEntries' + numDeadEntries, tableSize) THEN "grow" ELSE "unlock"
  BY DEF Add, dexes, TableInv
<1>2. Absent(entries, length, d)
  BY <1>1 DEF Absent, TableInv, Listed
<1>3. PICK s \in Slots(length) :
        /\ EndsAt(entries, length, d, s)
        /\ entries' = [entries EXCEPT ![s] = d]
        /\ numEntries' = numEntries + (IF entries[s] = Null THEN 1 ELSE 0)
  BY <1>1 DEF Add
<1>4. /\ entries[s] = Null
      /\ \A k \in Slots(length) : OnWay(Home(d, length), k, s) => entries[k] # Null
  BY <1>2, <1>3 DEF EndsAt, Absent
<1>5. Reach(entries', length) /\ Unique(entries', length) /\ Gains(entries, entries', length, s)
  <2>1. /\ Reach(entries, length) /\ Unique(entries, length) /\ length \in Nat \ {0}
        /\ entries \in [Slots(length) -> Data]
    BY DEF TableInv
  <2>2. FreeAt(entries, length, d, s)
    BY <1>4 DEF FreeAt
  <2> HIDE DEF Inv, TypeOK
  <2>3. QED
    BY <1>2, <1>3, <2>1, <2>2, FillKeepsWays
<1>6. TableInv'
  <2>1. \A e \in Dexes : Listed(e)' <=> Listed(e) \/ e = d
    BY <1>1 DEF Listed, TableInv
  <2>2. \A t \in Slots(length) : entries'[t] = IF t = s THEN d ELSE entries[t]
    BY <1>3
  <2>3. \A t \in Slots(length) : (entries[t] \in Dexes => Listed(entries[t]))'
    BY <2>1, <2>2 DEF TableInv
  <2>4. \A e \in Dexes : Listed(e)' => \E t \in Slots(length) : entries'[t] = e
    <3>1. ASSUME NEW e \in Dexes, Listed(e)
          PROVE  \E t \in Slots(length) : entries'[t] = e
      <4>1. PICK t \in Slots(length) : entries[t] = e
        BY <3>1 DEF TableInv
      <4>2. t # s
        BY <1>4, <4>1, NoDexFiles
      <4>3. QED
        BY <2>2, <4>1, <4>2
    <3>2. QED
      BY <2>1, <2>2, <3>1
  <2>5. QED
    BY <1>1, <1>5, <2>3, <2>4 DEF TableInv
<1>7. FreshInv'
  BY <1>1 DEF FreshInv
<1>8. CountInv'
  <2>1. numEntries' = numEntries + 1 /\ numEntries' >= 0
    BY <1>3, <1>4 DEF CountInv
  <2>2. Cardinality(LiveSlots(entries', length)) = Cardinality(LiveSlots(entries, length)) + 1
    BY <1>5, SlotSets, FS_AddElement DEF Gains
  <2>3. IF step' = "grow"
        THEN (numEntries' + numDeadEntries) * 8 <= tableSize * 10
        ELSE ~TooFull(numEntries' + numDeadEntries, tableSize)
    <3>1. (numEntries + numDeadEntries) * 8 <= tableSize * 5 /\ tableSize >= 2
      BY <1>1 DEF CountInv, TooFull
    <3>2. QED
      BY <1>1, <2>1, <3>1 DEF TooFull
  <2>4. /\ step' \in {"grow", "unlock"} /\ numEntries >= 0 /\ tableSize >= 2
        /\ numEntries = Cardinality(LiveSlots(entries, length))
        /\ numDeadEntries = Cardinality(DeadSlots(entries, length)) /\ numDeadEntries >= 0
    BY <1>1 DEF CountInv
  <2>5. /\ LiveSlots(entries, length)' = LiveSlots(entries', length)
        /\ DeadSlots(entries, length)' = DeadSlots(entries, length)
    BY <1>1, <1>5 DEF Gains
  <2> HIDE DEF Inv, TypeOK
  <2>6. QED
    BY <1>1, <2>1, <2>2, <2>3, <2>4, <2>5 DEF CountInv
<1>9. QED
  BY <1>6, <1>7, <1>8

LEMMA OpenReturnsKeeps ==
  ASSUME Inv, NEW d \in Dexes, OpenReturns(d)
  PROVE  TableInv' /\ FreshInv' /\ CountInv'
<1> USE DEF Inv, TypeOK
<1>1. /\ owner = d /\ step = "unlock" /\ owner' = NoDex /\ step' = "idle"
      /\ life' = [life EXCEPT ![d] = "open"] /\ life[d] = "opening"
      /\ UNCHANGED <<entries, length, tableSize, numEntries, numDeadEntries>>
  BY DEF OpenReturns, table, TableInv
<1>2. \A e \in Dexes : Listed(e)' <=> Listed(e)
  BY <1>1 DEF TableInv, Listed
<1>3. TableInv'
  <2>1. \A e \in Dexes : life'[e] = "opening" <=> owner' = e
    BY <1>1, NoDexFiles DEF TableInv
  <2>2. \A e \in Dexes : life'[e] # "refused"
    BY <1>1 DEF TableInv
  <2>3. QED
    BY <1>1, <1>2, <2>1, <2>2 DEF TableInv
<1>4. FreshInv' /\ CountInv'
  BY <1>1 DEF FreshInv, CountInv
<1>5. QED
  BY <1>3, <1>4

LEMMA GrowKeeps ==
  ASSUME Inv, Grow
  PROVE  TableInv' /\ FreshInv' /\ CountInv'
<1> USE DEF Inv, TypeOK
<1>1. /\ step = "grow" /\ step' = "copy" /\ copied' = 0
      /\ fresh' = [s \in Slots(2 * tableSize) |-> Null]
      /\ UNCHANGED <<entries, length, tableSize, numEntries, numDeadEntries, owner, life>>
  BY DEF Grow, table, dexes
<1>2. TableInv'
  BY <1>1 DEF TableInv, Listed
<1>3. Slots(0) = {}
  BY DEF Slots
<1>4. FreshInv'
  BY <1>1, <1>3, NoDexFiles DEF FreshInv, Reach, Unique
<1>5. CountInv'
  <2>1. LiveSlots(fresh', 2 * tableSize) = {} /\ LiveSlots(entries, 0) = {}
    BY <1>1, <1>3, NoDexFiles DEF LiveSlots
  <2>2. QED
    BY <1>1, <2>1 DEF CountInv
<1>6. QED
  BY <1>2, <1>4, <1>5

\* One slot of the old array is copied.
LEMMA CopyKeeps ==
  ASSUME Inv, Copy
  PROVE  TableInv' /\ FreshInv' /\ CountInv'
<1> DEFINE m == 2 * tableSize
<1>1. /\ step = "copy" /\ copied \in Nat /\ copied < tableSize /\ copied' = copied + 1
      /\ UNCHANGED <<entries, length, tableSize, numEntries, numDeadEntries, owner, step, life>>
  BY DEF Copy, table, dexes, Inv, TypeOK
<1>2. /\ tableSize \in Nat \ {0} /\ m \in Nat \ {0} /\ length = tableSize
      /\ copied \in Slots(length) /\ copied \notin Slots(copied)
      /\ Slots(copied + 1) = Slots(copied) \cup {copied} /\ Slots(copied) \subseteq Slots(length)
      /\ Slots(copied + 1) \subseteq Slots(length)
  BY <1>1 DEF Inv, TypeOK, Slots
<1>3. /\ fresh \in [Slots(m) -> Dexes \cup {Null}] /\ Reach(fresh, m) /\ Unique(fresh, m)
      /\ \A s \in Slots(m) : fresh[s] \in Dexes => \E r \in Slots(copied) : entries[r] = fresh[s]
      /\ \A r \in Slots(copied) : entries[r] \in Dexes => \E s \in Slots(m) : fresh[s] = entries[r]
      /\ fresh \in [Slots(m) -> Data]
  BY <1>1 DEF Inv, FreshInv, TypeOK
<1>4. TableInv'
  BY <1>1 DEF Inv, TableInv, Listed
<1> HIDE DEF m
<1>5. CASE entries[copied] \notin Dexes
  <2>1. fresh' = fresh
    BY <1>5 DEF Copy
  <2>2. FreshInv'
    <3>1. /\ \A s \in Slots(m) : fresh[s] \in Dexes =>
               \E r \in Slots(copied + 1) : entries[r] = fresh[s]
          /\ \A r \in Slots(copied + 1) : entries[r] \in Dexes =>
               \E s \in Slots(m) : fresh[s] = entries[r]
      BY <1>2, <1>3, <1>5
    <3>2. QED
      BY <1>1, <1>3, <2>1, <3>1 DEF FreshInv, m
  <2>3. LiveSlots(entries, copied + 1) = LiveSlots(entries, copied)
    BY <1>2, <1>5 DEF LiveSlots
  <2>4. CountInv'
    BY <1>1, <2>1, <2>3 DEF Inv, CountInv
  <2>5. QED
    BY <1>4, <2>2, <2>4
<1>6. CASE entries[copied] \in Dexes
  <2> DEFINE d == entries[copied]
  <2>1. PICK s \in Slots(m) : FreeAt(fresh, m, d, s) /\ fresh' = [fresh EXCEPT ![s] = d]
    BY <1>6 DEF Copy, m
  <2>2. Absent(fresh, m, d) /\ d \in Dexes
    <3>1. ASSUME NEW t \in Slots(m), fresh[t] = d
          PROVE  FALSE
      <4>1. PICK r \in Slots(copied) : entries[r] = d
        BY <1>3, <1>6, <3>1
      <4>2. r = copied
        BY <1>2, <1>6, <4>1 DEF Inv, TableInv, Unique
      <4>3. QED
        BY <1>2, <4>1, <4>2
    <3>2. QED
      BY <1>6, <3>1 DEF Absent
  <2> HIDE DEF d
  <2>3. Reach(fresh', m) /\ Unique(fresh', m) /\ Gains(fresh, fresh', m, s)
    BY <1>2, <1>3, <2>1, <2>2, FillKeepsWays
  <2>4. FreshInv'
    <3>1. \A t \in Slots(m) : fresh'[t] = IF t = s THEN d ELSE fresh[t]
      BY <1>3, <2>1
    <3>2. fresh' \in [Slots(m) -> Dexes \cup {Null}]
      BY <1>3, <2>1, <2>2
    <3>3. \A t \in Slots(m) : fresh'[t] \in Dexes =>
            \E r \in Slots(copied + 1) : entries[r] = fresh'[t]
      BY <1>2, <1>3, <3>1 DEF d
    <3>4. ASSUME NEW r \in Slots(copied + 1), entries[r] \in Dexes
          PROVE  \E t \in Slots(m) : fresh'[t] = entries[r]
      <4>1. CASE r = copied
        BY <2>1, <3>1, <4>1 DEF d
      <4>2. CASE r # copied
        <5>1. PICK t \in Slots(m) : fresh[t] = entries[r]
          BY <1>2, <1>3, <3>4, <4>2
        <5>2. t # s
          BY <2>1, <3>4, <5>1, NoDexFiles DEF FreeAt
        <5>3. QED
          BY <3>1, <5>1, <5>2
      <4>3. QED
        BY <4>1, <4>2
    <3>5. QED
      BY <1>1, <2>3, <3>2, <3>3, <3>4 DEF FreshInv, m
  <2>5. Cardinality(LiveSlots(fresh', m)) = Cardinality(LiveSlots(fresh, m)) + 1
    BY <1>2, <2>3, SlotSets, FS_AddElement DEF Gains
  <2>6. Cardinality(LiveSlots(entries, copied + 1)) = Cardinality(LiveSlots(entries, copied)) + 1
    <3>1. LiveSlots(entries, copied + 1) = LiveSlots(entries, copied) \cup {copied}
      BY <1>2, <1>6 DEF LiveSlots
    <3>2. copied \notin LiveSlots(entries, copied)
      BY <1>2 DEF LiveSlots
    <3>3. QED
      BY <1>1, <3>1, <3>2, SlotSets, FS_AddElement
  <2>7. CountInv'
    BY <1>1, <2>5, <2>6 DEF Inv, CountInv, m
  <2>8. QED
    BY <1>4, <2>4, <2>7
<1>7. QED
  BY <1>5, <1>6

LEMMA FreeOldKeeps ==
  ASSUME Inv, FreeOld
  PROVE  TableInv' /\ FreshInv' /\ CountInv'
<1>1. /\ step = "copy" /\ step' = "publish" /\ copied = tableSize
      /\ UNCHANGED <<entries, length, tableSize, numEntries, numDeadEntries,
                     owner, life, fresh, copied>>
  BY DEF FreeOld, table, dexes
<1>2. QED
  BY <1>1 DEF Inv, TableInv, Listed, FreshInv, CountInv

\* The new array takes the place of the old one.
LEMMA PublishKeeps ==
  ASSUME Inv, Publish
  PROVE  TableInv' /\ FreshInv' /\ CountInv'
<1>1. /\ step = "publish" /\ step' = "setsize" /\ entries' = fresh
      /\ length' = 2 * tableSize /\ length = tableSize /\ copied = length
      /\ UNCHANGED <<tableSize, numEntries, numDeadEntries, owner, life>>
  BY DEF Publish, dexes, Inv, TypeOK, FreshInv
<1>2. /\ fresh \in [Slots(2 * tableSize) -> Dexes \cup {Null}]
      /\ Reach(fresh, 2 * tableSize) /\ Unique(fresh, 2 * tableSize)
      /\ \A s \in Slots(2 * tableSize) : fresh[s] \in Dexes =>
           \E r \in Slots(length) : entries[r] = fresh[s]
      /\ \A r \in Slots(length) : entries[r] \in Dexes =>
           \E s \in Slots(2 * tableSize) : fresh[s] = entries[r]
  BY <1>1 DEF Inv, FreshInv
<1>3. TableInv'
  <2>1. \A e \in Dexes : Listed(e)' <=> Listed(e)
    BY <1>1 DEF Listed
  <2>2. \A s \in Slots(2 * tableSize) : fresh[s] \in Dexes => Listed(fresh[s])
    BY <1>2 DEF Inv, TableInv
  <2>3. \A e \in Dexes : Listed(e) => \E s \in Slots(2 * tableSize) : fresh[s] = e
    BY <1>2 DEF Inv, TableInv
  <2>4. \A s \in Slots(2 * tableSize) : (entries[s] \in Dexes => Listed(entries[s]))'
    BY <1>1, <2>2 DEF Listed
  <2>5. QED
    BY <1>1, <1>2, <2>1, <2>3, <2>4 DEF Inv, TableInv, Listed
<1>4. FreshInv'
  BY <1>1 DEF FreshInv
<1>5. CountInv'
  <2>1. DeadSlots(fresh, 2 * tableSize) = {}
    BY <1>2, NoDexFiles DEF DeadSlots
  <2>2. QED
    BY <1>1, <2>1 DEF Inv, CountInv
<1>6. QED
  BY <1>3, <1>4, <1>5

LEMMA SetSizeKeeps ==
  ASSUME Inv, SetSize
  PROVE  TableInv' /\ FreshInv' /\ CountInv'
<1>1. /\ step = "setsize" /\ step' = "unlock" /\ tableSize' = 2 * tableSize
      /\ numDeadEntries' = 0
      /\ UNCHANGED <<entries, length, numEntries, owner, life>>
  BY DEF SetSize, dexes
<1>2. TableInv'
  BY <1>1 DEF Inv, TableInv, Listed
<1>3. FreshInv'
  BY <1>1 DEF FreshInv
<1>4. CountInv'
  <2>1. /\ numEntries \in Int /\ numDeadEntries \in Int /\ tableSize \in Nat
        /\ numEntries >= 0 /\ numDeadEntries >= 0 /\ tableSize >= 2
        /\ (numEntries + numDeadEntries) * 8 <= tableSize * 10
    BY <1>1 DEF Inv, TypeOK, CountInv
  <2>2. ~TooFull(numEntries + 0, 2 * tableSize) /\ 2 * tableSize >= 2
    BY <2>1 DEF TooFull
  <2>3. Cardinality(DeadSlots(entries, length)) = 0
    BY <1>1, FS_EmptySet DEF Inv, CountInv
  <2>4. QED
    BY <1>1, <2>1, <2>2, <2>3 DEF Inv, CountInv
<1>5. QED
  BY <1>2, <1>3, <1>4

\* A cookie that is in the table is found.
LEMMA ListedIsFound ==
  ASSUME Inv, step = "idle", NEW d \in Dexes, Listed(d),
         NEW s \in Slots(tableSize), EndsAt(entries, tableSize, d, s)
  PROVE  entries[s] = d
<1>1. /\ length = tableSize /\ length \in Nat \ {0} /\ entries \in [Slots(length) -> Data]
      /\ Reach(entries, length)
  BY DEF Inv, TypeOK, TableInv
<1>2. PICK t \in Slots(length) : entries[t] = d
  BY DEF Inv, TableInv
<1>3. QED
  BY <1>1, <1>2, SearchFinds

LEMMA CloseKeeps ==
  ASSUME Inv, NEW d \in Dexes, Close(d)
  PROVE  TableInv' /\ FreshInv' /\ CountInv'
<1>1. /\ life[d] = "open" /\ step = "idle"
      /\ UNCHANGED <<entries, length, tableSize, numEntries, numDeadEntries, owner, step,
                     fresh, copied>>
  BY NoDexFiles DEF Close, Validate, Free, table, lock, Inv, TypeOK
<1>2. PICK found \in BOOLEAN :
        /\ Validate(d, found)
        /\ life' = [life EXCEPT ![d] = IF found THEN "closing" ELSE "refused"]
  BY DEF Close
<1>3. found
  BY <1>1, <1>2, ListedIsFound DEF Validate, Listed
<1>4. life' = [life EXCEPT ![d] = "closing"] /\ life \in [Dexes -> Life]
  BY <1>2, <1>3 DEF Inv, TypeOK
<1>5. \A e \in Dexes : Listed(e)' <=> Listed(e)
  BY <1>1, <1>4 DEF Listed
<1>6. TableInv'
  <2>1. \A e \in Dexes : life'[e] = "opening" <=> owner' = e
    BY <1>1, <1>4 DEF Inv, TableInv
  <2>2. \A e \in Dexes : life'[e] # "refused"
    BY <1>4 DEF Inv, TableInv
  <2>3. QED
    BY <1>1, <1>5, <2>1, <2>2 DEF Inv, TableInv
<1>7. QED
  BY <1>1, <1>6 DEF Inv, FreshInv, CountInv

LEMMA RemoveKeeps ==
  ASSUME Inv, NEW d \in Dexes, Remove(d)
  PROVE  TableInv' /\ FreshInv' /\ CountInv'
<1>1. /\ life[d] = "closing" /\ step = "idle" /\ length = tableSize
      /\ life' = [life EXCEPT ![d] = "removed"] /\ life \in [Dexes -> Life]
      /\ UNCHANGED <<length, tableSize, owner, step, fresh, copied>>
  BY NoDexFiles DEF Remove, Free, lock, Inv, TypeOK
<1>2. PICK s \in Slots(length) :
        /\ EndsAt(entries, tableSize, d, s)
        /\ IF entries[s] = d
           THEN /\ entries' = [entries EXCEPT ![s] = Tombstone]
                /\ numEntries' = numEntries - 1
                /\ numDeadEntries' = numDeadEntries + 1
           ELSE UNCHANGED <<entries, numEntries, numDeadEntries>>
  BY <1>1 DEF Remove
<1>3. entries[s] = d
  BY <1>1, <1>2, ListedIsFound DEF Listed
<1>4. /\ entries' = [entries EXCEPT ![s] = Tombstone]
      /\ numEntries' = numEntries - 1 /\ numDeadEntries' = numDeadEntries + 1
  BY <1>2, <1>3
<1>5. Reach(entries', length) /\ Unique(entries', length) /\ Loses(entries, entries', length, s)
  <2>1. /\ Reach(entries, length) /\ Unique(entries, length) /\ length \in Nat \ {0}
        /\ entries \in [Slots(length) -> Data]
    BY DEF Inv, TypeOK, TableInv
  <2>2. QED
    BY <1>3, <1>4, <2>1, BuryKeepsWays
<1>6. TableInv'
  <2>1. \A e \in Dexes : Listed(e)' <=> Listed(e) /\ e # d
    BY <1>1 DEF Listed
  <2>2. \A t \in Slots(length) : entries'[t] = IF t = s THEN Tombstone ELSE entries[t]
    BY <1>4 DEF Inv, TypeOK
  <2>3. \A t \in Slots(length) : (entries[t] \in Dexes => Listed(entries[t]))'
    <3>1. \A t \in Slots(length) : t # s /\ entries[t] \in Dexes => entries[t] # d
      BY <1>3 DEF Inv, TableInv, Unique
    <3>2. QED
      BY <1>1, <2>1, <2>2, <3>1, NoDexFiles DEF Inv, TableInv
  <2>4. \A e \in Dexes : Listed(e)' => \E t \in Slots(length) : entries'[t] = e
    BY <1>3, <2>1, <2>2 DEF Inv, TableInv
  <2>5. \A e \in Dexes : life'[e] = "opening" <=> owner' = e
    BY <1>1 DEF Inv, TableInv
  <2>6. \A e \in Dexes : life'[e] # "refused"
    BY <1>1 DEF Inv, TableInv
  <2>7. QED
    BY <1>1, <1>5, <2>3, <2>4, <2>5, <2>6 DEF TableInv
<1>7. FreshInv'
  BY <1>1 DEF FreshInv
<1>8. CountInv'
  <2>1. Cardinality(LiveSlots(entries', length)) = Cardinality(LiveSlots(entries, length)) - 1
    BY <1>1, <1>5, SlotSets, FS_RemoveElement DEF Loses, Inv, TypeOK
  <2>2. Cardinality(DeadSlots(entries', length)) = Cardinality(DeadSlots(entries, length)) + 1
    BY <1>1, <1>5, SlotSets, FS_AddElement DEF Loses, Inv, TypeOK
  <2>3. /\ numEntries = Cardinality(LiveSlots(entries, length)) /\ numEntries \in Int
        /\ numDeadEntries = Cardinality(DeadSlots(entries, length)) /\ numDeadEntries \in Int
        /\ numEntries >= 0 /\ numDeadEntries >= 0
        /\ ~TooFull(numEntries + numDeadEntries, tableSize) /\ tableSize >= 2
    BY <1>1 DEF Inv, TypeOK, CountInv
  <2>4. numEntries - 1 >= 0
    BY <1>1, <2>1, <2>3, SlotSets DEF Inv, TypeOK
  <2>5. (numEntries - 1) + (numDeadEntries + 1) = numEntries + numDeadEntries
    BY <2>3
  <2>6. /\ LiveSlots(entries, length)' = LiveSlots(entries', length)
        /\ DeadSlots(entries, length)' = DeadSlots(entries', length)
    BY <1>1 DEF LiveSlots, DeadSlots
  <2>7. QED
    BY <1>1, <1>4, <2>1, <2>2, <2>3, <2>4, <2>5, <2>6 DEF CountInv
<1>9. QED
  BY <1>6, <1>7, <1>8

LEMMA FreeDexOrJarKeeps ==
  ASSUME Inv, NEW d \in Dexes, FreeDexOrJar(d)
  PROVE  TableInv' /\ FreshInv' /\ CountInv'
<1>1. /\ life[d] = "removed" /\ life' = [life EXCEPT ![d] = "absent"] /\ life \in [Dexes -> Life]
      /\ UNCHANGED <<entries, length, tableSize, numEntries, numDeadEntries, owner, step,
                     fresh, copied>>
  BY DEF FreeDexOrJar, table, lock, Inv, TypeOK
<1>2. \A e \in Dexes : Listed(e)' <=> Listed(e)
  BY <1>1 DEF Listed
<1>3. TableInv'
  <2>1. \A e \in Dexes : life'[e] = "opening" <=> owner' = e
    BY <1>1 DEF Inv, TableInv
  <2>2. \A e \in Dexes : life'[e] # "refused"
    BY <1>1 DEF Inv, TableInv
  <2>3. QED
    BY <1>1, <1>2, <2>1, <2>2 DEF Inv, TableInv
<1>4. QED
  BY <1>1, <1>3 DEF Inv, FreshInv, CountInv

LEMMA DefineKeeps ==
  ASSUME Inv, NEW d \in Dexes, Define(d)
  PROVE  TableInv' /\ FreshInv' /\ CountInv' /\ life' = life
<1>1. /\ life[d] = "open" /\ step = "idle" /\ life \in [Dexes -> Life]
      /\ UNCHANGED <<entries, length, tableSize, numEntries, numDeadEntries, owner, step,
                     fresh, copied>>
  BY NoDexFiles DEF Define, Validate, Free, table, lock, Inv, TypeOK
<1>2. PICK found \in BOOLEAN :
        /\ Validate(d, found)
        /\ life' = [life EXCEPT ![d] = IF found THEN "open" ELSE "refused"]
  BY DEF Define
<1>3. found
  BY <1>1, <1>2, ListedIsFound DEF Validate, Listed
<1>4. life' = life
  BY <1>1, <1>2, <1>3
<1>5. TableInv'
  BY <1>1, <1>4 DEF Inv, TableInv, Listed
<1>6. QED
  BY <1>1, <1>4, <1>5 DEF Inv, FreshInv, CountInv

-----------------------------------------------------------------------------
(* The walk, while others work on the table.                               *)

\* A dex file in the table is alive.
LEMMA EntryIsDexOrJar ==
  ASSUME Inv, NEW s \in Slots(length), entries[s] \in Dexes
  PROVE  IsDexOrJar(entries[s])
  BY DEF Inv, TableInv, Listed, IsDexOrJar

\* What does not touch the array or the walk does not disturb the walk.
LEMMA QuietKeepsWalk ==
  ASSUME WalkInv, UNCHANGED <<entries, length, walk, closed>>,
         tableSize' >= tableSize, tableSize' \in Nat, tableSize \in Nat, i \in Nat,
         moved' = moved, moved \/ step' \notin {"publish", "setsize"}
  PROVE  WalkInv'
<1>1. UNCHANGED <<pass, scan, i, at, datum, mapped, seen, again, held>>
  BY DEF walk
<1>2. OnCourse /\ ~moved => OnCourse'
  <2> SUFFICES ASSUME OnCourse, ~moved
               PROVE  OnCourse'
    OBVIOUS
  <2>1. step' \notin {"publish", "setsize"}
    OBVIOUS
  <2>2. scan = "use" => i < tableSize'
    BY DEF OnCourse
  <2>3. QED
    BY <1>1, <2>1, <2>2 DEF OnCourse, Overlooked
<1>3. scan \in Holding => i < tableSize'
  BY DEF WalkInv
<1>4. QED
  BY <1>1, <1>2, <1>3 DEF WalkInv

LEMMA AddKeepsWalk ==
  ASSUME Inv, WalkInv, NEW d \in Dexes, Add(d)
  PROVE  WalkInv'
<1>1. /\ length = tableSize /\ step' \in {"grow", "unlock"} /\ step = "add" /\ owner = d
      /\ UNCHANGED <<length, tableSize, pass, scan, i, at, datum, mapped, seen, again,
                     held, closed, moved>>
  BY DEF Add, walk, Inv, TypeOK
<1>2. \A t \in Slots(length) : entries[t] # d
  BY <1>1 DEF Inv, TableInv, Listed
<1>3. PICK s \in Slots(length) : entries[s] = Null /\ entries' = [entries EXCEPT ![s] = d]
  BY <1>1, <1>2 DEF Add, EndsAt
<1>4. \A t \in Slots(length) : entries'[t] = IF t = s THEN d ELSE entries[t]
  BY <1>3 DEF Inv, TypeOK
<1>5. scan \in Walking /\ ~moved => OnCourse'
  <2> SUFFICES ASSUME OnCourse, ~moved
               PROVE  OnCourse'
    BY DEF WalkInv
  <2>1. d \notin held
    BY <1>2 DEF OnCourse
  <2>2. i \in Nat /\ (i < tableSize => i \in Slots(length)) /\ seen \subseteq Dexes /\ held \subseteq Dexes
    BY <1>1 DEF Inv, TypeOK, Slots
  <2>3. \A e \in held : \E t \in Slots(length) : entries'[t] = e
    BY <1>3, <1>4, <2>2, NoDexFiles DEF OnCourse
  <2>4. \A t \in Slots(length) : t < i /\ entries'[t] \in held =>
          entries'[t] \in seen \/ Overlooked(entries'[t])
    BY <1>4, <2>1 DEF OnCourse
  <2>5. \A e \in seen \ closed : \E t \in Slots(length) : t < i /\ entries'[t] = e
    BY <1>3, <1>4, <2>2, NoDexFiles DEF OnCourse
  <2>6. scan = "use" => /\ i < tableSize
                        /\ entries'[i] \in held => datum = entries'[i]
                        /\ datum \in Dexes \ closed => entries'[i] = datum
    BY <1>3, <1>4, <2>1, <2>2, NoDexFiles DEF OnCourse
  <2>7. closed = {} => /\ scan = "readable" => entries'[i] # Null
                       /\ scan = "take" => entries'[i] \in Dexes
                       /\ scan = "use" => datum \in Dexes
    <3>1. scan \in {"readable", "take"} => i \in Slots(length)
      BY <2>2 DEF WalkInv, Holding
    <3>2. QED
      BY <1>4, <3>1, NoDexFiles DEF OnCourse
  <2>8. QED
    BY <1>1, <2>3, <2>4, <2>5, <2>6, <2>7 DEF OnCourse, Overlooked
<1>6. QED
  BY <1>1, <1>5 DEF WalkInv

LEMMA RemoveKeepsWalk ==
  ASSUME Inv, WalkInv, NEW d \in Dexes, Remove(d)
  PROVE  WalkInv'
<1>1. /\ length = tableSize /\ step = "idle" /\ life[d] = "closing"
      /\ UNCHANGED <<length, tableSize, step, pass, scan, i, at, datum, moved>>
      /\ mapped' = mapped \ {d} /\ held' = held \ {d}
      /\ seen' = seen \ {d} /\ again' = again \ {d}
      /\ closed' = IF scan \in Walking THEN closed \cup {d} ELSE closed
  BY NoDexFiles DEF Remove, Forget, Free, lock, Inv, TypeOK
<1>2. PICK s \in Slots(length) : entries[s] = d /\ entries' = [entries EXCEPT ![s] = Tombstone]
  BY <1>1, ListedIsFound DEF Remove, Listed
<1>3. \A t \in Slots(length) : entries'[t] = IF t = s THEN Tombstone ELSE entries[t]
  BY <1>2 DEF Inv, TypeOK
<1>4. scan \in Walking /\ ~moved => OnCourse'
  <2> SUFFICES ASSUME OnCourse, ~moved, scan \in Walking
               PROVE  OnCourse'
    BY DEF WalkInv
  <2>1. closed' = closed \cup {d}
    BY <1>1
  <2>2. i \in Nat /\ (i < tableSize => i \in Slots(length)) /\ seen \subseteq Dexes /\ held \subseteq Dexes
    BY <1>1 DEF Inv, TypeOK, Slots
  <2>3. \A e \in held' : \E t \in Slots(length) : entries'[t] = e
    BY <1>1, <1>2, <1>3 DEF OnCourse
  <2>4. \A t \in Slots(length) : t < i /\ entries'[t] \in held' =>
          entries'[t] \in seen' \/ Overlooked(entries'[t])
    BY <1>1, <1>3, <2>2, NoDexFiles DEF OnCourse
  <2>5. \A e \in seen' \ closed' : \E t \in Slots(length) : t < i /\ entries'[t] = e
    BY <1>1, <1>2, <1>3, <2>1 DEF OnCourse
  <2>6. scan = "use" => /\ i < tableSize
                        /\ entries'[i] \in held' => datum = entries'[i]
                        /\ datum \in Dexes \ closed' => entries'[i] = datum
    BY <1>1, <1>2, <1>3, <2>1, <2>2, NoDexFiles DEF OnCourse
  <2>7. closed' # {} /\ again' \subseteq closed'
    BY <1>1, <2>1 DEF OnCourse
  <2>8. QED
    BY <1>1, <2>3, <2>4, <2>5, <2>6, <2>7 DEF OnCourse, Overlooked
<1>5. scan \in {"off", "finished"} => closed' = {}
  BY <1>1 DEF WalkInv, Walking
<1>6. QED
  BY <1>1, <1>4, <1>5 DEF WalkInv

\* Every step of the application's threads keeps the walk on its course.
LEMMA OthersKeepWalk ==
  ASSUME Inv, WalkInv, (\E d \in Dexes : App(d)) \/ Resize
  PROVE  WalkInv'
<1>0. /\ tableSize \in Nat /\ i \in Nat /\ 2 * tableSize >= tableSize /\ 2 * tableSize \in Nat
      /\ tableSize >= tableSize
  BY DEF Inv, TypeOK
<1>1. ASSUME NEW d \in Dexes, Open(d) \/ OpenReturns(d)
      PROVE  WalkInv'
  <2>1. UNCHANGED <<entries, length, tableSize, walk, closed, moved>> /\ step' \in {"add", "idle"}
    BY <1>1 DEF Open, OpenReturns, table
  <2>2. QED
    BY <1>0, <2>1, QuietKeepsWalk
<1>2. ASSUME NEW d \in Dexes, Close(d) \/ FreeDexOrJar(d) \/ Define(d)
      PROVE  WalkInv'
  <2>1. UNCHANGED <<entries, length, tableSize, walk, closed, moved, step>>
    BY <1>2 DEF Close, FreeDexOrJar, Define, table, lock
  <2>2. UNCHANGED <<pass, scan, i, at, datum, mapped, seen, again, held>>
    BY <2>1 DEF walk
  <2>3. QED
    BY <2>1, <2>2 DEF WalkInv, OnCourse, Overlooked
<1>3. CASE Grow \/ Copy
  <2>1. UNCHANGED <<entries, length, tableSize, walk, closed, moved>> /\ step' = "copy"
    BY <1>3 DEF Grow, Copy, table
  <2>2. QED
    BY <1>0, <2>1, QuietKeepsWalk
<1>4. CASE FreeOld
  <2>1. /\ UNCHANGED <<entries, length, tableSize, pass, scan, i, datum, mapped, seen, again,
                       held, closed>>
        /\ moved' = (moved \/ scan \in Walking)
        /\ at' = IF scan \in Holding THEN "freed" ELSE at
    BY <1>4 DEF FreeOld, table
  <2>2. QED
    BY <2>1 DEF WalkInv
<1>5. CASE Publish \/ SetSize
  <2>1. /\ UNCHANGED <<pass, scan, i, at, datum, mapped, seen, again, held, closed, moved>>
        /\ tableSize' \in {tableSize, 2 * tableSize} /\ step \in {"publish", "setsize"}
    BY <1>5 DEF Publish, SetSize, walk
  <2>2. scan \in Walking => moved
    BY <2>1 DEF WalkInv, OnCourse
  <2>3. scan \in Holding => i < tableSize'
    BY <1>0, <2>1 DEF WalkInv
  <2>4. QED
    BY <2>1, <2>2, <2>3 DEF WalkInv
<1>6. QED
  BY <1>1, <1>2, <1>3, <1>4, <1>5, AddKeepsWalk, RemoveKeepsWalk DEF App, Resize

\* What it looked at, and what it did with it.
LEMMA WalkKeepsWalk ==
  ASSUME Inv, WalkInv, Walk
  PROVE  WalkInv' /\ DeathHasCause'
<1>1. /\ UNCHANGED <<entries, length, tableSize, step, life>>
      /\ i \in Nat /\ tableSize \in Nat /\ (i < tableSize => i \in Slots(length))
      /\ i + 1 \in Nat /\ (\A s \in Slots(length) : s < i + 1 <=> s < i \/ s = i)
      /\ held \subseteq Dexes /\ seen \subseteq Dexes
  BY WalkChanges DEF table, lock, dexes, Inv, TypeOK, Slots
<1>2. CASE StartScan
  <2>1. /\ scan' = "check" /\ held' = Live(entries, length) /\ seen = {} /\ again = {}
        /\ closed = {} /\ i = 0 /\ at = "here"
        /\ moved' = (step \in {"publish", "setsize"})
        /\ mapped' = IF pass = "restore" THEN mapped ELSE held'
        /\ UNCHANGED <<closed, pass, i, at, datum, seen, again>>
    BY <1>2 DEF StartScan, WalkInv, Holding
  <2>2. \A s \in Slots(length) : ~(s < 0)
    BY DEF Slots
  <2>3. held \subseteq Dexes /\ (~moved' => OnCourse')
    BY <1>1, <2>1, <2>2 DEF OnCourse, Live
  <2>4. QED
    BY <2>1, <2>3 DEF WalkInv, DeathHasCause, Holding
<1>3. CASE CheckSize
  <2>1. /\ scan = "check" /\ scan' = "null" /\ i < tableSize
        /\ at' = IF step = "publish" THEN "freed" ELSE "here"
        /\ UNCHANGED <<closed, moved, pass, i, datum, mapped, seen, again, held>>
    BY <1>3 DEF CheckSize, WalkOnly
  <2>2. ~moved => OnCourse
    BY <2>1 DEF WalkInv, Walking
  <2>3. ~moved => OnCourse'
    BY <1>1, <2>1, <2>2 DEF OnCourse, Overlooked
  <2>4. QED
    BY <1>1, <2>1, <2>3 DEF WalkInv, DeathHasCause, Holding, Walking
<1>4. CASE EndScan
  BY <1>4 DEF EndScan, WalkOver, WalkInv, DeathHasCause, Walking, Holding
<1>5. CASE CheckNull
  <2>1. /\ scan = "null" /\ UNCHANGED <<closed, moved, pass, datum, mapped, seen, again, held>>
        /\ i < tableSize /\ i \in Slots(length)
    BY <1>1, <1>5 DEF CheckNull, WalkOnly, WalkInv, Holding
  <2>2. ~moved => OnCourse /\ at = "here"
    BY <2>1 DEF WalkInv, Walking, OnCourse
  <2>3. CASE NextSlot /\ (~moved => entries[i] = Null)
    <3>1. ~moved => OnCourse'
      BY <1>1, <2>1, <2>2, <2>3, NoDexFiles DEF OnCourse, NextSlot, Overlooked
    <3>2. QED
      BY <2>1, <2>3, <3>1 DEF WalkInv, DeathHasCause, Holding, Walking, NextSlot
  <2>4. CASE scan' = "readable" /\ UNCHANGED <<i, at>> /\ (~moved => entries[i] # Null)
    <3>1. ~moved => OnCourse'
      BY <1>1, <2>1, <2>2, <2>4 DEF OnCourse, Overlooked
    <3>2. QED
      BY <1>1, <2>1, <2>4, <3>1 DEF WalkInv, DeathHasCause, Holding, Walking
  <2>5. QED
    BY <1>5, <2>2, <2>3, <2>4 DEF CheckNull, DataRead
<1>6. CASE CheckReadable
  <2>1. /\ scan = "readable" /\ UNCHANGED <<closed, moved, pass, datum, mapped, seen, again, held>>
        /\ i < tableSize /\ i \in Slots(length)
    BY <1>1, <1>6 DEF CheckReadable, WalkOnly, WalkInv, Holding
  <2>2. ~moved => OnCourse /\ at = "here"
    BY <2>1 DEF WalkInv, Walking, OnCourse
  <2>3. PICK v \in DataRead, readable \in BOOLEAN :
          /\ v \in {Null, Tombstone} => ~readable
          /\ v \in mapped => readable
          /\ IF readable THEN scan' = "take" /\ UNCHANGED <<i, at>> ELSE NextSlot
    BY <1>6 DEF CheckReadable
  <2>4. ~moved => v = entries[i]
    BY <2>2, <2>3 DEF DataRead
  <2>5. CASE ~readable
    <3>1. ~moved => (entries[i] \in held => Overlooked(entries[i]))
      BY <2>1, <2>3, <2>4, <2>5 DEF WalkInv, Walking, Overlooked
    <3>2. ~moved => OnCourse'
      BY <1>1, <2>1, <2>2, <2>3, <2>5, <3>1 DEF OnCourse, NextSlot, Overlooked
    <3>3. QED
      BY <2>1, <2>3, <2>5, <3>2 DEF WalkInv, DeathHasCause, Holding, Walking, NextSlot
  <2>6. CASE readable
    <3>1. ~moved => entries[i] \in Dexes
      BY <2>1, <2>3, <2>4, <2>6 DEF Inv, TypeOK, Data
    <3>2. ~moved => OnCourse'
      BY <1>1, <2>1, <2>2, <2>3, <2>6, <3>1 DEF OnCourse, Overlooked
    <3>3. QED
      BY <1>1, <2>1, <2>3, <2>6, <3>2 DEF WalkInv, DeathHasCause, Holding, Walking
  <2>7. QED
    BY <2>5, <2>6
<1>7. CASE Take
  <2>1. /\ scan = "take" /\ scan' = "use" /\ at' = "here" /\ datum' \in DataRead
        /\ UNCHANGED <<closed, moved, pass, i, mapped, seen, again, held>> /\ i < tableSize
    BY <1>7 DEF Take, WalkOnly, WalkInv, Holding
  <2>2. ~moved => OnCourse /\ datum' = entries[i]
    BY <2>1 DEF WalkInv, Walking, OnCourse, DataRead
  <2>3. ~moved => OnCourse'
    BY <1>1, <2>1, <2>2 DEF OnCourse, Overlooked
  <2>4. QED
    BY <2>1, <2>3 DEF WalkInv, DeathHasCause, Holding, Walking
<1>8. CASE Use
  <2>1. /\ scan = "use" /\ NextSlot /\ IsDexOrJar(datum)
        /\ seen' = seen \cup {datum} /\ again' = again \cup ({datum} \cap seen)
        /\ UNCHANGED <<closed, moved, pass, mapped, held>>
    BY <1>8 DEF Use, WalkOnly
  <2>2. ~moved => OnCourse /\ i \in Slots(length)
    BY <1>1, <2>1 DEF WalkInv, Walking, OnCourse
  <2>3. ~moved => OnCourse'
    <3> SUFFICES ASSUME ~moved
                 PROVE  OnCourse'
      OBVIOUS
    <3>1. datum \in Dexes /\ (datum \notin closed => entries[i] = datum)
      BY <2>1, <2>2 DEF OnCourse, IsDexOrJar
    <3>2. \A d \in seen' \ closed : \E s \in Slots(length) : s < i + 1 /\ entries[s] = d
      BY <1>1, <2>1, <2>2, <3>1 DEF OnCourse
    <3>3. \A s \in Slots(length) : s < i + 1 /\ entries[s] \in held =>
            entries[s] \in seen' \/ Overlooked(entries[s])
      BY <1>1, <2>1, <2>2 DEF OnCourse
    <3>4. again' \subseteq closed
      <4>1. ASSUME datum \in seen, datum \notin closed
            PROVE  FALSE
        <5>1. PICK s \in Slots(length) : s < i /\ entries[s] = datum
          BY <2>2, <4>1 DEF OnCourse
        <5>2. s = i
          BY <2>2, <3>1, <4>1, <5>1 DEF Inv, TableInv, Unique
        <5>3. QED
          BY <1>1, <5>1, <5>2
      <4>2. QED
        BY <2>1, <2>2, <4>1 DEF OnCourse
    <3>5. QED
      BY <1>1, <2>1, <2>2, <3>2, <3>3, <3>4 DEF OnCourse, NextSlot, Overlooked
  <2>4. QED
    BY <2>1, <2>3 DEF WalkInv, DeathHasCause, Holding, Walking, NextSlot
<1>9. CASE UseGarbage
  <2>1. /\ scan = "use" /\ ~IsDexOrJar(datum)
        /\ UNCHANGED <<closed, moved, pass, mapped, seen, again, held>>
        /\ (scan' = "dead" /\ UNCHANGED <<i, at>>) \/ NextSlot
    BY <1>9 DEF UseGarbage, WalkOnly
  <2>2. ~moved => OnCourse /\ i \in Slots(length)
    BY <1>1, <2>1 DEF WalkInv, Walking, OnCourse
  <2>3. ~moved => entries[i] \notin held /\ closed # {}
    BY <1>1, <2>1, <2>2, EntryIsDexOrJar DEF OnCourse
  <2>4. CASE scan' = "dead" /\ UNCHANGED <<i, at>>
    BY <2>1, <2>3, <2>4 DEF WalkInv, DeathHasCause, Holding, Walking
  <2>5. CASE NextSlot
    <3>1. ~moved => OnCourse'
      BY <1>1, <2>1, <2>2, <2>3, <2>5 DEF OnCourse, NextSlot, Overlooked
    <3>2. QED
      BY <2>1, <2>5, <3>1 DEF WalkInv, DeathHasCause, Holding, Walking, NextSlot
  <2>6. QED
    BY <2>1, <2>4, <2>5
<1>10. QED
  BY <1>2, <1>3, <1>4, <1>5, <1>6, <1>7, <1>8, <1>9 DEF Walk

-----------------------------------------------------------------------------
(* The theorems.                                                           *)

LEMMA NextKeepsIInv ==
  ASSUME IInv, [Next]_vars
  PROVE  IInv'
<1>1. Inv /\ WalkInv /\ DeathHasCause /\ WalkOnce
  BY DEF IInv, Inv
<1>2. CASE UNCHANGED vars
  <2>1. UNCHANGED <<entries, length, tableSize, numEntries, numDeadEntries, owner, step, fresh,
                    copied, life, okayToFree, pass, scan, i, at, datum, mapped, seen, again, held,
                    closed, moved>>
    BY <1>2 DEF vars, table, lock, dexes, walk
  <2>2. TypeOK' /\ TableInv' /\ FreshInv'
    BY <2>1 DEF IInv, TypeOK, TableInv, Listed, FreshInv
  <2>3. CountInv' /\ WalkInv' /\ DeathHasCause' /\ WalkOnce'
    BY <2>1 DEF IInv, CountInv, WalkInv, OnCourse, Overlooked, DeathHasCause, WalkOnce
  <2>4. QED
    BY <2>2, <2>3 DEF IInv
<1>3. CASE scan # "dead" /\ ((\E d \in Dexes : App(d)) \/ Resize)
  <2>1. TypeOK'
    BY <1>1, <1>3, OperationTypes, ClosingTypes DEF App, Inv
  <2>2. TableInv' /\ FreshInv' /\ CountInv'
    BY <1>1, <1>3, OpenKeeps, AddKeeps, OpenReturnsKeeps, CloseKeeps, RemoveKeeps,
       FreeDexOrJarKeeps, DefineKeeps, GrowKeeps, CopyKeeps, FreeOldKeeps, PublishKeeps,
       SetSizeKeeps DEF App, Resize
  <2>3. WalkInv'
    BY <1>1, <1>3, OthersKeepWalk
  <2>4. UNCHANGED scan /\ DeathHasCause'
    BY <1>1, <1>3 DEF App, Resize, Open, Add, OpenReturns, Close, Remove, FreeDexOrJar, Define,
       Grow, Copy, FreeOld, Publish, SetSize, walk, DeathHasCause
  <2>5. WalkOnce'
    <3>1. scan' \in Scan \ {"dead"}
      BY <1>3, <2>1, <2>4 DEF TypeOK
    <3>2. QED
      BY <2>3, <3>1 DEF WalkInv, OnCourse, WalkOnce, Scan
  <2>6. QED
    BY <2>1, <2>2, <2>3, <2>4, <2>5 DEF IInv
<1>4. CASE scan # "dead" /\ Walk
  <2>1. TypeOK' /\ WalkInv' /\ DeathHasCause'
    BY <1>1, <1>4, WalkTypes, WalkKeepsWalk DEF Inv
  <2>2. TableInv' /\ FreshInv' /\ CountInv'
    <3>1. UNCHANGED <<entries, length, tableSize, numEntries, numDeadEntries, owner, step, fresh,
                      copied, life>>
      BY <1>4, WalkChanges DEF table, lock, dexes
    <3>2. QED
      BY <1>1, <3>1 DEF Inv, TableInv, Listed, FreshInv, CountInv
  <2>3. WalkOnce'
    <3>1. CASE scan' = "dead"
      <4>1. UNCHANGED <<again, closed, moved>>
        BY <1>4, <3>1 DEF Walk, StartScan, CheckSize, EndScan, CheckNull, CheckReadable, Take,
           Use, UseGarbage, NextSlot, WalkOnly
      <4>2. QED
        BY <1>1, <4>1 DEF WalkOnce
    <3>2. CASE scan' # "dead"
      <4>1. scan' \in Scan \ {"dead"}
        BY <2>1, <3>2 DEF TypeOK
      <4>2. QED
        BY <2>1, <4>1 DEF WalkInv, OnCourse, WalkOnce, Scan
    <3>3. QED
      BY <3>1, <3>2
  <2>4. QED
    BY <2>1, <2>2, <2>3 DEF IInv
<1>5. QED
  BY <1>2, <1>3, <1>4 DEF Next

THEOREM IInvHolds == Spec => []IInv
<1>1. Init => IInv
  BY InitIInv
<1>2. IInv /\ [Next]_vars => IInv'
  BY NextKeepsIInv
<1>3. QED
  BY <1>1, <1>2, PTL DEF Spec

\* The types of the table, the lock, the dex files and the walk are kept by every
\* operation of Hash.cpp, dalvik_system_DexFile.cpp and Cookie.cpp.
THEOREM TypesHold == Spec => []TypeOK
<1>1. IInv => TypeOK
  BY DEF IInv
<1>2. QED
  BY <1>1, IInvHolds, PTL

\* Removed entries count against the load: a table nobody is working on always has
\* an empty slot, so that the search of dvmHashTableLookup for a cookie that is not
\* in it comes to an end.
THEOREM SearchesEndHolds == Spec => []SearchesEnd
<1>1. IInv => SearchesEnd
  <2> SUFFICES ASSUME IInv, Free, \A s \in Slots(length) : entries[s] # Null
               PROVE  FALSE
    BY DEF SearchesEnd
  <2>1. /\ step = "idle" /\ length = tableSize /\ length \in Nat /\ entries \in [Slots(length) -> Data]
        /\ numEntries = Cardinality(LiveSlots(entries, length))
        /\ numDeadEntries = Cardinality(DeadSlots(entries, length))
        /\ ~TooFull(numEntries + numDeadEntries, tableSize) /\ tableSize >= 2
    BY DEF IInv, TypeOK, CountInv, Free
  <2>2. Slots(length) = LiveSlots(entries, length) \cup DeadSlots(entries, length)
    BY <2>1 DEF LiveSlots, DeadSlots, Data
  <2>3. LiveSlots(entries, length) \cap DeadSlots(entries, length) = {}
    BY NoDexFiles DEF LiveSlots, DeadSlots
  <2>4. Cardinality(Slots(length)) = numEntries + numDeadEntries - Cardinality({})
    BY <2>1, <2>2, <2>3, SlotSets, FS_Union
  <2>5. length = numEntries + numDeadEntries
    BY <2>1, <2>4, SlotSets, FS_EmptySet
  <2>6. QED
    BY <2>1, <2>5 DEF TooFull
<1>2. QED
  BY <1>1, IInvHolds, PTL

\* The two counters of the table are exact whenever the lock is free: the assertion
\* of resizeHash holds.
THEOREM CountsExactHolds == Spec => []CountsExact
<1>1. IInv => CountsExact
  BY DEF IInv, TypeOK, CountInv, CountsExact, Free, LiveSlots, DeadSlots
<1>2. QED
  BY <1>1, IInvHolds, PTL

\* At every moment, in the middle of an operation too, the table holds no dex file
\* that was freed, and none twice.
THEOREM EntriesAliveHolds == Spec => []EntriesAlive
<1>1. IInv => EntriesAlive
  BY DEF IInv, TableInv, Unique, Listed, EntriesAlive
<1>2. QED
  BY <1>1, IInvHolds, PTL

\* validateCookie never refuses the cookie of a dex file that is open.
THEOREM CookiesAcceptedHolds == Spec => []CookiesAccepted
<1>1. IInv => CookiesAccepted
  BY DEF IInv, TableInv, CookiesAccepted
<1>2. QED
  BY <1>1, IInvHolds, PTL

\* getCookieAt never looks behind the end of the array it reads.
THEOREM WalkInBoundsHolds == Spec => []WalkInBounds
<1>1. IInv => WalkInBounds
  BY DEF IInv, TypeOK, WalkInv, WalkInBounds
<1>2. QED
  BY <1>1, IInvHolds, PTL

\* A walk the table is not moved under gives the dump thread every dex file that
\* was loaded from its beginning to its end: those of print and of the dump without
\* exception, that of restoreLastStatus but for what the maps of print do not hold.
THEOREM WalkCompleteHolds == Spec => []WalkComplete
<1>1. IInv => WalkComplete
  <2> SUFFICES ASSUME IInv, WalkOver, ~moved, NEW d \in held
               PROVE  d \in seen \/ Overlooked(d)
    BY DEF WalkComplete
  <2>1. OnCourse
    BY DEF IInv, WalkInv, WalkOver, Walking
  <2>2. PICK s \in Slots(length) : entries[s] = d
    BY <2>1 DEF OnCourse
  <2>3. s < i
    BY <2>1, <2>2 DEF IInv, TypeOK, OnCourse, WalkOver, Slots
  <2>4. QED
    BY <2>1, <2>2, <2>3 DEF OnCourse
<1>2. QED
  BY <1>1, IInvHolds, PTL

\* Such a walk gives it none twice, unless an address was used again.
THEOREM WalkOnceHolds == Spec => []WalkOnce
<1>1. IInv => WalkOnce
  BY DEF IInv
<1>2. QED
  BY <1>1, IInvHolds, PTL

\* Without a growing table or a closed dex file the walk never reads a structure
\* that is not there.
THEOREM DeathHasCauseHolds == Spec => []DeathHasCause
<1>1. IInv => DeathHasCause
  BY DEF IInv
<1>2. QED
  BY <1>1, IInvHolds, PTL

-----------------------------------------------------------------------------
(* The refinement.                                                         *)

LoadedNow == Live(entries, length)
LeavingNow == {d \in Dexes : life[d] = "closing"}
RefusedNow == {d \in Dexes : life[d] = "refused"}

\* The dex files in the table are those that were listed, before a step and after it.
LEMMA LoadedIsListed ==
  ASSUME Inv, Inv'
  PROVE  /\ \A d \in Dexes : d \in LoadedNow <=> Listed(d)
         /\ \A d \in Dexes : d \in LoadedNow' <=> (Listed(d))'
         /\ LoadedNow \subseteq Dexes /\ LoadedNow' \subseteq Dexes
  BY DEF Inv, TableInv, LoadedNow, Live

\* A step of the hash table is a step of the set, or does not show.
LEMMA MapsNext ==
  ASSUME IInv, [Next]_vars
  PROVE  Set!Next \/ UNCHANGED <<LoadedNow, LeavingNow, RefusedNow>>
<1>1. Inv /\ Inv' /\ life \in [Dexes -> Life] /\ RefusedNow = {} /\ RefusedNow' = {}
  BY NextKeepsIInv DEF IInv, Inv, TypeOK, TableInv, RefusedNow
<1>2. /\ \A d \in Dexes : d \in LoadedNow <=> Listed(d)
      /\ \A d \in Dexes : d \in LoadedNow' <=> (Listed(d))'
      /\ LoadedNow \subseteq Dexes /\ LoadedNow' \subseteq Dexes
  BY <1>1, LoadedIsListed
<1>3. CASE UNCHANGED <<life, step>> \/ (UNCHANGED life /\ step # "add" /\ step' # "add")
  <2>1. \A d \in Dexes : (Listed(d))' <=> Listed(d)
    BY <1>3 DEF Listed
  <2>2. LoadedNow' = LoadedNow
    BY <1>2, <2>1
  <2>3. LeavingNow' = LeavingNow
    BY <1>3 DEF LeavingNow
  <2>4. QED
    BY <1>1, <2>2, <2>3
<1>4. ASSUME NEW d \in Dexes, Open(d)
      PROVE  UNCHANGED <<LoadedNow, LeavingNow, RefusedNow>>
  <2>1. /\ life' = [life EXCEPT ![d] = "opening"] /\ life[d] = "absent" /\ step' = "add"
        /\ step = "idle" /\ owner = NoDex
    BY <1>1, <1>4 DEF Open, Free, Inv, TypeOK
  <2>2. \A e \in Dexes : (Listed(e))' <=> Listed(e)
    BY <1>1, <2>1, NoDexFiles DEF Listed, Inv, TableInv
  <2>3. LoadedNow' = LoadedNow
    BY <1>2, <2>2
  <2>4. LeavingNow' = LeavingNow
    BY <1>1, <2>1 DEF LeavingNow
  <2>5. QED
    BY <1>1, <2>3, <2>4
<1>5. ASSUME NEW d \in Dexes, Add(d)
      PROVE  Set!Next
  <2>1. UNCHANGED life /\ step = "add" /\ step' # "add" /\ life[d] = "opening"
    BY <1>1, <1>5 DEF Add, dexes, Inv, TableInv
  <2>2. \A e \in Dexes : (Listed(e))' <=> Listed(e) \/ e = d
    BY <1>1, <1>5, <2>1 DEF Listed, Inv, TableInv, Add
  <2>3. LoadedNow' = LoadedNow \cup {d} /\ d \notin LoadedNow
    BY <1>2, <2>1, <2>2 DEF Listed
  <2>4. LeavingNow' = LeavingNow
    BY <2>1 DEF LeavingNow
  <2>5. QED
    BY <1>1, <2>3, <2>4 DEF Set!Next, Set!Add, LoadedNow, LeavingNow, RefusedNow
<1>6. ASSUME NEW d \in Dexes, OpenReturns(d)
      PROVE  UNCHANGED <<LoadedNow, LeavingNow, RefusedNow>>
  <2>1. /\ life' = [life EXCEPT ![d] = "open"] /\ life[d] = "opening" /\ step = "unlock"
        /\ step' = "idle" /\ owner = d
    BY <1>1, <1>6 DEF OpenReturns, Inv, TableInv
  <2>2. \A e \in Dexes : (Listed(e))' <=> Listed(e)
    BY <1>1, <2>1 DEF Listed, Inv, TableInv
  <2>3. LoadedNow' = LoadedNow
    BY <1>2, <2>2
  <2>4. LeavingNow' = LeavingNow
    BY <1>1, <2>1 DEF LeavingNow
  <2>5. QED
    BY <1>1, <2>3, <2>4
<1>7. ASSUME NEW d \in Dexes, Close(d)
      PROVE  Set!Next
  <2>1. life[d] = "open" /\ UNCHANGED step
    BY <1>7 DEF Close, lock
  <2>2. life' = [life EXCEPT ![d] = "closing"]
    <3>1. PICK found \in BOOLEAN :
            life' = [life EXCEPT ![d] = IF found THEN "closing" ELSE "refused"]
      BY <1>7 DEF Close
    <3>2. life'[d] # "refused"
      BY <1>1 DEF Inv, TableInv
    <3>3. QED
      BY <1>1, <3>1, <3>2
  <2>3. LoadedNow' = LoadedNow
    <3>1. \A e \in Dexes : (Listed(e))' <=> Listed(e)
      BY <1>1, <2>1, <2>2 DEF Listed
    <3>2. QED
      BY <1>2, <3>1
  <2>4. LeavingNow' = LeavingNow \cup {d} /\ d \in LoadedNow
    BY <1>1, <1>2, <2>1, <2>2 DEF LeavingNow, Listed
  <2>5. QED
    BY <1>1, <2>3, <2>4 DEF Set!Next, Set!Leave, LoadedNow, LeavingNow, RefusedNow
<1>8. ASSUME NEW d \in Dexes, Remove(d)
      PROVE  Set!Next
  <2>1. life[d] = "closing" /\ UNCHANGED step /\ life' = [life EXCEPT ![d] = "removed"]
    BY <1>8 DEF Remove, lock
  <2>2. \A e \in Dexes : (Listed(e))' <=> Listed(e) /\ e # d
    BY <1>1, <2>1 DEF Listed
  <2>3. LoadedNow' = LoadedNow \ {d}
    BY <1>2, <2>2
  <2>4. LeavingNow' = LeavingNow \ {d} /\ d \in LeavingNow
    BY <1>1, <2>1 DEF LeavingNow
  <2>5. QED
    BY <1>1, <2>3, <2>4 DEF Set!Next, Set!Remove, LoadedNow, LeavingNow, RefusedNow
<1>9. ASSUME NEW d \in Dexes, FreeDexOrJar(d)
      PROVE  UNCHANGED <<LoadedNow, LeavingNow, RefusedNow>>
  <2>1. life[d] = "removed" /\ UNCHANGED step /\ life' = [life EXCEPT ![d] = "absent"]
    BY <1>9 DEF FreeDexOrJar, lock
  <2>2. \A e \in Dexes : (Listed(e))' <=> Listed(e)
    BY <1>1, <2>1 DEF Listed
  <2>3. LoadedNow' = LoadedNow
    BY <1>2, <2>2
  <2>4. LeavingNow' = LeavingNow
    BY <1>1, <2>1 DEF LeavingNow
  <2>5. QED
    BY <1>1, <2>3, <2>4
<1>10. ASSUME NEW d \in Dexes, Define(d)
       PROVE  UNCHANGED <<life, step>>
  BY <1>1, <1>10, DefineKeeps DEF Define, lock
<1>11. CASE Resize
  BY <1>3, <1>11 DEF Resize, Grow, Copy, FreeOld, Publish, SetSize, dexes
<1>12. CASE Walk
  BY <1>3, <1>12, WalkChanges DEF lock, dexes
<1>13. CASE UNCHANGED vars
  BY <1>3, <1>13 DEF vars, lock, dexes
<1>14. QED
  BY <1>3, <1>4, <1>5, <1>6, <1>7, <1>8, <1>9, <1>10, <1>11, <1>12, <1>13 DEF Next, App

\* The hash table implements the set of cookies: for its callers nothing shows of
\* its slots, its tombstones and its growth.
THEOREM ImplementsSetHolds == Spec => ImplementsSet
<1>1. Init => Set!Init
  BY NoDexFiles DEF Init, Set!Init, Live
<1>2. IInv /\ [Next]_vars => [Set!Next]_(Set!vars)
  BY MapsNext DEF Set!vars, LoadedNow, LeavingNow, RefusedNow
<1>3. QED
  BY <1>1, <1>2, IInvHolds, PTL DEF Spec, ImplementsSet, Set!Spec

=============================================================================
