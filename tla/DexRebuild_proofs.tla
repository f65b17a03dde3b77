---- MODULE DexRebuild_proofs ----
(***************************************************************************)
(* TLAPS proofs about DexRebuild: for every dex file, every set of         *)
(* methods, every layout of the header and every way the classes come, the *)
(* items rebuilt do not overlap, the lookup of a method by the sum of the  *)
(* deltas succeeds, and the offsets lead to the items.                     *)
(***************************************************************************)
EXTENDS DexRebuild, FiniteSetTheorems, WellFoundedInduction, TLAPS

----------------------------------------------------------------------------
(* The inductive invariant behind TypeOK, ItemsApart, LookupSucceeds and   *)
(* OffsetsLead.                                                            *)

\* The list at hand is in ascending order and holds methods of the builder's
\* map; lastIndex is the method of the entry before.  The virtual methods come
\* after the direct ones.
ListInv ==
  pc = "fix" =>
    /\ Len(entries[list]) <= Len(sorted)
    /\ list = "direct" => entries["virtual"] = <<>>
    /\ \A i \in DOMAIN sorted : sorted[i] \in Found
    /\ \A i, j \in DOMAIN sorted : i < j => sorted[i] < sorted[j]
    /\ source # "memory" =>
         last = IF Len(entries[list]) = 0 THEN 0 ELSE sorted[Len(entries[list])]

\* total_point is ahead of the end of extra by where extra starts, and at a
\* multiple of four between two items.
PointInv ==
  /\ pc = "start" => size = 0 /\ chunks = {} /\ defs = <<>> /\ entries = NoEntries
  /\ pc \in {"start", "class", "fix"} =>
       /\ point = HeaderDataEnd + size
       /\ \A ch \in chunks : ch.owner.what # "deps"
  /\ pc \in {"class", "fix"} => point % 4 = 0

IInv == TypeOK /\ ListInv /\ PointInv /\ ItemsApart /\ OffsetsLead

----------------------------------------------------------------------------
(* What has to hold on the way for ReaderFindsCode to hold in the end.     *)

\* e was made for method m of ms, which came from c: its offset leads to the code
\* of m, if m has code there.
MadeFor(items, e, m, ms, c) ==
  IF ms[m].len = 0
  THEN e.off = 0
  ELSE e.off # 0 /\ At(items, e.off, [what |-> CodeFrom(c), id |-> m])

\* es begins the entries of the methods s, with the differences between them.
Begins(items, es, s, ms, c) ==
  /\ Len(es) <= Len(s)
  /\ \A n \in DOMAIN es :
       /\ es[n].delta = IF n = 1 THEN s[1] ELSE s[n] - s[n - 1]
       /\ MadeFor(items, es[n], s[n], ms, c)

\* es are the entries of the methods of ms in list l.
Whole(items, es, ms, c, l) ==
  \E s \in Sorted(Listed(ms, l)) : Len(es) = Len(s) /\ Begins(items, es, s, ms, c)

\* Was the class to be found in the file's memory, and is it this dex file's?
Given(d, c) == d.from # "foreign" /\ c \notin NoData

DefDone(items, d, c) ==
  \/ d.dataOff = 0 /\ (Given(d, c) => MethodsOf(c) = {})
  \/ /\ At(items, d.dataOff, [what |-> "data", id |-> c])
     /\ d.methods \in MethodsFrom(d.from, c)
     /\ \A l \in Lists : Whole(items, d.entries[l], d.methods, d.from, l)

\* Data begin behind the header, so that no offset is 0.
ReadInv ==
  StringIdsOff = HeaderLen /\ HeaderDataEnd > 0 =>
    /\ pc = "fix" =>
         /\ methods \in MethodsFrom(source, Class)
         /\ sorted \in Sorted(Listed(methods, list))
         /\ Begins(chunks, entries[list], sorted, methods, source)
         /\ list = "virtual" => Whole(chunks, entries["direct"], methods, source, "direct")
    /\ \A c \in DOMAIN defs : DefDone(chunks, defs[c], c - 1)

DoneInv == pc = "done" => Class = NumClasses /\ OldDataLen >= 0

FileInv == IInv /\ ReadInv /\ DoneInv

----------------------------------------------------------------------------
(* Helpers *)

\* The next multiple of four.
LEMMA PaddedNat ==
  ASSUME NEW n \in Nat
  PROVE  Padded(n) \in Nat /\ Padded(n) >= n /\ Padded(n) % 4 = 0
  BY DEF Padded

\* A sorted list is a sequence of the set's members in ascending order.
LEMMA SortedSeq ==
  ASSUME NEW S \in SUBSET MethodId, NEW s \in Sorted(S)
  PROVE  /\ s \in Seq(S)
         /\ s \in Seq(MethodId)
         /\ \A i \in DOMAIN s : s[i] \in S
         /\ \A i, j \in DOMAIN s : i < j => s[i] < s[j]
<1>1. Cardinality(S) \in Nat
  BY FS_Subset, FS_CardinalityType, MethodAssumption
<1>2. s \in [1 .. Cardinality(S) -> S]
  BY DEF Sorted
<1>3. s \in Seq(S)
  BY <1>1, <1>2
<1>4. DOMAIN s = 1 .. Cardinality(S)
  BY <1>2
<1>5. \A i, j \in DOMAIN s : i < j => s[i] < s[j]
  BY <1>4 DEF Sorted
<1>6. QED
  BY <1>2, <1>3, <1>5

\* Of either list, the methods are of the map.
LEMMA ListedFound ==
  ASSUME NEW l \in Lists
  PROVE  /\ Listed(methods, l) \in SUBSET MethodId
         /\ Listed(methods, l) \subseteq Found
  BY DEF Listed, Found, Lists

\* Wherever a class comes from, its methods are methods with a list and a length.
LEMMA MethodsTyped ==
  ASSUME NEW s \in Sources, NEW c \in Classes, NEW ms \in MethodsFrom(s, c)
  PROVE  ms \in MethodMaps
<1> USE MethodAssumption
<1>1. Absent \in [list : Lists \cup {"none"}, len : Nat]
  BY DEF Absent
<1>2. NoMethods \in MethodMaps
  BY <1>1 DEF NoMethods, MethodMaps
<1>3. ASSUME NEW code PROVE OwnMethods(c, code) \in MethodMaps
  <2>1. ASSUME NEW m \in MethodsOf(c)
        PROVE  [list |-> ListOf[m], len |-> IF m \in code THEN SizeOf[m] ELSE 0]
                 \in [list : Lists \cup {"none"}, len : Nat]
    <3>1. ListOf[m] \in Lists /\ SizeOf[m] \in Nat
      BY DEF MethodsOf
    <3>2. QED
      BY <3>1
  <2>2. QED
    BY <1>1, <2>1 DEF OwnMethods, MethodMaps
<1>4. ForeignMethods(c) \subseteq MethodMaps
  <2> DEFINE found == [list : Lists, len : CodeLens \cup {0}] \cup {Absent}
  <2>1. ASSUME NEW f \in [IdsOf(c) -> found]
        PROVE  [m \in MethodId |-> IF m \in IdsOf(c) THEN f[m] ELSE Absent] \in MethodMaps
    <3>1. found \subseteq [list : Lists \cup {"none"}, len : Nat]
      <4>1. CodeLens \cup {0} \subseteq Nat
        OBVIOUS
      <4>2. [list : Lists, len : CodeLens \cup {0}] \subseteq [list : Lists \cup {"none"}, len : Nat]
        BY <4>1
      <4>3. QED
        BY <1>1, <4>2
    <3> HIDE DEF found
    <3>2. \A m \in IdsOf(c) : f[m] \in [list : Lists \cup {"none"}, len : Nat]
      BY <3>1
    <3>3. QED
      BY <1>1, <3>2 DEF MethodMaps
  <2>2. QED
    BY <2>1 DEF ForeignMethods
<1>5. QED
  BY <1>2, <1>3, <1>4 DEF MethodsFrom, Sources

\* With the string ids behind the header, extra is where the header says the
\* data ends.
LEMMA InFileIs ==
  ASSUME StringIdsOff = HeaderLen, NEW ch \in Chunk
  PROVE  InFile(ch) = HeaderDataEnd + ch.at
  BY LayoutAssumption, MethodAssumption
     DEF InFile, ExtraStart, OldDataLen, DataStart, ClassDefLen, HeaderLen, Chunk

\* An item that is placed lies behind all others, and at a multiple of four.
LEMMA PlaceKeeps ==
  ASSUME NEW owner \in Owner, NEW len \in Nat \ {0},
         TypeOK, PointInv, ItemsApart, pc \in {"class", "fix"},
         Place(owner, len)
  PROVE  /\ chunks' \in SUBSET Chunk
         /\ size' \in Nat
         /\ point' \in Nat
         /\ point' = HeaderDataEnd + size'
         /\ point' % 4 = 0
         /\ ItemsApart'
         /\ chunks \subseteq chunks'
         /\ \E ch \in chunks' : ch.owner = owner /\ HeaderDataEnd + ch.at = point
         /\ owner.what # "deps" => \A ch \in chunks' : ch.owner.what # "deps"
<1> DEFINE new == [owner |-> owner, at |-> size, len |-> len]
<1>1. /\ size \in Nat /\ point \in Nat /\ HeaderDataEnd \in Nat
      /\ point = HeaderDataEnd + size
      /\ point % 4 = 0
  BY LayoutAssumption DEF TypeOK, PointInv
<1>2. /\ Padded(point + len) \in Nat
      /\ Padded(point + len) >= point + len
      /\ Padded(point + len) % 4 = 0
  BY <1>1, PaddedNat
<1>3. /\ chunks' = chunks \cup {new}
      /\ point' = Padded(point + len)
      /\ size' = size + Padded(point + len) - point
  BY DEF Place
<1>4. /\ point' \in Nat /\ size' \in Nat
      /\ point' = HeaderDataEnd + size'
      /\ point' % 4 = 0
      /\ size' >= size + len
  BY <1>1, <1>2, <1>3
<1>5. new \in Chunk
  BY <1>1 DEF Chunk
<1>6. \A ch \in chunks : ch.at \in Nat /\ ch.len \in Nat \ {0} /\ ch.at + ch.len <= size
  BY DEF TypeOK, Chunk, ItemsApart
<1>7. \A ch \in chunks' :
        /\ (HeaderDataEnd + ch.at) % 4 = 0
        /\ ch.at + ch.len <= size'
  BY <1>1, <1>3, <1>4, <1>6 DEF ItemsApart
<1>8. \A ch \in chunks' : \A other \in chunks' \ {ch} :
        ch.at + ch.len <= other.at \/ other.at + other.len <= ch.at
  BY <1>1, <1>3, <1>6 DEF ItemsApart
<1>9. ItemsApart'
  BY <1>7, <1>8, <1>3 DEF ItemsApart
<1>10. /\ new \in chunks' /\ new.owner = owner /\ HeaderDataEnd + new.at = point
  BY <1>1, <1>3
<1>11. owner.what # "deps" => \A ch \in chunks' : ch.owner.what # "deps"
  BY <1>3 DEF PointInv
<1>12. chunks' \in SUBSET Chunk
  BY <1>3, <1>5 DEF TypeOK
<1>13. QED
  BY <1>3, <1>4, <1>9, <1>10, <1>11, <1>12

\* What leads to an item goes on leading to it when more items come.
LEMMA EntriesGoOn ==
  ASSUME NEW A, NEW B, A \subseteq B, NEW ces, EntriesLead(A, ces)
  PROVE  EntriesLead(B, ces)
  BY DEF EntriesLead, CodeAt

\* The same of a class definition.
LEMMA DefGoesOn ==
  ASSUME NEW A, NEW B, A \subseteq B, NEW d, NEW c, DefLeads(A, d, c)
  PROVE  DefLeads(B, d, c)
  BY EntriesGoOn DEF DefLeads, At

\* Class data that leads nowhere.
LEMMA NoEntriesLead ==
  ASSUME NEW A
  PROVE  EntriesLead(A, NoEntries)
  BY DEF EntriesLead, NoEntries

\* The delta of the entry at hand is a number, and with lastIndex it adds up to
\* the method of the entry.
LEMMA DeltaSound ==
  ASSUME TypeOK, ListInv, pc = "fix", MoreMethods
  PROVE  /\ Position \in DOMAIN sorted
         /\ Delta(Position) \in Nat
         /\ source # "memory" => last + Delta(Position) = sorted[Position]
<1> DEFINE n == Len(entries[list])
<1>1. n \in Nat /\ sorted \in Seq(MethodId) /\ MethodId \subseteq Nat
  BY MethodAssumption DEF TypeOK, ClassEntries
<1>2. Position = n + 1 /\ Position \in DOMAIN sorted
  BY <1>1 DEF Position, MoreMethods
<1>3. \A i \in DOMAIN sorted : sorted[i] \in Nat
  <2>1. \A i \in DOMAIN sorted : sorted[i] \in MethodId
    BY DEF TypeOK
  <2>2. QED
    BY <1>1, <2>1
<1>4. CASE n = 0
  BY <1>1, <1>2, <1>3, <1>4 DEF Delta, ListInv
<1>5. CASE n # 0
  <2>1. n \in DOMAIN sorted /\ sorted[n] < sorted[n + 1]
    BY <1>1, <1>2, <1>5 DEF ListInv
  <2>2. Delta(Position) = sorted[n + 1] - sorted[n]
    BY <1>1, <1>2, <1>5 DEF Delta
  <2>3. Delta(Position) \in Nat
    BY <1>2, <1>3, <2>1, <2>2
  <2>4. source # "memory" => last = sorted[n]
    BY <1>5 DEF ListInv
  <2>5. QED
    BY <1>2, <1>3, <2>1, <2>2, <2>3, <2>4
<1>6. QED
  BY <1>4, <1>5

\* An entry that is fixed goes behind those fixed before.
LEMMA FixedKeeps ==
  ASSUME TypeOK, ListInv, pc = "fix", MoreMethods, NEW off \in Nat, Fixed(off)
  PROVE  /\ entries' \in ClassEntries
         /\ Len(entries'[list]) = Len(entries[list]) + 1
         /\ \A l \in Lists : l # list => entries'[l] = entries[l]
         /\ \A l \in Lists : \A n \in DOMAIN entries'[l] :
              \/ n \in DOMAIN entries[l] /\ entries'[l][n] = entries[l][n]
              \/ entries'[l][n].off = off
<1> DEFINE e == [delta |-> Delta(Position), off |-> off]
<1>1. e \in MethodEntry
  BY DeltaSound DEF MethodEntry
<1>2. /\ entries \in [Lists -> Seq(MethodEntry)]
      /\ list \in Lists
  BY DEF TypeOK, ClassEntries
<1>3. entries' = [entries EXCEPT ![list] = Append(@, e)]
  BY DEF Fixed
<1>4. entries'[list] = Append(entries[list], e)
  BY <1>2, <1>3
<1>5. \A l \in Lists : l # list => entries'[l] = entries[l]
  BY <1>2, <1>3
<1>6. \A n \in DOMAIN entries'[list] :
        \/ n \in DOMAIN entries[list] /\ entries'[list][n] = entries[list][n]
        \/ entries'[list][n].off = off
  BY <1>1, <1>2, <1>4
<1>7. Len(entries'[list]) = Len(entries[list]) + 1
  BY <1>1, <1>2, <1>4
<1>8. entries' \in ClassEntries
  BY <1>1, <1>2, <1>3 DEF ClassEntries
<1>9. QED
  BY <1>5, <1>6, <1>7, <1>8

----------------------------------------------------------------------------
(* The initial state *)

\* Nothing is laid out yet.
LEMMA InitIInv == Init => IInv
<1> SUFFICES ASSUME Init PROVE IInv
  OBVIOUS
<1> USE MethodAssumption, LayoutAssumption DEF Init
<1>1. TypeOK
  <2>1. methods \in MethodMaps
    BY DEF NoMethods, Absent, MethodMaps
  <2>2. QED
    BY <2>1 DEF TypeOK, Sources, Lists, ClassEntries, NoEntries
<1>2. ListInv /\ PointInv
  BY DEF ListInv, PointInv
<1>3. ItemsApart
  BY DEF ItemsApart
<1>4. OffsetsLead
  BY NoEntriesLead DEF OffsetsLead
<1>5. QED
  BY <1>1, <1>2, <1>3, <1>4 DEF IInv

----------------------------------------------------------------------------
(* Every action preserves the invariant *)

\* Giving up changes nothing but the program counter.
LEMMA RefuseIInv ==
  ASSUME IInv, Refuse PROVE IInv'
<1> USE DEF IInv, Refuse, vars, classVars, extraVars
<1>1. TypeOK'
  BY DEF TypeOK
<1>2. ListInv' /\ PointInv'
  BY DEF ListInv, PointInv
<1>3. ItemsApart'
  BY DEF ItemsApart
<1>4. OffsetsLead'
  BY DEF OffsetsLead, DepsOffset
<1>5. QED
  BY <1>1, <1>2, <1>3, <1>4

\* The padding in front of the first item.
LEMMA StartIInv ==
  ASSUME IInv, Start PROVE IInv'
<1> USE DEF IInv, Start, classVars
<1>1. /\ point = HeaderDataEnd /\ point \in Nat /\ size = 0 /\ chunks = {}
      /\ defs = <<>> /\ entries = NoEntries
  BY LayoutAssumption DEF PointInv, TypeOK
<1>2. Padded(point) \in Nat /\ Padded(point) >= point /\ Padded(point) % 4 = 0
  BY <1>1, PaddedNat
<1>3. TypeOK'
  BY <1>1, <1>2 DEF TypeOK
<1>4. ListInv' /\ PointInv'
  BY <1>1, <1>2 DEF ListInv, PointInv
<1>5. ItemsApart'
  BY <1>1 DEF ItemsApart
<1>6. OffsetsLead'
  BY <1>1, NoEntriesLead DEF OffsetsLead
<1>7. QED
  BY <1>3, <1>4, <1>5, <1>6

\* Nothing is given out that could lead anywhere.
LEMMA SkipClassIInv ==
  ASSUME IInv, NEW s \in Sources, SkipClass(s) PROVE IInv'
<1> USE DEF IInv, SkipClass, classVars, extraVars
<1> DEFINE d == [dataOff |-> 0, entries |-> NoEntries, from |-> s, methods |-> NoMethods]
<1>1. d \in Def
  BY MethodAssumption DEF Def, ClassEntries, NoEntries, NoMethods, Absent, MethodMaps
<1>2. TypeOK'
  BY <1>1 DEF TypeOK
<1>3. ListInv' /\ PointInv'
  BY DEF ListInv, PointInv
<1>4. ItemsApart'
  BY DEF ItemsApart
<1>5. \A c \in DOMAIN defs' :
        \/ c \in DOMAIN defs /\ defs'[c] = defs[c]
        \/ defs'[c] = d
  BY <1>1 DEF TypeOK
<1>6. \A c : DefLeads(chunks, d, c)
  BY NoEntriesLead DEF DefLeads
<1> HIDE DEF d
<1>7. OffsetsLead'
  BY <1>5, <1>6, NoEntriesLead DEF OffsetsLead, DepsOffset
<1>8. QED
  BY <1>2, <1>3, <1>4, <1>7

\* The list is sorted, and nothing of it fixed.
LEMMA OpenClassIInv ==
  ASSUME IInv, NEW s \in Sources, OpenClass(s) PROVE IInv'
<1> USE DEF IInv, OpenClass, extraVars
<1>1. methods' \in MethodMaps
  <2>1. Class \in Classes
    BY MethodAssumption DEF Class, Classes, TypeOK
  <2>2. QED
    BY <2>1, MethodsTyped
<1>2. /\ sorted' \in Seq(MethodId)
      /\ \A i \in DOMAIN sorted' : sorted'[i] \in Found'
      /\ \A i, j \in DOMAIN sorted' : i < j => sorted'[i] < sorted'[j]
  <2>1. Listed(methods', "direct") \in SUBSET MethodId /\ Listed(methods', "direct") \subseteq Found'
    BY DEF Listed, Found
  <2>2. sorted' \in Sorted(Listed(methods', "direct"))
    OBVIOUS
  <2>3. QED
    BY <2>1, <2>2, SortedSeq
<1>3. TypeOK'
  BY <1>1, <1>2 DEF TypeOK, Lists, ClassEntries, NoEntries
<1>4. ListInv'
  BY <1>2 DEF ListInv, NoEntries, Lists
<1>5. PointInv'
  BY DEF PointInv
<1>6. ItemsApart'
  BY DEF ItemsApart
<1>7. OffsetsLead'
  BY NoEntriesLead DEF OffsetsLead, DepsOffset
<1>8. QED
  BY <1>3, <1>4, <1>5, <1>6, <1>7

\* An item of code, and the entry that leads to it; what both ways of fixing a
\* method with code share.
LEMMA ExportKeeps ==
  ASSUME IInv, pc = "fix", MoreMethods,
         NEW w \in {"code", "foreign code"}, NEW m \in MethodId, NEW len \in Nat \ {0},
         Fixed(point), Place([what |-> w, id |-> m], len), UNCHANGED defs
  PROVE  OffsetsLead'
<1> DEFINE owner == [what |-> w, id |-> m]
<1>1. /\ owner \in Owner
      /\ owner.what # "deps" /\ owner.what \in {"code", "foreign code"}
  BY MethodAssumption DEF Owner
<1>2. TypeOK /\ ListInv /\ PointInv /\ ItemsApart /\ OffsetsLead
  BY DEF IInv
<1>3. /\ chunks' \in SUBSET Chunk
      /\ chunks \subseteq chunks'
      /\ \E ch \in chunks' : ch.owner = owner /\ HeaderDataEnd + ch.at = point
      /\ \A ch \in chunks' : ch.owner.what # "deps"
  BY <1>1, <1>2, PlaceKeeps
<1>4. point \in Nat
  BY <1>2 DEF TypeOK
<1> HIDE DEF owner
<1>5. \A l \in Lists : \A n \in DOMAIN entries'[l] :
        \/ n \in DOMAIN entries[l] /\ entries'[l][n] = entries[l][n]
        \/ entries'[l][n].off = point
  BY <1>2, <1>4, FixedKeeps
<1>6. ASSUME StringIdsOff = HeaderLen
      PROVE  EntriesLead(chunks', entries')
  <2>1. EntriesLead(chunks, entries)
    BY <1>2, <1>6 DEF OffsetsLead
  <2>2. CodeAt(chunks', point)
    <3>1. PICK ch \in chunks' : ch.owner = owner /\ HeaderDataEnd + ch.at = point
      BY <1>3
    <3>2. InFile(ch) = point
      BY <1>3, <1>6, <3>1, InFileIs
    <3>3. ch.owner.what \in {"code", "foreign code"}
      BY <1>1, <3>1
    <3>4. QED
      BY <3>2, <3>3 DEF CodeAt
  <2>3. EntriesLead(chunks', entries)
    BY <1>3, <2>1, EntriesGoOn
  <2>4. QED
    BY <1>5, <2>2, <2>3 DEF EntriesLead
<1>7. ASSUME StringIdsOff = HeaderLen, NEW c \in DOMAIN defs
      PROVE  DefLeads(chunks', defs[c], c - 1)
  <2>1. DefLeads(chunks, defs[c], c - 1)
    BY <1>2, <1>7 DEF OffsetsLead
  <2>2. QED
    BY <1>3, <2>1, DefGoesOn
<1>8. QED
  BY <1>3, <1>6, <1>7 DEF OffsetsLead

\* One more entry of the list at hand is fixed.
LEMMA ListGoesOn ==
  ASSUME TypeOK, ListInv, pc = "fix", MoreMethods,
         Len(entries'[list]) = Len(entries[list]) + 1,
         \A l \in Lists : l # list => entries'[l] = entries[l],
         UNCHANGED <<source, methods, list, sorted>>,
         source # "memory" => last' = sorted[Position]
  PROVE  ListInv'
<1>1. entries[list] \in Seq(MethodEntry) /\ sorted \in Seq(MethodId)
  BY DEF TypeOK, ClassEntries
<1>2. Len(entries[list]) \in Nat /\ Len(sorted) \in Nat /\ DOMAIN sorted = 1 .. Len(sorted)
  BY <1>1
<1>3. Position \in DOMAIN sorted
  BY DeltaSound
<1>4. Len(entries'[list']) = Position /\ Position # 0 /\ Position <= Len(sorted)
  BY <1>2, <1>3 DEF Position
<1>5. list' = "direct" => entries'["virtual"] = <<>>
  BY DEF ListInv, Lists
<1>6. QED
  BY <1>4, <1>5 DEF ListInv, Found

\* A method with code: both ways of fixing it.
LEMMA CodeFixed ==
  ASSUME IInv, pc = "fix", MoreMethods,
         NEW w \in {"code", "foreign code"}, NEW m \in MethodId, NEW len \in Nat \ {0},
         Fixed(point), Place([what |-> w, id |-> m], len),
         UNCHANGED <<source, methods, list, sorted, defs>>,
         pc' = "fix", last' \in Int,
         source # "memory" => last' = sorted[Position]
  PROVE  IInv'
<1> DEFINE owner == [what |-> w, id |-> m]
<1>1. owner \in Owner /\ owner.what # "deps"
  BY MethodAssumption DEF Owner
<1>2. TypeOK /\ ListInv /\ PointInv /\ ItemsApart /\ OffsetsLead
  BY DEF IInv
<1>3. /\ chunks' \in SUBSET Chunk
      /\ size' \in Nat
      /\ point' \in Nat
      /\ point' = HeaderDataEnd + size'
      /\ point' % 4 = 0
      /\ ItemsApart'
      /\ \A ch \in chunks' : ch.owner.what # "deps"
  BY <1>1, <1>2, PlaceKeeps
<1>4. /\ entries' \in ClassEntries /\ Len(entries'[list]) = Len(entries[list]) + 1
      /\ \A l \in Lists : l # list => entries'[l] = entries[l]
  BY <1>2, FixedKeeps DEF TypeOK
<1>5. TypeOK'
  BY <1>2, <1>3, <1>4 DEF TypeOK
<1>6. ListInv'
  BY <1>2, <1>4, ListGoesOn
<1>7. PointInv'
  BY <1>3 DEF PointInv
<1>8. OffsetsLead'
  BY ExportKeeps
<1>9. QED
  BY <1>3, <1>5, <1>6, <1>7, <1>8 DEF IInv

\* A method without code, or one whose code is not known.
LEMMA NoCodeFixed ==
  ASSUME IInv, pc = "fix", MoreMethods, Fixed(0),
         UNCHANGED <<source, methods, list, sorted, defs, chunks, size, point>>,
         pc' = "fix", last' \in Int,
         source # "memory" => last' = sorted[Position]
  PROVE  IInv'
<1>2. TypeOK /\ ListInv /\ PointInv /\ ItemsApart /\ OffsetsLead
  BY DEF IInv
<1>4. /\ entries' \in ClassEntries /\ Len(entries'[list]) = Len(entries[list]) + 1
      /\ \A l \in Lists : l # list => entries'[l] = entries[l]
      /\ \A l \in Lists : \A n \in DOMAIN entries'[l] :
           \/ n \in DOMAIN entries[l] /\ entries'[l][n] = entries[l][n]
           \/ entries'[l][n].off = 0
  BY <1>2, FixedKeeps
<1>5. TypeOK'
  BY <1>2, <1>4 DEF TypeOK
<1>6. ListInv'
  BY <1>2, <1>4, ListGoesOn
<1>7. PointInv'
  BY <1>2 DEF PointInv
<1>8. ItemsApart'
  BY <1>2 DEF ItemsApart
<1>9. OffsetsLead'
  BY <1>2, <1>4 DEF OffsetsLead, EntriesLead, DepsOffset
<1>10. QED
  BY <1>5, <1>6, <1>7, <1>8, <1>9 DEF IInv

\* Both ways of fixing a method, with its code or without.
LEMMA ExportIInv ==
  ASSUME IInv, pc = "fix", MoreMethods, NEW m \in MethodId, Export(m),
         UNCHANGED <<source, methods, list, sorted, defs>>,
         pc' = "fix", last' \in Int,
         source # "memory" => last' = sorted[Position]
  PROVE  IInv'
<1>1. CASE methods[m].len # 0
  <2>1. methods[m].len \in Nat \ {0}
    BY <1>1 DEF IInv, TypeOK, MethodMaps
  <2>2. PICK w \in {"code", "foreign code"} :
          Fixed(point) /\ Place([what |-> w, id |-> m], methods[m].len)
    BY <1>1 DEF Export, CodeFrom
  <2>3. QED
    BY <2>1, <2>2, CodeFixed
<1>2. CASE methods[m].len = 0
  <2>1. Fixed(0) /\ UNCHANGED <<chunks, size, point>>
    BY <1>2 DEF Export, extraVars
  <2>2. QED
    BY <2>1, NoCodeFixed
<1>3. QED
  BY <1>1, <1>2

\* The lookup finds the method of the entry, and the process does not die.
LEMMA DvmFinds ==
  ASSUME IInv, FixByDvm
  PROVE  /\ pc = "fix" /\ pc' = "fix" /\ MoreMethods /\ source # "memory"
         /\ last' = sorted[Position] /\ last' \in MethodId /\ last' \in Int
         /\ Export(sorted[Position])
         /\ UNCHANGED <<source, methods, list, sorted, defs>>
<1>1. TypeOK /\ ListInv /\ pc = "fix" /\ MoreMethods /\ source # "memory"
  BY DEF IInv, FixByDvm
<1>2. last' = sorted[Position] /\ Position \in DOMAIN sorted
  BY <1>1, DeltaSound DEF FixByDvm
<1>3. last' \in Found
  BY <1>1, <1>2 DEF ListInv
<1>4. last' \in MethodId /\ last' \in Int
  BY <1>3, MethodAssumption DEF Found
<1>5. QED
  BY <1>1, <1>2, <1>3, <1>4 DEF FixByDvm

LEMMA FixByDvmIInv ==
  ASSUME IInv, FixByDvm PROVE IInv'
  BY DvmFinds, ExportIInv

\* The same with what the memory still has.
LEMMA FixByMemoryIInv ==
  ASSUME IInv, FixByMemory PROVE IInv'
<1>1. TypeOK /\ ListInv /\ pc = "fix" /\ MoreMethods /\ source = "memory"
  BY DEF IInv, FixByMemory
<1>2. sorted[Position] \in MethodId
  BY <1>1, DeltaSound DEF TypeOK
<1>3. /\ last' \in Int /\ pc' = "fix" /\ Export(sorted[Position])
      /\ UNCHANGED <<source, methods, list, sorted, defs>>
  BY <1>1 DEF FixByMemory, TypeOK
<1>4. QED
  BY <1>1, <1>2, <1>3, ExportIInv

\* The second list is sorted; lastIndex begins anew.
LEMMA NextListIInv ==
  ASSUME IInv, NextList PROVE IInv'
<1> USE DEF IInv, NextList, extraVars
<1>1. /\ sorted' \in Seq(MethodId)
      /\ \A i \in DOMAIN sorted' : sorted'[i] \in Found
      /\ \A i, j \in DOMAIN sorted' : i < j => sorted'[i] < sorted'[j]
  <2>1. Listed(methods, "virtual") \in SUBSET MethodId /\ Listed(methods, "virtual") \subseteq Found
    BY ListedFound DEF Lists
  <2>2. sorted' \in Sorted(Listed(methods, "virtual"))
    OBVIOUS
  <2>3. QED
    BY <2>1, <2>2, SortedSeq
<1>2. TypeOK'
  BY <1>1 DEF TypeOK, Lists
<1>3. ListInv'
  <2>1. entries'[list'] = <<>> /\ last' = 0 /\ list' = "virtual"
    BY DEF ListInv
  <2>2. Len(sorted') \in Nat
    BY <1>1
  <2>3. QED
    BY <1>1, <2>1, <2>2 DEF ListInv, Found
<1>4. PointInv'
  BY DEF PointInv
<1>5. ItemsApart'
  BY DEF ItemsApart
<1>6. OffsetsLead'
  BY DEF OffsetsLead, DepsOffset
<1>7. QED
  BY <1>2, <1>3, <1>4, <1>5, <1>6

\* The class data is placed, and the class definition leads to it.
LEMMA EncodeClassIInv ==
  ASSUME IInv, NEW len \in DataLens, EncodeClass(len) PROVE IInv'
<1> DEFINE owner == [what |-> "data", id |-> Class]
           d     == [dataOff |-> point, entries |-> entries, from |-> source, methods |-> methods]
<1>1. TypeOK /\ ListInv /\ PointInv /\ ItemsApart /\ OffsetsLead /\ pc = "fix"
  BY DEF IInv, EncodeClass
<1>2. Class \in Nat /\ len \in Nat \ {0} /\ owner \in Owner /\ owner.what # "deps"
  BY <1>1, MethodAssumption DEF TypeOK, Class, Owner
<1>3. Place(owner, len)
  BY DEF EncodeClass
<1>4. /\ chunks' \in SUBSET Chunk
      /\ size' \in Nat
      /\ point' \in Nat
      /\ point' = HeaderDataEnd + size'
      /\ point' % 4 = 0
      /\ ItemsApart'
      /\ chunks \subseteq chunks'
      /\ \E ch \in chunks' : ch.owner = owner /\ HeaderDataEnd + ch.at = point
      /\ \A ch \in chunks' : ch.owner.what # "deps"
  BY <1>1, <1>2, <1>3, PlaceKeeps
<1>5. /\ defs' = Append(defs, d)
      /\ pc' = "class"
      /\ UNCHANGED <<source, methods, list, sorted, last, entries>>
  BY DEF EncodeClass, classVars
<1>6. d \in Def
  BY <1>1 DEF TypeOK, Def
<1>7. TypeOK'
  BY <1>1, <1>4, <1>5, <1>6 DEF TypeOK
<1>8. ListInv' /\ PointInv'
  BY <1>4, <1>5 DEF ListInv, PointInv
<1>9. ASSUME StringIdsOff = HeaderLen PROVE EntriesLead(chunks', entries)
  BY <1>1, <1>4, <1>9, EntriesGoOn DEF OffsetsLead
<1>10. ASSUME StringIdsOff = HeaderLen, NEW c \in DOMAIN defs'
       PROVE  DefLeads(chunks', defs'[c], c - 1)
  <2>1. defs \in Seq(Def)
    BY <1>1 DEF TypeOK
  <2>2. \/ c \in DOMAIN defs /\ defs'[c] = defs[c]
        \/ c = Len(defs) + 1 /\ defs'[c] = d
    BY <1>5, <1>6, <2>1
  <2>3. CASE c \in DOMAIN defs /\ defs'[c] = defs[c]
    <3>1. DefLeads(chunks, defs[c], c - 1)
      BY <1>1, <1>10, <2>3 DEF OffsetsLead
    <3>2. QED
      BY <1>4, <2>3, <3>1, DefGoesOn
  <2>4. CASE c = Len(defs) + 1 /\ defs'[c] = d
    <3>1. PICK ch \in chunks' : ch.owner = owner /\ HeaderDataEnd + ch.at = point
      BY <1>4
    <3>2. InFile(ch) = point
      BY <1>4, <1>10, <3>1, InFileIs
    <3>3. At(chunks', point, owner)
      BY <3>1, <3>2 DEF At
    <3>4. c - 1 = Class
      BY <1>2, <2>4 DEF Class
    <3>5. QED
      BY <1>9, <1>10, <2>4, <3>3, <3>4 DEF DefLeads
  <2>5. QED
    BY <2>2, <2>3, <2>4
<1>11. OffsetsLead'
  BY <1>4, <1>5, <1>9, <1>10 DEF OffsetsLead
<1>12. QED
  BY <1>4, <1>7, <1>8, <1>11 DEF IInv

\* The dependencies go behind the last item, which was padded.
LEMMA LayOutIInv ==
  ASSUME IInv, LayOut PROVE IInv'
<1> DEFINE deps == [owner |-> [what |-> "deps", id |-> 0], at |-> size, len |-> DepsLen]
<1>1. TypeOK /\ ListInv /\ PointInv /\ ItemsApart /\ OffsetsLead /\ pc = "class"
  BY DEF IInv, LayOut
<1>2. /\ size \in Nat /\ point \in Nat /\ HeaderDataEnd \in Nat /\ DepsLen \in Nat \ {0}
      /\ point = HeaderDataEnd + size /\ point % 4 = 0
      /\ \A ch \in chunks : ch.owner.what # "deps"
  BY <1>1, LayoutAssumption DEF TypeOK, PointInv
<1>3. deps \in Chunk
  BY <1>2 DEF Chunk, Owner
<1>4. /\ pc' \in {"done", "dead"}
      /\ UNCHANGED <<source, methods, list, sorted, last, entries, defs, point>>
  BY DEF LayOut, classVars
<1>5. ListInv' /\ PointInv'
  BY <1>4 DEF ListInv, PointInv
<1>6. CASE Optimised
  <2>1. chunks' = chunks \cup {deps} /\ size' = size + DepsLen
    BY <1>6 DEF LayOut
  <2>2. TypeOK'
    BY <1>1, <1>2, <1>3, <1>4, <2>1 DEF TypeOK
  <2>3. ItemsApart'
    <3>1. \A ch \in chunks : ch.at \in Nat /\ ch.len \in Nat \ {0} /\ ch.at + ch.len <= size
      BY <1>1 DEF TypeOK, Chunk, ItemsApart
    <3>2. \A ch \in chunks' : (HeaderDataEnd + ch.at) % 4 = 0 /\ ch.at + ch.len <= size'
      BY <1>1, <1>2, <2>1, <3>1 DEF ItemsApart
    <3>3. \A ch \in chunks' : \A other \in chunks' \ {ch} :
            ch.at + ch.len <= other.at \/ other.at + other.len <= ch.at
      BY <1>1, <1>2, <2>1, <3>1 DEF ItemsApart
    <3>4. QED
      BY <3>2, <3>3 DEF ItemsApart
  <2>4. ASSUME StringIdsOff = HeaderLen
        PROVE  \A ch \in chunks' : ch.owner.what = "deps" => DepsOffset' = OptHeaderLen + InFile(ch)
    <3>1. InFile(deps) = HeaderDataEnd + size
      BY <1>3, <2>4, InFileIs
    <3>2. DepsOffset' = OptHeaderLen + InFile(deps)
      BY <1>2, <1>4, <3>1 DEF DepsOffset, OptHeaderLen
    <3>3. QED
      BY <1>2, <2>1, <3>2
  <2>5. ASSUME StringIdsOff = HeaderLen
        PROVE  /\ EntriesLead(chunks', entries)
               /\ \A c \in DOMAIN defs : DefLeads(chunks', defs[c], c - 1)
    BY <1>1, <2>1, <2>5, EntriesGoOn, DefGoesOn DEF OffsetsLead
  <2>6. OffsetsLead'
    BY <1>4, <2>4, <2>5 DEF OffsetsLead
  <2>7. QED
    BY <1>5, <2>2, <2>3, <2>6 DEF IInv
<1>7. CASE ~Optimised
  <2>1. UNCHANGED <<chunks, size>>
    BY <1>7 DEF LayOut
  <2>2. TypeOK' /\ ItemsApart'
    BY <1>1, <1>4, <2>1 DEF TypeOK, ItemsApart
  <2>3. OffsetsLead'
    BY <1>1, <1>4, <2>1 DEF OffsetsLead, DepsOffset
  <2>4. QED
    BY <1>5, <2>2, <2>3 DEF IInv
<1>8. QED
  BY <1>6, <1>7

----------------------------------------------------------------------------
(* What a reader of the class data reads                                   *)

\* A set of numbers that has a member has a least one.
LEMMA LeastNat ==
  ASSUME NEW T \in SUBSET Nat, T # {}
  PROVE  \E n \in T : \A m \in T : n <= m
<1> DEFINE Less == {ss \in Nat \X Nat : ss[1] < ss[2]}
<1>1. IsWellFoundedOn(Less, Nat)
  BY NatLessThanWellFounded DEF OpToRel
<1> HIDE DEF Less
<1>2. PICK n \in T : \A m \in T : ~(<<m, n>> \in Less)
  BY <1>1, WFMin
<1>3. \A m \in T : ~(m < n)
  BY <1>2 DEF Less
<1>4. QED
  BY <1>3

\* The deltas add up to the methods they were taken from.
LEMMA IndexReadIs ==
  ASSUME NEW es \in Seq(MethodEntry), NEW s \in Seq(Nat), Len(es) <= Len(s),
         \A n \in DOMAIN es : es[n].delta = IF n = 1 THEN s[1] ELSE s[n] - s[n - 1]
  PROVE  \A n \in DOMAIN es : IndexRead(es)[n] = s[n]
<1> DEFINE L     == Len(es)
           Eq(g) == g = [n \in 0 .. L |-> IF n = 0 THEN 0 ELSE g[n - 1] + es[n].delta]
           w     == [n \in 0 .. L |-> IF n = 0 THEN 0 ELSE s[n]]
           upTo  == CHOOSE g : Eq(g)
<1>0. /\ L \in Nat /\ DOMAIN es = 1 .. L
      /\ \A n \in 1 .. L : s[n] \in Nat /\ es[n].delta \in Int
  <2>1. L \in Nat /\ DOMAIN es = 1 .. L /\ \A n \in 1 .. L : es[n] \in MethodEntry
    OBVIOUS
  <2>2. \A n \in 1 .. L : es[n].delta \in Int
    BY <2>1 DEF MethodEntry
  <2>3. \A n \in 1 .. L : s[n] \in Nat
    BY <2>1
  <2>4. QED
    BY <2>1, <2>2, <2>3
<1>1. Eq(w)
  <2>1. ASSUME NEW n \in 0 .. L
        PROVE  w[n] = IF n = 0 THEN 0 ELSE w[n - 1] + es[n].delta
    <3>1. CASE n = 0
      BY <1>0, <3>1
    <3>2. CASE n = 1
      BY <1>0, <3>2
    <3>3. CASE n \in 2 .. L
      <4>1. n - 1 \in 1 .. L /\ n \in 1 .. L /\ es[n].delta = s[n] - s[n - 1]
        BY <1>0, <3>3
      <4>2. w[n - 1] = s[n - 1] /\ w[n] = s[n] /\ s[n] \in Nat /\ s[n - 1] \in Nat
        BY <1>0, <4>1
      <4>3. QED
        BY <3>3, <4>1, <4>2
    <3>4. QED
      BY <1>0, <3>1, <3>2, <3>3
  <2>2. QED
    BY <2>1
<1>2. Eq(upTo)
  BY <1>1
<1> HIDE DEF upTo, w
<1>3. ASSUME NEW n \in 0 .. L, upTo[n] # w[n] PROVE FALSE
  <2> DEFINE T == {k \in 0 .. L : upTo[k] # w[k]}
  <2>1. T \in SUBSET Nat /\ T # {}
    BY <1>0, <1>3
  <2> HIDE DEF T
  <2>2. PICK k \in T : \A m \in T : k <= m
    BY <2>1, LeastNat
  <2>3. k \in 0 .. L /\ upTo[k] # w[k]
    BY <2>2 DEF T
  <2>4. upTo[0] = 0 /\ w[0] = 0
    BY <1>0, <1>1, <1>2
  <2>5. k # 0
    BY <2>3, <2>4
  <2>6. k - 1 \in 0 .. L /\ ~(k <= k - 1)
    BY <1>0, <2>3, <2>5
  <2>7. upTo[k - 1] = w[k - 1]
    BY <2>2, <2>6 DEF T
  <2>8. upTo[k] = upTo[k - 1] + es[k].delta /\ w[k] = w[k - 1] + es[k].delta
    BY <1>1, <1>2, <2>3, <2>5
  <2>9. QED
    BY <2>3, <2>7, <2>8
<1>4. ASSUME NEW n \in DOMAIN es PROVE upTo[n] = s[n]
  BY <1>0, <1>3, <1>4 DEF w
<1>5. ASSUME NEW n \in DOMAIN es PROVE IndexRead(es)[n] = upTo[n]
  BY <1>5 DEF IndexRead, upTo
<1>6. QED
  BY <1>4, <1>5

\* A sorted list holds every method of the set.
LEMMA SortedOnto ==
  ASSUME NEW S \in SUBSET MethodId, NEW s \in Sorted(S)
  PROVE  {s[n] : n \in DOMAIN s} = S
<1> DEFINE L == Cardinality(S)
<1>1. IsFiniteSet(S) /\ L \in Nat
  BY FS_Subset, FS_CardinalityType, MethodAssumption
<1>2. s \in [1 .. L -> S] /\ DOMAIN s = 1 .. L
  BY DEF Sorted
<1>3. IsFiniteSet(1 .. L) /\ Cardinality(1 .. L) = L
  BY <1>1, FS_Interval
<1>4. \A i, j \in 1 .. L : i # j => s[i] # s[j]
  <2>1. \A i \in 1 .. L : s[i] \in Nat
    BY <1>2, MethodAssumption
  <2>2. \A i, j \in 1 .. L : i < j => s[i] < s[j]
    BY DEF Sorted
  <2>3. QED
    BY <1>1, <2>1, <2>2
<1>5. s \in Injection(1 .. L, S)
  BY <1>2, <1>4 DEF Injection, IsInjective
<1>6. s \in Surjection(1 .. L, S)
  BY <1>1, <1>3, <1>5, FS_Injection
<1>7. QED
  BY <1>2, <1>6 DEF Surjection

\* A list that is whole gives a reader the methods of the list, each with its code.
LEMMA WholeIsRead ==
  ASSUME NEW items, NEW ms, NEW c, NEW l, NEW es \in Seq(MethodEntry),
         Whole(items, es, ms, c, l)
  PROVE  /\ {IndexRead(es)[n] : n \in DOMAIN es} = Listed(ms, l)
         /\ \A n \in DOMAIN es :
              /\ IndexRead(es)[n] \in Listed(ms, l)
              /\ MadeFor(items, es[n], IndexRead(es)[n], ms, c)
<1>0. Listed(ms, l) \in SUBSET MethodId
  BY DEF Listed
<1>1. PICK s \in Sorted(Listed(ms, l)) : Len(es) = Len(s) /\ Begins(items, es, s, ms, c)
  BY DEF Whole
<1>2. s \in Seq(MethodId) /\ \A n \in DOMAIN s : s[n] \in Listed(ms, l)
  BY <1>0, <1>1, SortedSeq
<1>3. s \in Seq(Nat)
  <2>1. Len(s) \in Nat /\ s \in [1 .. Len(s) -> MethodId]
    BY <1>2
  <2>2. s \in [1 .. Len(s) -> Nat]
    BY <2>1, MethodAssumption
  <2>3. QED
    BY <2>1, <2>2
<1>4. DOMAIN es = DOMAIN s
  BY <1>1, <1>2
<1>5. \A n \in DOMAIN es : IndexRead(es)[n] = s[n]
  BY <1>1, <1>3, IndexReadIs DEF Begins
<1>6. {s[n] : n \in DOMAIN s} = Listed(ms, l)
  BY <1>0, <1>1, SortedOnto
<1>7. \A n \in DOMAIN es : MadeFor(items, es[n], s[n], ms, c)
  BY <1>1 DEF Begins
<1>8. QED
  BY <1>2, <1>4, <1>5, <1>6, <1>7

----------------------------------------------------------------------------
(* More items change nothing for what was made before.                     *)

LEMMA MadeForGoesOn ==
  ASSUME NEW A, NEW B, A \subseteq B, NEW e, NEW m, NEW ms, NEW c, MadeFor(A, e, m, ms, c)
  PROVE  MadeFor(B, e, m, ms, c)
  BY DEF MadeFor, At

LEMMA BeginsGoesOn ==
  ASSUME NEW A, NEW B, A \subseteq B, NEW es, NEW s, NEW ms, NEW c, Begins(A, es, s, ms, c)
  PROVE  Begins(B, es, s, ms, c)
  BY MadeForGoesOn DEF Begins

LEMMA WholeGoesOn ==
  ASSUME NEW A, NEW B, A \subseteq B, NEW es, NEW ms, NEW c, NEW l, Whole(A, es, ms, c, l)
  PROVE  Whole(B, es, ms, c, l)
  BY BeginsGoesOn DEF Whole

LEMMA DefDoneGoesOn ==
  ASSUME NEW A, NEW B, A \subseteq B, NEW d, NEW c, DefDone(A, d, c)
  PROVE  DefDone(B, d, c)
  BY WholeGoesOn DEF DefDone, At

\* The same of all definitions.
LEMMA DefsGoOn ==
  ASSUME ReadInv, StringIdsOff = HeaderLen, HeaderDataEnd > 0,
         chunks \subseteq chunks', UNCHANGED defs
  PROVE  \A c \in DOMAIN defs' : DefDone(chunks', defs'[c], c - 1)
  BY DefDoneGoesOn DEF ReadInv

----------------------------------------------------------------------------
(* Every action preserves ReadInv                                          *)

\* An item that is placed is found at total_point, which is not 0.
LEMMA PlacedAt ==
  ASSUME IInv, StringIdsOff = HeaderLen, HeaderDataEnd > 0, pc \in {"class", "fix"},
         NEW owner \in Owner, NEW len \in Nat \ {0}, Place(owner, len)
  PROVE  /\ chunks \subseteq chunks'
         /\ point # 0
         /\ At(chunks', point, owner)
<1>1. TypeOK /\ PointInv /\ ItemsApart
  BY DEF IInv
<1>2. /\ chunks' \in SUBSET Chunk
      /\ chunks \subseteq chunks'
      /\ \E ch \in chunks' : ch.owner = owner /\ HeaderDataEnd + ch.at = point
  BY <1>1, PlaceKeeps
<1>3. At(chunks', point, owner)
  BY <1>2, InFileIs DEF At
<1>4. point # 0
  <2>1. size \in Nat /\ point = HeaderDataEnd + size /\ HeaderDataEnd \in Nat
    BY <1>1, LayoutAssumption DEF TypeOK, PointInv
  <2>2. QED
    BY <2>1
<1>5. QED
  BY <1>2, <1>3, <1>4

\* One more entry, made for its method, and the list goes on as it began.
LEMMA EntryFixed ==
  ASSUME IInv, ReadInv, StringIdsOff = HeaderLen, HeaderDataEnd > 0,
         pc = "fix", MoreMethods, NEW off \in Nat, Fixed(off),
         chunks \subseteq chunks',
         UNCHANGED <<source, methods, list, sorted, defs>>,
         MadeFor(chunks', [delta |-> Delta(Position), off |-> off], sorted[Position], methods, source)
  PROVE  ReadInv'
<1> DEFINE e  == [delta |-> Delta(Position), off |-> off]
           es == entries[list]
<1>1. TypeOK /\ ListInv
  BY DEF IInv
<1>2. /\ methods \in MethodsFrom(source, Class)
      /\ sorted \in Sorted(Listed(methods, list))
      /\ Begins(chunks, es, sorted, methods, source)
      /\ list = "virtual" => Whole(chunks, entries["direct"], methods, source, "direct")
  BY DEF ReadInv
<1>3. /\ entries \in [Lists -> Seq(MethodEntry)] /\ list \in Lists /\ es \in Seq(MethodEntry)
      /\ sorted \in Seq(MethodId)
  BY <1>1 DEF TypeOK, ClassEntries
<1>4. e \in MethodEntry /\ Position \in DOMAIN sorted
  BY <1>1, DeltaSound DEF MethodEntry
<1>5. entries' = [entries EXCEPT ![list] = Append(@, e)]
  BY DEF Fixed
<1>6. entries'[list] = Append(es, e) /\ \A l \in Lists : l # list => entries'[l] = entries[l]
  BY <1>3, <1>5
<1>7. Begins(chunks', es, sorted, methods, source)
  BY <1>2, BeginsGoesOn
<1>8. Begins(chunks', Append(es, e), sorted, methods, source)
  <2>1. Len(Append(es, e)) = Position /\ Position <= Len(sorted)
    BY <1>3, <1>4 DEF Position
  <2>2. \A n \in DOMAIN Append(es, e) :
          \/ n \in DOMAIN es /\ Append(es, e)[n] = es[n]
          \/ n = Position /\ Append(es, e)[n] = e
    BY <1>3, <1>4 DEF Position
  <2>3. /\ e.delta = IF Position = 1 THEN sorted[1] ELSE sorted[Position] - sorted[Position - 1]
        /\ MadeFor(chunks', e, sorted[Position], methods, source)
    BY DEF Delta
  <2> HIDE DEF e, es
  <2>4. QED
    BY <1>7, <2>1, <2>2, <2>3 DEF Begins
<1>9. list = "virtual" => Whole(chunks', entries'["direct"], methods, source, "direct")
  BY <1>2, <1>6, WholeGoesOn DEF Lists
<1>10. \A c \in DOMAIN defs' : DefDone(chunks', defs'[c], c - 1)
  BY DefsGoOn
<1>11. Class' = Class
  BY DEF Class
<1>12. QED
  BY <1>2, <1>6, <1>8, <1>9, <1>10, <1>11 DEF ReadInv

\* Both ways of fixing a method, with its code or without.
LEMMA ExportRead ==
  ASSUME IInv, ReadInv, StringIdsOff = HeaderLen, HeaderDataEnd > 0,
         pc = "fix", MoreMethods, sorted[Position] \in MethodId, Export(sorted[Position]),
         UNCHANGED <<source, methods, list, sorted, defs>>
  PROVE  ReadInv'
<1> DEFINE m   == sorted[Position]
           own == [what |-> CodeFrom(source), id |-> m]
<1>1. CASE methods[m].len # 0
  <2>1. methods[m].len \in Nat \ {0} /\ point \in Nat
    BY <1>1 DEF IInv, TypeOK, MethodMaps
  <2>2. own \in Owner
    BY MethodAssumption DEF Owner, CodeFrom
  <2>3. Fixed(point) /\ Place(own, methods[m].len)
    BY <1>1 DEF Export
  <2> HIDE DEF own
  <2>4. chunks \subseteq chunks' /\ point # 0 /\ At(chunks', point, own)
    BY <2>1, <2>2, <2>3, PlacedAt
  <2>5. MadeFor(chunks', [delta |-> Delta(Position), off |-> point], m, methods, source)
    BY <1>1, <2>4 DEF MadeFor, own
  <2>6. QED
    BY <2>1, <2>3, <2>4, <2>5, EntryFixed
<1>2. CASE methods[m].len = 0
  <2>1. Fixed(0) /\ UNCHANGED chunks
    BY <1>2 DEF Export, extraVars
  <2>2. MadeFor(chunks', [delta |-> Delta(Position), off |-> 0], m, methods, source)
    BY <1>2 DEF MadeFor
  <2>3. QED
    BY <2>1, <2>2, EntryFixed
<1>3. QED
  BY <1>1, <1>2

LEMMA FixByDvmRead ==
  ASSUME IInv, ReadInv, StringIdsOff = HeaderLen, HeaderDataEnd > 0, FixByDvm
  PROVE  ReadInv'
  BY DvmFinds, ExportRead

LEMMA FixByMemoryRead ==
  ASSUME IInv, ReadInv, StringIdsOff = HeaderLen, HeaderDataEnd > 0, FixByMemory
  PROVE  ReadInv'
<1>1. TypeOK /\ ListInv /\ pc = "fix" /\ MoreMethods
  BY DEF IInv, FixByMemory
<1>2. sorted[Position] \in MethodId
  BY <1>1, DeltaSound DEF TypeOK
<1>3. Export(sorted[Position]) /\ UNCHANGED <<source, methods, list, sorted, defs>>
  BY DEF FixByMemory
<1>4. QED
  BY <1>1, <1>2, <1>3, ExportRead

\* An empty class definition is right for a class without methods, for one whose
\* class_data_off was gone, and for one in whose place another came.
LEMMA SkipClassRead ==
  ASSUME IInv, ReadInv, StringIdsOff = HeaderLen, HeaderDataEnd > 0,
         NEW s \in Sources, SkipClass(s)
  PROVE  ReadInv'
<1> DEFINE d == [dataOff |-> 0, entries |-> NoEntries, from |-> s, methods |-> NoMethods]
<1>1. /\ defs \in Seq(Def)
      /\ d \in Def
  BY DEF IInv, TypeOK, Def, ClassEntries, NoEntries, NoMethods, Absent, MethodMaps
<1>2. pc' # "fix" /\ UNCHANGED chunks /\ defs' = Append(defs, d)
  BY DEF SkipClass, extraVars
<1>3. Given(d, Class) => MethodsOf(Class) = {}
  BY DEF SkipClass, HasMembers, Given
<1>4. DefDone(chunks', d, Class)
  BY <1>3 DEF DefDone
<1>5. \A c \in DOMAIN defs' :
        \/ c \in DOMAIN defs /\ defs'[c] = defs[c]
        \/ c = Len(defs) + 1 /\ defs'[c] = d
  BY <1>1, <1>2
<1>6. Len(defs) + 1 - 1 = Class
  BY <1>1 DEF Class
<1> HIDE DEF d
<1>7. \A c \in DOMAIN defs' : DefDone(chunks', defs'[c], c - 1)
  BY <1>2, <1>4, <1>5, <1>6 DEF ReadInv
<1>8. QED
  BY <1>2, <1>7 DEF ReadInv

LEMMA OpenClassRead ==
  ASSUME IInv, ReadInv, StringIdsOff = HeaderLen, HeaderDataEnd > 0,
         NEW s \in Sources, OpenClass(s)
  PROVE  ReadInv'
<1>1. /\ UNCHANGED <<chunks, defs>> /\ list' = "direct"
      /\ sorted' \in Sorted(Listed(methods', list'))
      /\ entries'[list'] = <<>>
  BY DEF OpenClass, extraVars, NoEntries, Lists
<1>2. methods' \in MethodsFrom(source', Class)
  BY DEF OpenClass
<1>3. Class' = Class
  BY <1>1 DEF Class
<1>4. Begins(chunks', entries'[list'], sorted', methods', source')
  <2>1. Listed(methods', "direct") \in SUBSET MethodId
    BY DEF Listed
  <2>2. sorted' \in Seq(MethodId)
    BY <1>1, <2>1, SortedSeq
  <2>3. QED
    BY <1>1, <2>2 DEF Begins
<1>5. \A c \in DOMAIN defs' : DefDone(chunks', defs'[c], c - 1)
  BY <1>1, DefsGoOn
<1>6. QED
  BY <1>1, <1>2, <1>3, <1>4, <1>5 DEF ReadInv

\* The list that all entries are fixed of is whole.
LEMMA ListIsWhole ==
  ASSUME IInv, ReadInv, StringIdsOff = HeaderLen, HeaderDataEnd > 0,
         pc = "fix", ~MoreMethods
  PROVE  Whole(chunks, entries[list], methods, source, list)
<1>1. entries[list] \in Seq(MethodEntry) /\ sorted \in Seq(MethodId)
  BY DEF IInv, TypeOK, ClassEntries
<1>2. Len(entries[list]) <= Len(sorted)
  BY DEF IInv, ListInv
<1>3. Len(entries[list]) = Len(sorted)
  BY <1>1, <1>2 DEF MoreMethods, Position
<1>4. QED
  BY <1>3 DEF ReadInv, Whole

LEMMA NextListRead ==
  ASSUME IInv, ReadInv, StringIdsOff = HeaderLen, HeaderDataEnd > 0, NextList
  PROVE  ReadInv'
<1>1. /\ UNCHANGED <<source, methods, entries, chunks, defs>> /\ list' = "virtual"
      /\ list = "direct" /\ pc = "fix" /\ ~MoreMethods
      /\ sorted' \in Sorted(Listed(methods, "virtual"))
  BY DEF NextList, extraVars
<1>2. Whole(chunks, entries["direct"], methods, source, "direct")
  BY <1>1, ListIsWhole
<1>3. methods' \in MethodsFrom(source', Class')
  BY <1>1 DEF ReadInv, Class
<1>4. Begins(chunks', entries'[list'], sorted', methods', source')
  <2>1. Listed(methods, "virtual") \in SUBSET MethodId
    BY DEF Listed
  <2>2. sorted' \in Seq(MethodId)
    BY <1>1, <2>1, SortedSeq
  <2>3. entries'[list'] = <<>>
    BY <1>1 DEF IInv, ListInv
  <2>4. QED
    BY <2>2, <2>3 DEF Begins
<1>5. \A c \in DOMAIN defs' : DefDone(chunks', defs'[c], c - 1)
  BY <1>1, DefsGoOn
<1>6. QED
  BY <1>1, <1>2, <1>3, <1>4, <1>5 DEF ReadInv

\* The class is done: its data is placed, and both lists of it are whole.
LEMMA EncodeClassRead ==
  ASSUME IInv, ReadInv, StringIdsOff = HeaderLen, HeaderDataEnd > 0,
         NEW len \in DataLens, EncodeClass(len)
  PROVE  ReadInv'
<1> DEFINE d == [dataOff |-> point, entries |-> entries, from |-> source, methods |-> methods]
<1>1. /\ pc = "fix" /\ list = "virtual" /\ ~MoreMethods
      /\ Place([what |-> "data", id |-> Class], len)
      /\ defs' = Append(defs, d) /\ pc' = "class"
  BY DEF EncodeClass
<1>2. /\ defs \in Seq(Def)
      /\ d \in Def
      /\ Class \in Nat
  BY DEF IInv, TypeOK, Def, Class
<1>3. [what |-> "data", id |-> Class] \in Owner /\ len \in Nat \ {0}
  BY <1>2, MethodAssumption DEF Owner
<1>4. /\ chunks \subseteq chunks'
      /\ At(chunks', point, [what |-> "data", id |-> Class])
  BY <1>1, <1>3, PlacedAt
<1>5. \A l \in Lists : Whole(chunks, entries[l], methods, source, l)
  BY <1>1, ListIsWhole DEF ReadInv, Lists
<1>6. \A l \in Lists : Whole(chunks', entries[l], methods, source, l)
  BY <1>4, <1>5, WholeGoesOn
<1>7. DefDone(chunks', d, Class)
  <2>1. methods \in MethodsFrom(source, Class)
    BY <1>1 DEF ReadInv
  <2>2. QED
    BY <1>4, <1>6, <2>1 DEF DefDone
<1>8. \A c \in DOMAIN defs' :
        \/ c \in DOMAIN defs /\ defs'[c] = defs[c]
        \/ c = Len(defs) + 1 /\ defs'[c] = d
  BY <1>1, <1>2
<1>9. Len(defs) + 1 - 1 = Class
  BY <1>2 DEF Class
<1> HIDE DEF d
<1>10. \A c \in DOMAIN defs : DefDone(chunks', defs[c], c - 1)
  BY <1>4, DefDoneGoesOn DEF ReadInv
<1>11. \A c \in DOMAIN defs' : DefDone(chunks', defs'[c], c - 1)
  BY <1>7, <1>8, <1>9, <1>10
<1>12. QED
  BY <1>1, <1>11 DEF ReadInv

\* Steps that fix nothing and end outside of a class.
LEMMA OutsideRead ==
  ASSUME ReadInv, pc' # "fix", chunks \subseteq chunks', UNCHANGED defs
  PROVE  ReadInv'
<1>1. SUFFICES ASSUME StringIdsOff = HeaderLen, HeaderDataEnd > 0
               PROVE  \A c \in DOMAIN defs' : DefDone(chunks', defs'[c], c - 1)
  BY DEF ReadInv
<1>2. QED
  BY <1>1, DefsGoOn

----------------------------------------------------------------------------
(* The theorems *)

\* Every step preserves the invariant.
LEMMA NextIInv == IInv /\ [Next]_vars => IInv'
<1> SUFFICES ASSUME IInv, [Next]_vars PROVE IInv'
  OBVIOUS
<1>1. CASE Refuse
  BY <1>1, RefuseIInv
<1>2. CASE Start
  BY <1>2, StartIInv
<1>3. CASE \E s \in Sources : SkipClass(s)
  BY <1>3, SkipClassIInv
<1>4. CASE \E s \in Sources : OpenClass(s)
  BY <1>4, OpenClassIInv
<1>5. CASE FixByDvm
  BY <1>5, FixByDvmIInv
<1>6. CASE FixByMemory
  BY <1>6, FixByMemoryIInv
<1>7. CASE NextList
  BY <1>7, NextListIInv
<1>8. CASE \E len \in DataLens : EncodeClass(len)
  BY <1>8, EncodeClassIInv
<1>9. CASE LayOut
  BY <1>9, LayOutIInv
<1>10. CASE UNCHANGED vars
  <2>1. UNCHANGED <<pc, source, methods, list, sorted, last, entries, defs, chunks, size, point>>
    BY <1>10 DEF vars, classVars, extraVars
  <2>2. TypeOK' /\ ListInv' /\ PointInv' /\ ItemsApart'
    BY <2>1 DEF IInv, TypeOK, ListInv, PointInv, ItemsApart, Found
  <2>3. OffsetsLead'
    BY <2>1 DEF IInv, OffsetsLead, DepsOffset
  <2>4. QED
    BY <2>2, <2>3 DEF IInv
<1>11. QED
  BY <1>1, <1>2, <1>3, <1>4, <1>5, <1>6, <1>7, <1>8, <1>9, <1>10 DEF Next

\* The inductive invariant: how far total_point, extra and the class data at hand
\* have come agrees at every step (DexDumper.cpp:64-188).
THEOREM Invariance == Spec => []IInv
  BY InitIInv, NextIInv, PTL DEF Spec

\* Every variable has its type; a delta is never negative, for which the builder
\* sorts (ClassDefBuilder.cpp:152-165, 180-193).
THEOREM TypeCorrect == Spec => []TypeOK
<1>1. IInv => TypeOK
  BY DEF IInv
<1>2. QED
  BY <1>1, Invariance, PTL

\* The items of the extra data never overlap and are aligned, for every dex file
\* (DexDumper.cpp:78-81, 163-169, 242-251, 299-305).
THEOREM ItemsAreApart == Spec => []ItemsApart
<1>1. IInv => ItemsApart
  BY DEF IInv
<1>2. QED
  BY <1>1, Invariance, PTL

\* The assertion in fixMethodByDvm holds for every class object: the deltas add up
\* to methods the builder collected (DexDumper.cpp:255-260).
THEOREM AssertionHolds == Spec => []LookupSucceeds
<1>1. IInv => LookupSucceeds
  <2> SUFFICES ASSUME IInv, pc = "fix", source # "memory", MoreMethods
               PROVE  last + Delta(Position) \in Found
    BY DEF LookupSucceeds
  <2>1. TypeOK /\ ListInv
    BY DEF IInv
  <2>2. Position \in DOMAIN sorted /\ last + Delta(Position) = sorted[Position]
    BY <2>1, DeltaSound
  <2>3. QED
    BY <2>1, <2>2 DEF ListInv
<1>2. QED
  BY <1>1, Invariance, PTL

\* Every offset written into the file leads to the item it was given for, whatever
\* the header says of the data, provided that the string ids follow the header
\* (DexDumper.cpp:163, 187, 190-206, 241, 285).
THEOREM OffsetsAreSound == Spec => []OffsetsLead
<1>1. IInv => OffsetsLead
  BY DEF IInv
<1>2. QED
  BY <1>1, Invariance, PTL

\* What is behind ReaderFindsCode holds in every step as well.
LEMMA NextFileInv == FileInv /\ [Next]_vars => FileInv'
<1> SUFFICES ASSUME FileInv, [Next]_vars PROVE FileInv'
  OBVIOUS
<1> USE DEF FileInv
<1>1. IInv'
  BY NextIInv
<1>2. ReadInv'
  <2>1. CASE ~(StringIdsOff = HeaderLen /\ HeaderDataEnd > 0)
    BY <2>1 DEF ReadInv
  <2>2. CASE StringIdsOff = HeaderLen /\ HeaderDataEnd > 0
    <3>1. CASE Refuse \/ Start \/ LayOut
      <4>1. pc' # "fix" /\ chunks \subseteq chunks' /\ UNCHANGED defs
        BY <3>1 DEF Refuse, Start, LayOut, extraVars
      <4>2. QED
        BY <4>1, OutsideRead
    <3>2. CASE \E s \in Sources : SkipClass(s)
      BY <2>2, <3>2, SkipClassRead
    <3>3. CASE \E s \in Sources : OpenClass(s)
      BY <2>2, <3>3, OpenClassRead
    <3>4. CASE FixByDvm
      BY <2>2, <3>4, FixByDvmRead
    <3>5. CASE FixByMemory
      BY <2>2, <3>5, FixByMemoryRead
    <3>6. CASE NextList
      BY <2>2, <3>6, NextListRead
    <3>7. CASE \E len \in DataLens : EncodeClass(len)
      BY <2>2, <3>7, EncodeClassRead
    <3>8. CASE UNCHANGED vars
      BY <3>8 DEF ReadInv, vars, classVars, extraVars, Class
    <3>9. QED
      BY <3>1, <3>2, <3>3, <3>4, <3>5, <3>6, <3>7, <3>8 DEF Next
  <2>3. QED
    BY <2>1, <2>2
<1>3. DoneInv'
  <2>1. CASE LayOut
    BY <2>1 DEF DoneInv, LayOut, Class, OldDataLen, DataStart
  <2>2. CASE UNCHANGED vars
    BY <2>2 DEF DoneInv, vars, Class, OldDataLen, DataStart
  <2>3. CASE Next /\ ~LayOut
    <3>1. pc' # "done"
      BY <2>3 DEF Next, Refuse, Start, SkipClass, OpenClass, FixByDvm, FixByMemory,
         NextList, EncodeClass
    <3>2. QED
      BY <3>1 DEF DoneInv
  <2>4. QED
    BY <2>1, <2>2, <2>3
<1>4. QED
  BY <1>1, <1>2, <1>3

\* A sequence over a set holds members of it.
LEMMA MemberOfSeq ==
  ASSUME NEW D, NEW q \in Seq(D), NEW k \in DOMAIN q
  PROVE  q[k] \in D
  OBVIOUS

\* What was rebuilt from the dex file's own class has the class's own methods, those
\* whose code was left with code.
LEMMA GivenIsOwn ==
  ASSUME NEW s \in Sources, NEW c \in Classes, NEW ms \in MethodsFrom(s, c),
         s # "foreign", c \notin NoData
  PROVE  /\ \A l \in Lists : Listed(ms, l) = OwnListed(c, l)
         /\ \A m \in MethodsOf(c) \cap Kept : ms[m].len # 0
<1>1. PICK code : ms = OwnMethods(c, code) /\ Kept \subseteq code
  BY DEF MethodsFrom, Sources
<1>2. \A m \in MethodId :
        ms[m] = IF m \in MethodsOf(c)
                THEN [list |-> ListOf[m], len |-> IF m \in code THEN SizeOf[m] ELSE 0]
                ELSE Absent
  BY <1>1 DEF OwnMethods
<1>3. MethodsOf(c) \subseteq Method /\ Method \subseteq MethodId
  BY MethodAssumption DEF MethodsOf
<1>4. ASSUME NEW l \in Lists PROVE Listed(ms, l) = OwnListed(c, l)
  <2>1. ASSUME NEW m \in MethodId
        PROVE  ms[m].list = l <=> m \in MethodsOf(c) /\ ListOf[m] = l
    <3>1. CASE m \in MethodsOf(c)
      <4>1. ms[m] = [list |-> ListOf[m], len |-> IF m \in code THEN SizeOf[m] ELSE 0]
        BY <1>2, <3>1
      <4>2. QED
        BY <3>1, <4>1
    <3>2. CASE m \notin MethodsOf(c)
      <4>1. ms[m] = Absent
        BY <1>2, <3>2
      <4>2. l # "none"
        BY DEF Lists
      <4>3. QED
        BY <3>2, <4>1, <4>2 DEF Absent
    <3>3. QED
      BY <3>1, <3>2
  <2>2. QED
    BY <1>3, <2>1 DEF Listed, OwnListed
<1>5. ASSUME NEW m \in MethodsOf(c) \cap Kept PROVE ms[m].len # 0
  <2>1. m \in MethodId /\ m \in code /\ m \in MethodsOf(c) /\ SizeOf[m] # 0
    BY <1>1, <1>3, MethodAssumption
  <2>2. ms[m] = [list |-> ListOf[m], len |-> SizeOf[m]]
    BY <1>2, <2>1
  <2>3. QED
    BY <2>1, <2>2
<1>6. QED
  BY <1>4, <1>5

\* A list that is whole is what ReaderFindsCode says of it.
LEMMA ListIsRead ==
  ASSUME NEW c \in Classes, NEW d \in Def, NEW l \in Lists,
         d.methods \in MethodsFrom(d.from, c),
         Whole(chunks, d.entries[l], d.methods, d.from, l)
  PROVE  LET es   == d.entries[l]
             read == IndexRead(es)
         IN  /\ {read[n] : n \in DOMAIN es} = Listed(d.methods, l)
             /\ Given(d, c) => Listed(d.methods, l) = OwnListed(c, l)
             /\ \A n \in DOMAIN es :
                  /\ IF d.methods[read[n]].len = 0
                     THEN es[n].off = 0
                     ELSE At(chunks, es[n].off, [what |-> CodeFrom(d.from), id |-> read[n]])
                  /\ Given(d, c) /\ read[n] \in Kept => es[n].off # 0
<1> DEFINE es == d.entries[l]
<1>1. d.from \in Sources /\ es \in Seq(MethodEntry)
  BY DEF Def, ClassEntries
<1>2. /\ {IndexRead(es)[n] : n \in DOMAIN es} = Listed(d.methods, l)
      /\ \A n \in DOMAIN es :
           /\ IndexRead(es)[n] \in Listed(d.methods, l)
           /\ MadeFor(chunks, es[n], IndexRead(es)[n], d.methods, d.from)
  BY <1>1, WholeIsRead
<1>3. ASSUME Given(d, c)
      PROVE  /\ Listed(d.methods, l) = OwnListed(c, l)
             /\ \A m \in MethodsOf(c) \cap Kept : d.methods[m].len # 0
  BY <1>1, <1>3, GivenIsOwn DEF Given
<1>4. ASSUME NEW n \in DOMAIN es, Given(d, c), IndexRead(es)[n] \in Kept
      PROVE  es[n].off # 0
  <2>1. IndexRead(es)[n] \in MethodsOf(c)
    BY <1>2, <1>3, <1>4 DEF OwnListed
  <2>2. QED
    BY <1>2, <1>3, <1>4, <2>1 DEF MadeFor
<1>5. \A n \in DOMAIN es :
        IF d.methods[IndexRead(es)[n]].len = 0
        THEN es[n].off = 0
        ELSE At(chunks, es[n].off, [what |-> CodeFrom(d.from), id |-> IndexRead(es)[n]])
  BY <1>2 DEF MadeFor
<1>6. QED
  BY <1>2, <1>3, <1>4, <1>5

\* In the end every class definition is done, and that is what a reader needs.
LEMMA FileIsRead ==
  ASSUME StringIdsOff = HeaderLen, FileInv PROVE ReaderFindsCode
<1> SUFFICES ASSUME pc = "done", NEW c \in Classes
             PROVE  LET d     == defs[c + 1]
                        given == d.from # "foreign" /\ c \notin NoData
                    IN  \/ d.dataOff = 0 /\ (given => MethodsOf(c) = {})
                        \/ /\ At(chunks, d.dataOff, [what |-> "data", id |-> c])
                           /\ \A l \in Lists :
                                LET es   == d.entries[l]
                                    read == IndexRead(es)
                                IN  /\ {read[n] : n \in DOMAIN es} = Listed(d.methods, l)
                                    /\ given => Listed(d.methods, l) = OwnListed(c, l)
                                    /\ \A n \in DOMAIN es :
                                         /\ IF d.methods[read[n]].len = 0
                                            THEN es[n].off = 0
                                            ELSE At(chunks, es[n].off,
                                                    [what |-> CodeFrom(d.from), id |-> read[n]])
                                         /\ given /\ read[n] \in Kept => es[n].off # 0
  BY DEF ReaderFindsCode
<1> DEFINE d == defs[c + 1]
<1>1. defs \in Seq(Def) /\ Len(defs) = NumClasses /\ OldDataLen >= 0
  BY DEF FileInv, IInv, TypeOK, DoneInv, Class
<1>2. c \in Nat /\ c < NumClasses /\ NumClasses \in Nat
  BY MethodAssumption DEF Classes
<1>3. HeaderDataEnd > 0
  BY <1>1, <1>2, LayoutAssumption DEF OldDataLen, DataStart, ClassDefLen
<1>4. PICK k \in DOMAIN defs : k = c + 1 /\ k - 1 = c
  BY <1>1, <1>2
<1>5. DefDone(chunks, d, c)
  <2>1. DefDone(chunks, defs[k], k - 1)
    BY <1>3 DEF FileInv, ReadInv
  <2>2. QED
    BY <1>4, <2>1
<1>6. d \in Def
  BY <1>1, <1>4, MemberOfSeq
<1>7. CASE d.dataOff = 0 /\ (Given(d, c) => MethodsOf(c) = {})
  BY <1>7 DEF Given
<1>8. CASE /\ At(chunks, d.dataOff, [what |-> "data", id |-> c])
           /\ d.methods \in MethodsFrom(d.from, c)
           /\ \A l \in Lists : Whole(chunks, d.entries[l], d.methods, d.from, l)
  <2> HIDE DEF d
  <2>1. \A l \in Lists :
          LET es   == d.entries[l]
              read == IndexRead(es)
          IN  /\ {read[n] : n \in DOMAIN es} = Listed(d.methods, l)
              /\ Given(d, c) => Listed(d.methods, l) = OwnListed(c, l)
              /\ \A n \in DOMAIN es :
                   /\ IF d.methods[read[n]].len = 0
                      THEN es[n].off = 0
                      ELSE At(chunks, es[n].off, [what |-> CodeFrom(d.from), id |-> read[n]])
                   /\ Given(d, c) /\ read[n] \in Kept => es[n].off # 0
    BY <1>6, <1>8, ListIsRead
  <2>2. QED
    BY <1>8, <2>1 DEF Given, d
<1>9. QED
  BY <1>5, <1>7, <1>8 DEF DefDone

\* A reader of the finished file finds the class data of every class, in it the
\* methods of the class it was rebuilt from, and the code of each, for every dex
\* file whose string ids follow the header, and every way its classes come, whatever
\* another dex file's class of the name has in it (DexDumper.cpp:84-206, 268-308,
\* ClassDefBuilder.cpp:17-200).
THEOREM ReaderFinds == ASSUME StringIdsOff = HeaderLen PROVE Spec => []ReaderFindsCode
<1>1. Init => FileInv
  <2> SUFFICES ASSUME Init PROVE FileInv
    OBVIOUS
  <2>1. IInv
    BY InitIInv
  <2>2. ReadInv /\ DoneInv
    BY DEF Init, ReadInv, DoneInv
  <2>3. QED
    BY <2>1, <2>2 DEF FileInv
<1>2. FileInv => ReaderFindsCode
  BY FileIsRead
<1>3. QED
  BY <1>1, <1>2, NextFileInv, PTL DEF Spec

====
