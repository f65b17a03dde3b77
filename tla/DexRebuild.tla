---- MODULE DexRebuild ----
(***************************************************************************)
(* DexDumper::rebuild with ClassDefBuilder and the export hook             *)
(* (DexDumper.cpp, ClassDefBuilder.cpp): every class definition of a       *)
(* loaded dex file is built anew from the VM's objects, the code items     *)
(* exported on the way and the new class data are appended behind the      *)
(* data, and the file is put together.                                     *)
(*                                                                         *)
(* A method is its index in method_ids; an offset is a number, counted     *)
(* from the dex header as in the file; bytes are left out, but not where   *)
(* they are.  Methods that have no index there (miranda methods, and what  *)
(* DexHashTable does not find) are dropped by the code and are no methods  *)
(* here.                                                                   *)
(***************************************************************************)
EXTENDS Integers, Sequences, FiniteSets

CONSTANTS
  NumClasses,    \* header.classDefsSize
  MethodId,      \* the methods in method_ids, defined here or only referred to
  Method,        \* those of them that the classes of the dex file define
  ClassOf,       \* the class of a method
  ListOf,        \* the list of the class data it is in
  HasCode,       \* methods that are neither native nor abstract
  Kept,          \* those of them whose code_off is left in the file's memory
  SizeOf,        \* the length of a method's code item
  OtherMembers,  \* classes with fields or miranda methods
  NoData,        \* classes whose class_data_off is 0 in the file's memory
  Foreign,       \* classes the loader may answer with a class of another dex file
  CodeLens,      \* the lengths of the code items in such a class
  DataLens,      \* the lengths an encoded class data item may have
  StringIdsOff,  \* pStringIds - pHeader
  ClassDefsOff,  \* pClassDefs - pHeader
  HeaderDataEnd, \* dataOff + dataSize, as the header in memory says
  Optimised,     \* is there an opt header?
  DepsLen        \* length of the dependencies and the opt data behind it

Classes == 0 .. (NumClasses - 1)

Lists == {"direct", "virtual"}

ASSUME MethodAssumption ==
  /\ NumClasses \in Nat
  /\ MethodId \subseteq Nat
  /\ IsFiniteSet(MethodId)
  /\ Method \subseteq MethodId
  /\ ClassOf \in [MethodId -> Classes]
  /\ ListOf \in [Method -> Lists]
  /\ HasCode \subseteq Method
  /\ Kept \subseteq HasCode
  /\ SizeOf \in [Method -> Nat \ {0}]
  /\ OtherMembers \subseteq Classes
  /\ NoData \subseteq Classes
  /\ Foreign \subseteq Classes
  /\ CodeLens \subseteq Nat \ {0}
  /\ DataLens \subseteq Nat \ {0}

ASSUME LayoutAssumption ==
  /\ StringIdsOff \in Nat
  /\ ClassDefsOff \in Nat
  /\ HeaderDataEnd \in Nat
  /\ Optimised \in BOOLEAN
  /\ DepsLen \in Nat \ {0}

HeaderLen == 112    \* sizeof(DexHeader)
ClassDefLen == 32   \* sizeof(DexClassDef)
OptHeaderLen == 40  \* sizeof(DexOptHeader)

VARIABLES
  pc,       \* where rebuild is
  source,   \* what the class is rebuilt from
  methods,  \* its methods as the builder finds them (methodMaps)
  list,     \* the list being fixed
  sorted,   \* its methods in the order the builder sorted them in
  last,     \* lastIndex
  entries,  \* the methods of the class data fixed so far, list by list
  defs,     \* classFile: the class definitions rebuilt so far; what each was
            \* rebuilt from is recorded with it for the properties
  chunks,   \* the items in extra: whose they are and where they lie in it
  size,     \* extra.size()
  point     \* total_point

classVars == <<source, methods, list, sorted, last, entries>>
extraVars == <<chunks, size, point>>
vars      == <<pc, classVars, defs, extraVars>>

\* A class object of this dex file, one of another dex file (the loader goes
\* by the name alone), or the class data in memory when no class was loaded.
Sources == {"object", "foreign", "memory"}

Owner == [what : {"code", "foreign code", "data", "deps"}, id : Nat]

Chunk == [owner : Owner, at : Nat, len : Nat \ {0}]

MethodEntry == [delta : Nat, off : Nat]

ClassEntries == [Lists -> Seq(MethodEntry)]

\* Methods by their index: the list each is in, if it is there at all, and the
\* length of its code item, 0 when it is native, abstract or without code.
MethodMaps == [MethodId -> [list : Lists \cup {"none"}, len : Nat]]

Def == [dataOff : Nat, entries : ClassEntries, from : Sources, methods : MethodMaps]

TypeOK ==
  /\ pc \in {"start", "class", "fix", "done", "refused", "dead"}
  /\ source \in Sources
  /\ methods \in MethodMaps
  /\ list \in Lists
  /\ sorted \in Seq(MethodId)
  /\ last \in Int
  /\ entries \in ClassEntries
  /\ defs \in Seq(Def)
  /\ chunks \subseteq Chunk
  /\ size \in Nat
  /\ point \in Nat

NoEntries == [l \in Lists |-> <<>>]

Absent == [list |-> "none", len |-> 0]

NoMethods == [m \in MethodId |-> Absent]

Init ==
  /\ pc = "start"
  /\ source = "object"
  /\ methods = NoMethods
  /\ list = "direct"
  /\ sorted = <<>>
  /\ last = 0
  /\ entries = NoEntries
  /\ defs = <<>>
  /\ chunks = {}
  /\ size = 0
  /\ point = HeaderDataEnd

----------------------------------------------------------------------------
(* Helpers *)

\* Mutant of Padded: the position itself is not rounded up.
Unpadded(n) == n

\* The loops over padding: the next multiple of four.
Padded(n) == 4 * ((n + 3) \div 4)

\* An item goes to the end of extra, and zeroes after it.
Place(owner, len) ==
  /\ chunks' = chunks \cup {[owner |-> owner, at |-> size, len |-> len]}
  /\ point' = Padded(point + len)
  /\ size' = size + Padded(point + len) - point

Class == Len(defs)

MethodsOf(c) == {m \in Method : ClassOf[m] = c}

IdsOf(c) == {m \in MethodId : ClassOf[m] = c}

HasMembers(c) == MethodsOf(c) # {} \/ c \in OtherMembers

\* The methods of class c as this dex file has them, those in code with code.
OwnMethods(c, code) ==
  [m \in MethodId |-> IF m \in MethodsOf(c)
                      THEN [list |-> ListOf[m], len |-> IF m \in code THEN SizeOf[m] ELSE 0]
                      ELSE Absent]

\* Those of a class of another dex file: any methods, under any of the indices this
\* dex file has for the name of the class.
ForeignMethods(c) ==
  LET found == [list : Lists, len : CodeLens \cup {0}] \cup {Absent}
  IN  {[m \in MethodId |-> IF m \in IdsOf(c) THEN f[m] ELSE Absent] : f \in [IdsOf(c) -> found]}

\* What the builder may find of class c: an object has the code of the methods
\* whose code_off is still there and perhaps that of others, or no methods if it
\* was made when class_data_off was gone.
MethodsFrom(s, c) ==
  CASE s = "object"  -> {OwnMethods(c, Kept \cup more) : more \in SUBSET HasCode}
                          \cup {NoMethods : d \in NoData \cap {c}}
    [] s = "foreign" -> ForeignMethods(c)
    [] s = "memory"  -> {OwnMethods(c, Kept)}

\* std::sort by methodIdx
Sorted(S) ==
  {s \in [1 .. Cardinality(S) -> S] :
     \A i, j \in 1 .. Cardinality(S) : i < j => s[i] < s[j]}

Listed(ms, l) == {m \in MethodId : ms[m].list = l}

\* Mutant of Delta: taken from the first method of the list.
DeltaFromFirst(i) == IF i = 1 THEN sorted[1] ELSE sorted[i] - sorted[1]

\* The delta the builder wrote into entry i.
Delta(i) == IF i = 1 THEN sorted[1] ELSE sorted[i] - sorted[i - 1]

Position == Len(entries[list]) + 1

\* The entry at hand is given its code_off.
Fixed(off) ==
  entries' = [entries EXCEPT ![list] = Append(@, [delta |-> Delta(Position), off |-> off])]

CodeFrom(s) == IF s = "foreign" THEN "foreign code" ELSE "code"

\* The code item of method m, if it has one, is appended for the entry at hand.
Export(m) ==
  IF methods[m].len # 0
  THEN Fixed(point) /\ Place([what |-> CodeFrom(source), id |-> m], methods[m].len)
  ELSE Fixed(0) /\ UNCHANGED extraVars

----------------------------------------------------------------------------
(* DexDumper::rebuild *)

\* No loader: nothing is rebuilt.
Refuse ==
  /\ pc = "start"
  /\ pc' = "refused"
  /\ UNCHANGED <<classVars, defs, extraVars>>

Start ==
  /\ pc = "start"
  /\ pc' = "class"
  /\ point' = Padded(point)
  /\ size' = Padded(point) - point
  /\ UNCHANGED <<classVars, defs, chunks>>

\* tryLoadClass or loadClassFromDex gives an object, or neither does.
CanCome(c) == {"object", "memory"} \cup (IF c \in Foreign THEN {"foreign"} ELSE {})

\* class_data_off becomes 0: the object has neither fields nor methods (one of this
\* dex file, because the class has none or class_data_off was gone when it was
\* made), or there is no object and class_data_off is 0 in memory.
SkipClass(s) ==
  /\ pc = "class"
  /\ Class < NumClasses
  /\ s \in CanCome(Class)
  /\ \/ s = "foreign"
     \/ Class \in NoData
     \/ s = "object" /\ ~HasMembers(Class)
  /\ defs' = Append(defs, [dataOff |-> 0, entries |-> NoEntries, from |-> s, methods |-> NoMethods])
  /\ UNCHANGED <<pc, classVars, extraVars>>

\* ClassDefBuilder: the methods are collected, and the first list is sorted and
\* delta coded.
OpenClass(s) ==
  /\ pc = "class"
  /\ Class < NumClasses
  /\ s \in CanCome(Class)
  /\ s = "object" => HasMembers(Class)
  /\ s = "memory" => Class \notin NoData
  /\ source' = s
  /\ methods' \in MethodsFrom(s, Class)
  /\ list' = "direct"
  /\ sorted' \in Sorted(Listed(methods', "direct"))
  /\ last' = 0
  /\ entries' = NoEntries
  /\ pc' = "fix"
  /\ UNCHANGED <<defs, extraVars>>

\* The methods the builder's map knows.
Found == {m \in MethodId : methods[m].list # "none"}

MoreMethods == Position <= Len(sorted)

\* fixMethodByDvm: the method is looked up by the index the deltas add up to (an
\* assertion kills the process if it is not there), and invoked; the hook exports
\* its code, or, when it is native, none; an abstract method is not invoked.
FixByDvm ==
  /\ pc = "fix" /\ source # "memory"
  /\ MoreMethods
  /\ last' = last + Delta(Position)
  /\ IF last' \in Found
     THEN Export(last') /\ UNCHANGED pc
     ELSE pc' = "dead" /\ UNCHANGED <<entries, extraVars>>
  /\ UNCHANGED <<source, methods, list, sorted, defs>>

\* fixMethodByMemory: the code is where the class data in memory says.
FixByMemory ==
  /\ pc = "fix" /\ source = "memory"
  /\ MoreMethods
  /\ Export(sorted[Position])
  /\ UNCHANGED <<pc, source, methods, list, sorted, last, defs>>

\* Mutant of NextList: lastIndex goes on from the first list.
NextListOn ==
  /\ pc = "fix"
  /\ list = "direct"
  /\ ~MoreMethods
  /\ list' = "virtual"
  /\ sorted' \in Sorted(Listed(methods, "virtual"))
  /\ UNCHANGED <<pc, source, methods, last, entries, defs, extraVars>>

NextList ==
  /\ pc = "fix"
  /\ list = "direct"
  /\ ~MoreMethods
  /\ list' = "virtual"
  /\ sorted' \in Sorted(Listed(methods, "virtual"))
  /\ last' = 0
  /\ UNCHANGED <<pc, source, methods, entries, defs, extraVars>>

\* Mutant of EncodeClass: the offset is taken after the data was appended.
EncodeClassLate(len) ==
  /\ pc = "fix"
  /\ list = "virtual"
  /\ ~MoreMethods
  /\ Place([what |-> "data", id |-> Class], len)
  /\ defs' = Append(defs, [dataOff |-> point', entries |-> entries,
                           from |-> source, methods |-> methods])
  /\ pc' = "class"
  /\ UNCHANGED classVars

\* EncodeClassData, and the class definition that points to it.
EncodeClass(len) ==
  /\ pc = "fix"
  /\ list = "virtual"
  /\ ~MoreMethods
  /\ Place([what |-> "data", id |-> Class], len)
  /\ defs' = Append(defs, [dataOff |-> point, entries |-> entries,
                           from |-> source, methods |-> methods])
  /\ pc' = "class"
  /\ UNCHANGED classVars

----------------------------------------------------------------------------
(* The file: [opt header,] header, everything from the string ids to the   *)
(* class definitions, the new class definitions, the old data, extra.      *)

DataStart == ClassDefsOff + NumClasses * ClassDefLen

\* The old data, up to where the header says it ends.
OldDataLen == HeaderDataEnd - DataStart

\* The length is a u4: one below zero is four billion, and copying dies.
LayOut ==
  /\ pc = "class"
  /\ Class = NumClasses
  /\ pc' = IF OldDataLen >= 0 THEN "done" ELSE "dead"
  /\ IF Optimised
     THEN /\ chunks' = chunks \cup {[owner |-> [what |-> "deps", id |-> 0], at |-> size, len |-> DepsLen]}
          /\ size' = size + DepsLen
     ELSE UNCHANGED <<chunks, size>>
  /\ UNCHANGED <<classVars, defs, point>>

\* Where an item of extra lies in the finished file, from the dex header on.
ExtraStart == HeaderLen + (ClassDefsOff - StringIdsOff) + NumClasses * ClassDefLen + OldDataLen

InFile(ch) == ExtraStart + ch.at

\* depsOffset in the new opt header
DepsOffset == point + OptHeaderLen

----------------------------------------------------------------------------

Next ==
  \/ Refuse \/ Start
  \/ \E s \in Sources : SkipClass(s) \/ OpenClass(s)
  \/ FixByDvm \/ FixByMemory \/ NextList
  \/ \E len \in DataLens : EncodeClass(len)
  \/ LayOut

Spec == Init /\ [][Next]_vars

----------------------------------------------------------------------------
(* Properties *)

\* No two items of the extra data overlap, none reaches beyond its end, and each
\* begins at a multiple of four of the file, which a code item must
\* (DexDumper.cpp:78-81, 163-169, 242-251, 285, 299-305).
ItemsApart ==
  \A ch \in chunks :
    /\ (HeaderDataEnd + ch.at) % 4 = 0
    /\ ch.at + ch.len <= size
    /\ \A other \in chunks \ {ch} :
         ch.at + ch.len <= other.at \/ other.at + other.len <= ch.at

\* Whatever the methods of the class, the index that fixMethodByDvm adds up from
\* the deltas is in the builder's map: "Unable to fix MethodBy Dvm, this should
\* happened" is never reached (DexDumper.cpp:255-260).
LookupSucceeds ==
  pc = "fix" /\ source # "memory" /\ MoreMethods => last + Delta(Position) \in Found

\* The method index a reader of the class data gets for each of its entries.
IndexRead(es) ==
  LET upTo[n \in 0 .. Len(es)] == IF n = 0 THEN 0 ELSE upTo[n - 1] + es[n].delta
  IN  [n \in DOMAIN es |-> upTo[n]]

At(items, off, owner) == \E ch \in items : ch.owner = owner /\ InFile(ch) = off

\* The methods of list l in this dex file's class c.
OwnListed(c, l) == {m \in MethodsOf(c) : ListOf[m] = l}

\* A reader of the finished file finds what was put there: each class definition
\* leads to the class data made for it; the deltas of either list add up to the
\* methods of the class it was rebuilt from; the code_off of a method leads to that
\* method's code in that class, and is 0 if it has none there.  What was rebuilt
\* from this dex file's own class has the class's own methods, and no code that
\* was left in memory is lost; only of a class whose class_data_off was gone, or
\* in whose place another dex file's came, may that differ (DexDumper.cpp:84-206).
ReaderFindsCode ==
  pc = "done" =>
    \A c \in Classes :
      LET d     == defs[c + 1]
          given == d.from # "foreign" /\ c \notin NoData
      IN  \/ d.dataOff = 0 /\ (given => MethodsOf(c) = {})
          \/ /\ At(chunks, d.dataOff, [what |-> "data", id |-> c])
             /\ \A l \in Lists :
                  LET es   == d.entries[l]
                      read == IndexRead(es)
                  IN  /\ {read[n] : n \in DOMAIN es} = Listed(d.methods, l)
                      /\ given => Listed(d.methods, l) = OwnListed(c, l)
                      /\ \A n \in DOMAIN es :
                           /\ IF d.methods[read[n]].len = 0
                              THEN es[n].off = 0
                              ELSE At(chunks, es[n].off, [what |-> CodeFrom(d.from), id |-> read[n]])
                           /\ given /\ read[n] \in Kept => es[n].off # 0

\* Every offset given out so far leads to the beginning of an item of its kind,
\* class data to that of the class, and the new opt header to the dependencies
\* (DexDumper.cpp:163, 241, 285, 182-187), if the string ids follow the header.
CodeAt(items, off) ==
  \E ch \in items : ch.owner.what \in {"code", "foreign code"} /\ InFile(ch) = off

EntriesLead(items, ces) ==
  \A l \in Lists : \A n \in DOMAIN ces[l] : ces[l][n].off # 0 => CodeAt(items, ces[l][n].off)

DefLeads(items, d, c) ==
  /\ EntriesLead(items, d.entries)
  /\ d.dataOff # 0 => At(items, d.dataOff, [what |-> "data", id |-> c])

OffsetsLead ==
  StringIdsOff = HeaderLen =>
    /\ EntriesLead(chunks, entries)
    /\ \A c \in DOMAIN defs : DefLeads(chunks, defs[c], c - 1)
    /\ \A ch \in chunks : ch.owner.what = "deps" => DepsOffset = OptHeaderLen + InFile(ch)

====
