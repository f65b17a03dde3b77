---- MODULE DexFixer_proofs ----
(***************************************************************************)
(* TLAPS proofs about DexFixer: in every dex file as compilers make them,  *)
(* however many methods it has and whatever the optimiser replaced, the    *)
(* fixer writes nothing but replaced instructions and puts all of them     *)
(* back.                                                                   *)
(***************************************************************************)
EXTENDS DexFixer, TLAPS

----------------------------------------------------------------------------
(* The inductive invariant behind WritesInstructions and Restored.         *)

\* Only instructions were replaced, and only as the optimiser does.
InputInv ==
  \A i \in DOMAIN given :
    \/ given[i] = program.units[i]
    \/ /\ i \in program.heads
       /\ \/ given[i] = Replaced(program.units[i], "essential")
          \/ given[i] = Replaced(program.units[i], "quick")

EndOf(m) == m.first + m.len

\* The walk does not leave the file.
PlaceInv == pc = "walk" => at \in DOMAIN insns

\* The walk over a code item is at an instruction or at the end of the item.
WalkInv ==
  pc = "walk" =>
    /\ method > 0
    /\ program.methods[method].code
    /\ at >= program.methods[method].first
    /\ at + left = EndOf(program.methods[method])
    /\ left > 0 => at \in program.heads

UnitsInv ==
  \A i \in DOMAIN insns :
    \/ insns[i] = given[i]
    \/ i \in Code \cap program.heads /\ insns[i] = Wanted(i)

\* What lies behind the walk is restored.
BehindInv ==
  \A j \in 1 .. method : program.methods[j].code =>
    \A i \in CodeOf(program.methods[j]) :
      (pc = "walk" /\ j = method => i < at) => insns[i] = Wanted(i)

\* No unit of the file is an opcode without an instruction.
Sized(p) == \A i \in DOMAIN p.units : p.units[i].what # "unused"

\* The units keep what they are: only the form and the kind are rewritten.
SameWhatInv == \A i \in DOMAIN insns : insns[i].what = program.units[i].what

IInv ==
  /\ TypeOK
  /\ InputInv
  /\ PlaceInv
  /\ pc = "done" => method = Len(program.methods)
  /\ WellFormed(program) => WalkInv /\ UnitsInv /\ BehindInv

----------------------------------------------------------------------------
(* One instruction *)

\* No instruction but the unused opcode has no width, and replacing one does not
\* change its width.
LEMMA WidthNat ==
  ASSUME NEW what \in Whats
  PROVE  /\ WidthOf(what) \in Nat
         /\ what # "unused" => WidthOf(what) > 0
         /\ what \in Fields => WidthOf(what) = 2
  BY DEF WidthOf, Whats, Fields

\* Units with the same fields are equal.
LEMMA UnitsEqual ==
  ASSUME NEW u \in Unit, NEW v \in Unit,
         u.what = v.what, u.kind = v.kind, u.form = v.form, u.names = v.names
  PROVE  u = v
  BY DEF Unit

\* A replaced unit is a unit of the same instruction.
LEMMA ReplacedType ==
  ASSUME NEW u \in Unit, NEW form \in Forms
  PROVE  Replaced(u, form) \in Unit /\ Replaced(u, form).what = u.what
  BY DEF Replaced, Coarse, Unit, Kinds, Narrow, Forms

\* Rewriting keeps a unit a unit of the same instruction.
LEMMA RewrittenType ==
  ASSUME NEW u \in Unit, NEW next
  PROVE  Rewritten(u, next) \in Unit /\ Rewritten(u, next).what = u.what
  BY DEF Rewritten, Unit, Kinds, Narrow, Forms

\* The fixer undoes what the optimiser did: of an instruction as the compiler
\* made it, whose field next names.
LEMMA RewrittenBack ==
  ASSUME NEW u \in Unit, NEW g \in Unit, NEW next \in Unit,
         u.form = "plain",
         u.what \in Fields => u.kind = next.names,
         \/ g = u
         \/ g = Replaced(u, "essential")
         \/ g = Replaced(u, "quick")
  PROVE  Rewritten(g, next) = IF g.form = "quick" THEN g ELSE u
<1>4. ASSUME NEW kind, g = [u EXCEPT !.form = "essential", !.kind = kind]
      PROVE  [g EXCEPT !.form = "plain", !.kind = u.kind] = u
  <2> DEFINE r == [g EXCEPT !.form = "plain", !.kind = u.kind]
  <2>1. r \in Unit
    BY DEF Unit, Forms
  <2>2. r.what = u.what /\ r.kind = u.kind /\ r.form = u.form /\ r.names = u.names
    BY <1>4 DEF Unit
  <2> HIDE DEF r
  <2>3. r = u
    BY <2>1, <2>2, UnitsEqual
  <2>4. QED
    BY <2>3 DEF r
<1>1. CASE g = u
  BY <1>1 DEF Rewritten
<1>2. CASE g = Replaced(u, "essential")
  <2>1. CASE u.what \in Fields
    <3>1. /\ g = [u EXCEPT !.form = "essential", !.kind = Coarse(u)]
          /\ g.what = u.what /\ g.form = "essential" /\ g.kind = Coarse(u)
      BY <1>2, <2>1 DEF Replaced, Unit
    <3>2. CASE u.kind \in Narrow
      <4>1. g.kind = "int"
        BY <2>1, <3>1, <3>2 DEF Coarse
      <4>2. Rewritten(g, next) = [g EXCEPT !.form = "plain", !.kind = u.kind]
        BY <2>1, <3>1, <3>2, <4>1 DEF Rewritten
      <4>3. QED
        BY <3>1, <4>2, <1>4
    <3>3. CASE u.kind \notin Narrow
      <4>1. g.kind = u.kind
        BY <3>1, <3>3 DEF Coarse
      <4>2. Rewritten(g, next) = [g EXCEPT !.form = "plain", !.kind = u.kind]
        BY <2>1, <3>1, <3>3, <4>1 DEF Rewritten
      <4>3. QED
        BY <3>1, <4>2, <1>4
    <3>4. QED
      BY <3>2, <3>3
  <2>2. CASE u.what \in {"return_void", "object_init"}
    BY <1>2, <2>2 DEF Rewritten, Replaced, Coarse, Unit, Fields
  <2>3. CASE u.what \notin Fields \cup {"return_void", "object_init"}
    BY <1>2, <2>3 DEF Rewritten, Replaced
  <2>4. QED
    BY <2>1, <2>2, <2>3
<1>3. CASE g = Replaced(u, "quick")
  BY <1>3 DEF Rewritten, Replaced, Coarse, Unit
<1>5. QED
  BY <1>1, <1>2, <1>3

----------------------------------------------------------------------------
(* The parts of a file *)

\* The types of the input and of what is counted over it.
LEMMA InputType ==
  ASSUME TypeOK
  PROVE  /\ program.units \in Seq(Unit) /\ program.methods \in Seq(Method)
         /\ DOMAIN program.units = 1 .. Len(program.units)
         /\ Len(program.units) \in Nat /\ Len(program.methods) \in Nat
         /\ DOMAIN given = DOMAIN program.units /\ DOMAIN insns = DOMAIN program.units
         /\ \A i \in DOMAIN program.units : program.units[i] \in Unit
         /\ \A j \in 1 .. Len(program.methods) :
              /\ program.methods[j] \in Method
              /\ program.methods[j].code => program.methods[j].first \in DOMAIN insns
  BY ProgramAssumption DEF TypeOK, Program

\* A head of a file as compilers make them.
LEMMA HeadFacts ==
  ASSUME TypeOK, WellFormed(program), NEW h \in program.heads
  PROVE  /\ h \in DOMAIN program.units /\ program.units[h] \in Unit
         /\ program.units[h].form = "plain"
         /\ WidthOf(program.units[h].what) \in Nat \ {0}
         /\ \A i \in (h + 1) .. (h + WidthOf(program.units[h].what) - 1) :
              i \notin program.heads
         /\ program.units[h].what \in Fields =>
              /\ h + 1 \in DOMAIN program.units
              /\ h + 1 \notin program.heads
              /\ program.units[h].kind = program.units[h + 1].names
<1>1. h \in DOMAIN program.units /\ program.units[h] \in Unit
  BY InputType DEF WellFormed
<1>2. /\ WidthOf(program.units[h].what) \in Nat \ {0}
      /\ program.units[h].what \in Fields => WidthOf(program.units[h].what) = 2
  BY <1>1, WidthNat DEF WellFormed, Unit
<1>3. \A i \in (h + 1) .. (h + WidthOf(program.units[h].what) - 1) : i \notin program.heads
  BY DEF WellFormed
<1>4. program.units[h].what \in Fields => h + 1 \notin program.heads
  BY <1>1, <1>2, <1>3, InputType
<1>5. QED
  BY <1>1, <1>2, <1>3, <1>4 DEF WellFormed

\* The end of the code item of a method, and how the instructions in it follow
\* one another.
LEMMA MethodFacts ==
  ASSUME TypeOK, WellFormed(program), NEW j \in 1 .. Len(program.methods),
         program.methods[j].code
  PROVE  LET m == program.methods[j]
         IN  /\ m.first \in Nat \ {0} /\ m.len \in Nat
             /\ EndOf(m) \in DOMAIN program.units
             /\ m.len > 0 => m.first \in program.heads
             /\ \A h \in program.heads : h >= m.first /\ h < EndOf(m) =>
                  LET next == h + WidthOf(program.units[h].what)
                  IN  next = EndOf(m) \/ (next < EndOf(m) /\ next \in program.heads)
  BY InputType DEF WellFormed, EndOf, Method

\* The units of a code item are units of Code.
LEMMA CodeFacts ==
  ASSUME TypeOK, NEW j \in 1 .. Len(program.methods), program.methods[j].code
  PROVE  CodeOf(program.methods[j]) \subseteq Code
  BY InputType DEF Code

\* A unit of the file always begins the same instruction.
LEMMA SameInstruction ==
  ASSUME IInv, WellFormed(program), NEW i \in DOMAIN program.units
  PROVE  insns[i].what = program.units[i].what
<1>1. program.units[i] \in Unit /\ i \in DOMAIN given /\ i \in DOMAIN insns
  BY InputType DEF IInv
<1>2. given[i].what = program.units[i].what
  BY <1>1, ReplacedType DEF IInv, InputInv, Forms
<1>3. QED
  BY <1>1, <1>2 DEF IInv, UnitsInv, Wanted

----------------------------------------------------------------------------
(* The steps *)

\* Init establishes the inductive invariant.
LEMMA InitIInv == Init => IInv
<1> SUFFICES ASSUME Init
             PROVE  IInv
  OBVIOUS
<1>1. /\ program \in Programs /\ program.units \in Seq(Unit) /\ program.methods \in Seq(Method)
      /\ \A i \in DOMAIN program.units : program.units[i] \in Unit
  BY ProgramAssumption DEF Init, Program
<1>2. PICK essential, quick \in SUBSET program.heads :
        given = Optimised(program, essential, quick)
  BY DEF Init
<1>3. DOMAIN given = DOMAIN program.units /\ InputInv
  BY <1>2 DEF InputInv, Optimised
<1>4. given \in [DOMAIN program.units -> Unit]
  <2>1. ASSUME NEW i \in DOMAIN program.units
        PROVE  given[i] \in Unit
    BY <1>1, <1>3, ReplacedType DEF InputInv, Forms
  <2>2. QED
    BY <1>2, <2>1 DEF Optimised
<1>5. TypeOK
  BY <1>1, <1>4, WordAssumption DEF Init, TypeOK
<1>6. PlaceInv /\ WalkInv /\ UnitsInv /\ BehindInv
  BY DEF Init, PlaceInv, WalkInv, UnitsInv, BehindInv
<1>7. QED
  BY <1>3, <1>5, <1>6 DEF IInv, Init

\* fixAll goes on to a method.
LEMMA NextMethodIInv ==
  ASSUME IInv, NextMethod
  PROVE  IInv'
<1> USE DEF IInv
<1> DEFINE m == program.methods[method + 1]
<1>1. method + 1 \in 1 .. Len(program.methods) /\ m \in Method /\ method \in Nat
  BY InputType DEF NextMethod, TypeOK
<1>2. /\ method' = method + 1
      /\ m.code => pc' = "walk" /\ at' = m.first /\ left' = m.len
      /\ ~m.code => pc' = "method" /\ at' = at /\ left' = left
      /\ UNCHANGED <<input, insns>>
  BY DEF NextMethod
<1>3. TypeOK'
  <2>1. m.len < Word /\ m.len \in Nat /\ m.first \in Nat \ {0}
    BY <1>1, WordAssumption, InputType DEF TypeOK, Method
  <2>2. QED
    BY <1>1, <1>2, <2>1, WordAssumption DEF TypeOK, input
<1>4. InputInv' /\ PlaceInv' /\ pc' # "done"
  BY <1>1, <1>2, InputType DEF InputInv, PlaceInv, NextMethod, input
<1>5. ASSUME WellFormed(program)
      PROVE  WalkInv' /\ UnitsInv' /\ BehindInv'
  <2>1. WalkInv'
    <3>1. CASE m.code
      BY <1>1, <1>2, <1>5, <3>1, MethodFacts DEF WalkInv, EndOf, input
    <3>2. CASE ~m.code
      BY <1>2, <3>2 DEF WalkInv
    <3>3. QED
      BY <3>1, <3>2
  <2>2. UnitsInv'
    BY <1>2, <1>5 DEF UnitsInv, Code, Wanted, input
  <2>3. BehindInv'
    <3>1. ASSUME NEW j \in 1 .. method', program'.methods[j].code,
                 NEW i \in CodeOf(program'.methods[j]),
                 pc' = "walk" /\ j = method' => i < at'
          PROVE  insns'[i] = Wanted(i)'
      <4>1. CASE j = method + 1
        <5>1. m.code /\ i >= m.first /\ i < m.first
          BY <1>1, <1>2, <3>1, <4>1 DEF CodeOf, Method, input
        <5>2. QED
          BY <1>1, <5>1 DEF Method, CodeOf
      <4>2. CASE j \in 1 .. method
        BY <1>2, <1>5, <3>1, <4>2 DEF BehindInv, Wanted, NextMethod, input
      <4>3. QED
        BY <1>1, <1>2, <4>1, <4>2
    <3>2. QED
      BY <3>1 DEF BehindInv
  <2>4. QED
    BY <2>1, <2>2, <2>3
<1>6. QED
  BY <1>2, <1>3, <1>4, <1>5 DEF input

\* fixAll is done.
LEMMA EndIInv ==
  ASSUME IInv, End
  PROVE  IInv'
<1>1. /\ TypeOK' /\ InputInv' /\ PlaceInv'
      /\ pc' = "done" => method' = Len(program.methods)'
  BY DEF IInv, End, TypeOK, InputInv, PlaceInv, input
<1>2. WellFormed(program) => WalkInv' /\ UnitsInv' /\ BehindInv'
  BY DEF IInv, End, WalkInv, UnitsInv, BehindInv, Code, Wanted, input
<1>3. QED
  BY <1>1, <1>2 DEF IInv, End, input

\* The walk leaves a code item: in a file as compilers make them, at its end.
LEMMA LeaveIInv ==
  ASSUME IInv, Leave
  PROVE  IInv'
<1> USE DEF IInv
<1>1. TypeOK' /\ InputInv' /\ PlaceInv' /\ pc' # "done"
  BY DEF Leave, TypeOK, InputInv, PlaceInv, input
<1>2. ASSUME WellFormed(program)
      PROVE  WalkInv' /\ UnitsInv' /\ BehindInv'
  <2> DEFINE m == program.methods[method]
  <2>1. /\ method \in 1 .. Len(program.methods) /\ m.code /\ m.first \in Nat \ {0}
        /\ at \in Nat \ {0} /\ left \in Nat
        /\ at >= m.first /\ at + left = EndOf(m) /\ (left > 0 => at \in program.heads)
        /\ EndOf(m) \in DOMAIN insns
    BY <1>2, InputType, MethodFacts, WordAssumption DEF Leave, WalkInv, TypeOK
  <2>2. left = 0
    <3>1. SUFFICES ASSUME left > 0
                   PROVE  Valid
      BY <2>1 DEF Leave
    <3>2. at \in DOMAIN program.units /\ insns[at].what = program.units[at].what
      BY <1>2, <2>1, <3>1, HeadFacts, SameInstruction
    <3>3. Width \in Nat /\ at + Width <= EndOf(m)
      <4>1. at < EndOf(m) /\ Width = WidthOf(program.units[at].what)
        BY <2>1, <3>1, <3>2, InputType DEF Width
      <4>2. at + Width = EndOf(m) \/ at + Width < EndOf(m)
        BY <1>2, <2>1, <3>1, <4>1, MethodFacts
      <4>3. QED
        BY <1>2, <2>1, <3>1, <4>1, <4>2, HeadFacts, InputType
    <3>4. QED
      BY <2>1, <3>3, InputType DEF Valid
  <2>3. at = EndOf(m)
    BY <2>1, <2>2, InputType
  <2>4. BehindInv'
    <3>1. ASSUME NEW j \in 1 .. method, program.methods[j].code,
                 NEW i \in CodeOf(program.methods[j])
          PROVE  insns[i] = Wanted(i)
      <4>1. j = method => i < at
        <5>1. m.first \in Nat /\ m.len \in Nat
          BY <2>1, InputType DEF Method
        <5>2. QED
          BY <2>1, <2>3, <3>1, <5>1 DEF CodeOf, EndOf
      <4>2. QED
        BY <1>2, <3>1, <4>1 DEF BehindInv
    <3>2. QED
      BY <3>1 DEF Leave, BehindInv, Wanted, input
  <2>5. UnitsInv' /\ WalkInv'
    BY <1>2 DEF Leave, UnitsInv, WalkInv, Code, Wanted, input
  <2>6. QED
    BY <2>4, <2>5
<1>3. QED
  BY <1>1, <1>2 DEF Leave, input

\* One instruction is rewritten and passed.
LEMMA FixIInv ==
  ASSUME IInv, Fix
  PROVE  IInv'
<1> USE DEF IInv
<1> DEFINE r == Rewritten(insns[at], insns[at + 1])
<1>1. /\ at \in DOMAIN insns /\ at \in Nat \ {0} /\ insns[at] \in Unit
      /\ Width \in Nat /\ at + Width \in DOMAIN insns
      /\ left \in Nat /\ left < Word /\ left > 0
  BY WidthNat, InputType, WordAssumption
     DEF Fix, Valid, Width, PlaceInv, TypeOK, Unit
<1>2. /\ insns' = [insns EXCEPT ![at] = r] /\ at' = at + Width
      /\ left' = (left - Width) % Word
      /\ pc = "walk" /\ pc' = "walk" /\ UNCHANGED <<program, given, method>>
  BY DEF Fix, Shorter, input
<1>3. insns' \in [DOMAIN program.units -> Unit]
  BY <1>1, <1>2, RewrittenType DEF TypeOK
<1>4. left' \in 0 .. (Word - 1)
  BY <1>1, <1>2, WordAssumption
<1>5. TypeOK' /\ InputInv' /\ PlaceInv'
  <2>1. at' \in Nat \ {0} /\ at' \in DOMAIN insns'
    BY <1>1, <1>2, InputType
  <2>2. QED
    BY <1>2, <1>3, <1>4, <2>1 DEF TypeOK, InputInv, PlaceInv
<1>6. ASSUME WellFormed(program)
      PROVE  WalkInv' /\ UnitsInv' /\ BehindInv'
  <2> DEFINE m == program.methods[method]
  <2>1. /\ method \in 1 .. Len(program.methods) /\ m.code
        /\ m.first \in Nat \ {0} /\ m.len \in Nat
        /\ at >= m.first /\ at + left = EndOf(m) /\ at \in program.heads
    <3>1. /\ method \in 1 .. Len(program.methods) /\ m.code
          /\ at >= m.first /\ at + left = EndOf(m) /\ at \in program.heads
      BY <1>1, <1>2, <1>6, InputType DEF WalkInv, TypeOK
    <3>2. QED
      BY <3>1, InputType DEF Method
  <2>2. Width = WidthOf(program.units[at].what) /\ Width > 0
    BY <1>6, <2>1, HeadFacts, SameInstruction DEF Width
  <2>3. at' = EndOf(m) \/ (at' < EndOf(m) /\ at' \in program.heads)
    <3>1. at < EndOf(m) /\ at' = at + WidthOf(program.units[at].what)
      BY <1>1, <1>2, <2>1, <2>2
    <3>2. QED
      BY <1>6, <2>1, <3>1, MethodFacts
  <2>4. at' > at /\ left' = left - Width
    <3>1. left - Width \in 0 .. (Word - 1)
      BY <1>1, <1>2, <2>1, <2>2, <2>3, WordAssumption
    <3>2. QED
      BY <1>1, <1>2, <2>2, <3>1, WordAssumption
  <2>5. WalkInv'
    BY <1>1, <1>2, <2>1, <2>3, <2>4 DEF WalkInv
  <2>6. r = Wanted(at)
    <3>1. CASE insns[at] = Wanted(at) /\ insns[at] # given[at]
      BY <1>6, <2>1, <3>1, HeadFacts DEF Wanted, Rewritten
    <3>2. CASE insns[at] = given[at]
      <4>1. /\ given[at] \in Unit /\ program.units[at] \in Unit
            /\ program.units[at].form = "plain"
            /\ \/ given[at] = program.units[at]
               \/ given[at] = Replaced(program.units[at], "essential")
               \/ given[at] = Replaced(program.units[at], "quick")
        BY <1>1, <1>6, <2>1, <3>2, HeadFacts DEF InputInv, TypeOK
      <4>2. ASSUME NEW next \in Unit,
                   program.units[at].what \in Fields =>
                     program.units[at].kind = next.names
            PROVE  Rewritten(insns[at], next) = Wanted(at)
        BY <3>2, <4>1, <4>2, RewrittenBack DEF Wanted
      <4>3. CASE program.units[at].what \in Fields
        <5>1. /\ insns[at + 1] = program.units[at + 1]
              /\ program.units[at + 1] \in Unit
          BY <1>6, <2>1, <4>3, HeadFacts, InputType DEF UnitsInv, InputInv
        <5>2. QED
          BY <1>6, <2>1, <4>2, <4>3, <5>1, HeadFacts
      <4>4. CASE program.units[at].what \notin Fields
        <5>1. insns[at].what \notin Fields
          BY <1>6, <2>1, <4>4, HeadFacts, SameInstruction
        <5>2. r = Rewritten(insns[at], insns[at])
          BY <5>1 DEF Rewritten
        <5>3. QED
          BY <1>1, <4>2, <4>4, <5>2
      <4>5. QED
        BY <4>3, <4>4
    <3>3. QED
      BY <1>1, <1>6, <3>1, <3>2 DEF UnitsInv
  <2>7. at \in Code
    BY <1>1, <2>1, CodeFacts DEF CodeOf, EndOf
  <2>8. UnitsInv'
    BY <1>1, <1>2, <1>6, <2>1, <2>6, <2>7 DEF UnitsInv, Code, Wanted
  <2>9. BehindInv'
    <3>1. ASSUME NEW j \in 1 .. method, program.methods[j].code,
                 NEW i \in CodeOf(program.methods[j]),
                 j = method => i < at'
          PROVE  insns'[i] = Wanted(i)
      <4>1. i \in DOMAIN insns
        <5>1. /\ j \in 1 .. Len(program.methods)
              /\ program.methods[j].first \in Nat \ {0} /\ program.methods[j].len \in Nat
          BY <2>1, <3>1, InputType DEF Method
        <5>2. EndOf(program.methods[j]) \in DOMAIN program.units
          BY <1>6, <3>1, <5>1, MethodFacts
        <5>3. QED
          BY <3>1, <5>1, <5>2, InputType DEF CodeOf, EndOf
      <4>2. CASE i = at
        BY <1>1, <1>2, <2>6, <4>2
      <4>3. CASE i # at /\ (j = method => i < at)
        BY <1>2, <1>6, <3>1, <4>1, <4>3 DEF BehindInv
      <4>4. CASE i # at /\ j = method /\ i > at
        <5>1. i \notin program.heads
          <6>1. i \in (at + 1) .. (at + WidthOf(program.units[at].what) - 1)
            BY <1>1, <1>2, <2>2, <3>1, <4>1, <4>4, InputType
          <6>2. QED
            BY <1>6, <2>1, <6>1, HeadFacts
        <5>2. insns[i] = given[i] /\ given[i] = program.units[i]
          BY <1>6, <4>1, <5>1, InputType DEF UnitsInv, InputInv
        <5>3. QED
          BY <1>2, <4>1, <4>4, <5>2 DEF Wanted
      <4>5. QED
        BY <1>1, <4>1, <4>2, <4>3, <4>4, InputType
    <3>2. QED
      BY <1>2, <3>1 DEF BehindInv, Wanted
  <2>10. QED
    BY <2>5, <2>8, <2>9
<1>7. QED
  BY <1>2, <1>5, <1>6

\* Every step keeps the inductive invariant.
LEMMA StepIInv == IInv /\ [Next]_vars => IInv'
<1> SUFFICES ASSUME IInv, [Next]_vars
             PROVE  IInv'
  OBVIOUS
<1>1. CASE NextMethod
  BY <1>1, NextMethodIInv
<1>2. CASE End
  BY <1>2, EndIInv
<1>3. CASE Fix
  BY <1>3, FixIInv
<1>4. CASE Leave
  BY <1>4, LeaveIInv
<1>5. CASE UNCHANGED vars
  BY <1>5 DEF vars, input, IInv, TypeOK, InputInv, PlaceInv, WalkInv, UnitsInv,
     BehindInv, Code, Wanted
<1>6. QED
  BY <1>1, <1>2, <1>3, <1>4, <1>5 DEF Next

----------------------------------------------------------------------------
(* The theorems *)

\* The inductive invariant: fixAll and fixOptInSns keep it, whatever the files.
THEOREM Invariance == Spec => []IInv
  BY InitIInv, StepIInv, PTL DEF Spec

\* The walk stays within its types: at in the file, len a size_t.
THEOREM TypeCorrect == Spec => []TypeOK
<1>1. IInv => TypeOK
  BY DEF IInv
<1>2. QED
  BY <1>1, Invariance, PTL

\* In a file as compilers make them the fixer writes instructions of the code
\* items it visits and nothing else (DexFixer.cpp:140-141).
THEOREM InstructionsWritten == Spec => []WritesInstructions
<1>1. IInv => WritesInstructions
  BY InputType DEF IInv, WritesInstructions, UnitsInv
<1>2. QED
  BY <1>1, Invariance, PTL

\* When it is done every replaced instruction of such a file is back
\* (DexFixer.cpp:186-360).
THEOREM AllRestored == Spec => []Restored
<1>1. IInv => Restored
  <2>1. SUFFICES ASSUME IInv, WellFormed(program), pc = "done", NEW i \in Code
                 PROVE  insns[i] = Wanted(i)
    BY DEF Restored
  <2>2. PICK j \in DOMAIN program.methods :
          program.methods[j].code /\ i \in CodeOf(program.methods[j])
    BY DEF Code
  <2>3. j \in 1 .. method
    BY <2>1, <2>2, InputType DEF IInv
  <2>4. QED
    BY <2>1, <2>2, <2>3 DEF IInv, BehindInv
<1>2. QED
  BY <1>1, Invariance, PTL

----------------------------------------------------------------------------
(* fixAll ends.  What is left to do is counted in methods, and in units of *)
(* the file behind the walk; the length left of the code item is no        *)
(* measure, because it wraps.                                              *)

MethodsLeft == Len(program.methods) - method

\* The most steps that one method takes.
Share == Len(program.units) + 2

Shares == MethodsLeft * Share

ToGo ==
  IF pc = "done" THEN 0
  ELSE IF pc = "walk" THEN 2 + Shares + (Len(program.units) - at)
  ELSE 1 + Shares

\* One method less is one share less.
LEMMA ShareOfOne ==
  ASSUME NEW a \in Nat, NEW b \in Nat
  PROVE  /\ a * b \in Nat
         /\ a > 0 => (a - 1) * b = a * b - b /\ a * b >= b
<1>1. a * b \in Nat
  OBVIOUS
<1>2. ASSUME a > 0
      PROVE  (a - 1) * b = a * b - b /\ a * b >= b
  <2>1. (a - 1) \in Nat
    BY <1>2
  <2>2. (a - 1) * b \in Nat
    BY <2>1
  <2>3. (a - 1) * b = a * b - b
    BY <1>2
  <2>4. QED
    BY <1>1, <2>2, <2>3
<1>3. QED
  BY <1>1, <1>2

\* What is left to do is a number, and none only at the end.
LEMMA ToGoType ==
  ASSUME IInv
  PROVE  /\ ToGo \in Nat /\ MethodsLeft \in Nat /\ Share \in Nat
         /\ ToGo = 0 => pc = "done"
<1>1. /\ MethodsLeft \in Nat /\ Share \in Nat
      /\ pc = "walk" => Len(program.units) - at \in Nat
  BY InputType DEF IInv, TypeOK, PlaceInv, MethodsLeft, Share
<1>2. Shares \in Nat
  BY <1>1, ShareOfOne DEF Shares
<1>3. pc \in {"method", "walk", "done"}
  BY DEF IInv, TypeOK
<1>4. QED
  BY <1>1, <1>2, <1>3 DEF ToGo

\* The units keep what they are.
LEMMA SameWhat == Spec => []SameWhatInv
<1>1. Init => SameWhatInv
  <2> SUFFICES ASSUME Init, NEW i \in DOMAIN insns
               PROVE  insns[i].what = program.units[i].what
    BY DEF SameWhatInv
  <2>1. IInv
    BY InitIInv
  <2>2. i \in DOMAIN given /\ program.units[i] \in Unit
    BY <2>1, InputType DEF IInv
  <2>3. given[i].what = program.units[i].what
    BY <2>1, <2>2, ReplacedType DEF IInv, InputInv, Forms
  <2>4. QED
    BY <2>3 DEF Init
<1>2. IInv /\ SameWhatInv /\ [Next]_vars => SameWhatInv'
  <2> SUFFICES ASSUME IInv, SameWhatInv, [Next]_vars
               PROVE  SameWhatInv'
    OBVIOUS
  <2>1. CASE Fix
    <3>1. at \in DOMAIN insns /\ insns[at] \in Unit
      BY <2>1, InputType DEF Fix, IInv, PlaceInv, TypeOK
    <3>2. Rewritten(insns[at], insns[at + 1]).what = insns[at].what
      BY <3>1, RewrittenType
    <3>3. QED
      BY <2>1, <3>1, <3>2, InputType DEF Fix, input, SameWhatInv, IInv, TypeOK
  <2>2. CASE NextMethod \/ End \/ Leave \/ UNCHANGED vars
    BY <2>2 DEF NextMethod, End, Leave, vars, input, SameWhatInv
  <2>3. QED
    BY <2>1, <2>2 DEF Next
<1>3. QED
  BY <1>1, <1>2, Invariance, PTL DEF Spec

\* What the walk stands on has a width.
LEMMA WidthPositive ==
  ASSUME IInv, SameWhatInv, WellFormed(program) \/ Sized(program), pc = "walk", left > 0
  PROVE  Width \in Nat \ {0}
<1>1. at \in DOMAIN insns /\ program.units[at] \in Unit /\ insns[at] \in Unit
  BY InputType DEF IInv, PlaceInv, TypeOK
<1>2. insns[at].what = program.units[at].what
  BY <1>1 DEF SameWhatInv
<1>3. CASE WellFormed(program)
  <2>1. at \in program.heads
    BY <1>3 DEF IInv, WalkInv, TypeOK
  <2>2. WidthOf(program.units[at].what) \in Nat \ {0}
    BY <1>3, <2>1, HeadFacts DEF IInv
  <2>3. QED
    BY <1>2, <2>2 DEF Width
<1>4. CASE Sized(program)
  <2>1. program.units[at].what # "unused" /\ program.units[at].what \in Whats
    BY <1>1, <1>4, InputType DEF Sized, Unit, IInv
  <2>2. WidthOf(insns[at].what) \in Nat \ {0}
    BY <1>2, <2>1, WidthNat
  <2>3. QED
    BY <2>2 DEF Width
<1>5. QED
  BY <1>3, <1>4

\* The walk moves on.
LEMMA WalkMoves ==
  ASSUME IInv, SameWhatInv, WellFormed(program) \/ Sized(program), Fix
  PROVE  Width \in Nat \ {0} /\ at' = at + Width /\ at' \in DOMAIN insns
BY WidthPositive DEF Fix, Valid

\* Every step leaves less to do.
LEMMA StepDescends ==
  ASSUME IInv, SameWhatInv, WellFormed(program) \/ Sized(program), Next
  PROVE  ToGo' \in Int /\ ToGo' < ToGo
<1> DEFINE L == Len(program.units)
           B == Shares
<1>1. /\ L \in Nat /\ MethodsLeft \in Nat /\ Share = L + 2 /\ B \in Nat
      /\ pc = "walk" => at \in 1 .. L
      /\ method \in Nat
  BY InputType, ToGoType, ShareOfOne DEF IInv, TypeOK, PlaceInv, Share, Shares
<1>2. CASE NextMethod
  <2>1. /\ MethodsLeft' = MethodsLeft - 1 /\ MethodsLeft > 0 /\ Share' = Share
        /\ Len(program.units)' = L
    BY <1>2, InputType DEF NextMethod, input, MethodsLeft, Share, IInv, TypeOK
  <2>2. B' = B - Share /\ B >= Share
    <3>1. Share \in Nat
      BY <1>1
    <3>2. /\ (MethodsLeft - 1) * Share = MethodsLeft * Share - Share
          /\ MethodsLeft * Share >= Share
      BY <1>1, <2>1, <3>1, ShareOfOne, Zenon
    <3>3. QED
      BY <2>1, <3>2 DEF Shares
  <2>3. pc = "method" /\ (pc' = "walk" => at' \in Nat \ {0}) /\ pc' \in {"method", "walk"}
    <3>1. method + 1 \in 1 .. Len(program.methods)
      BY <1>1, <1>2, InputType DEF NextMethod, IInv, TypeOK
    <3>2. program.methods[method + 1] \in Method
      BY <3>1, InputType DEF IInv
    <3>3. QED
      BY <1>2, <3>2 DEF NextMethod, Method
  <2>4. /\ ToGo = 1 + B
        /\ pc' = "walk" => ToGo' = 2 + B' + (L - at')
        /\ pc' # "walk" => ToGo' = 1 + B'
    BY <2>1, <2>3 DEF ToGo
  <2> HIDE DEF L, B
  <2>5. CASE pc' = "walk"
    BY <1>1, <2>2, <2>3, <2>4, <2>5
  <2>6. CASE pc' # "walk"
    BY <1>1, <2>2, <2>4, <2>6
  <2>7. QED
    BY <2>5, <2>6
<1>3. CASE End
  BY <1>1, <1>3 DEF End, ToGo
<1>4. CASE Fix
  <2>1. /\ B' = B /\ Len(program.units)' = L
        /\ pc = "walk" /\ pc' = "walk"
    BY <1>4 DEF Fix, input, MethodsLeft, Share, Shares
  <2>2. at' > at /\ at' \in 1 .. L
    BY <1>1, <1>4, <2>1, WalkMoves, InputType DEF IInv
  <2>3. ToGo = 2 + B + (L - at) /\ ToGo' = 2 + B + (L - at')
    BY <2>1 DEF ToGo
  <2>4. QED
    BY <1>1, <2>1, <2>2, <2>3
<1>5. CASE Leave
  <2>1. /\ B' = B
        /\ pc = "walk" /\ pc' = "method"
    BY <1>5 DEF Leave, input, MethodsLeft, Share, Shares
  <2>2. ToGo = 2 + B + (L - at) /\ ToGo' = 1 + B
    BY <2>1 DEF ToGo
  <2>3. QED
    BY <1>1, <2>1, <2>2
<1>6. QED
  BY <1>2, <1>3, <1>4, <1>5 DEF Next

\* Every step leaves less to do, so that fixAll takes finitely many, also over code items
\* that are cut off or shorter than their last instruction, whose rest wraps
\* (DexFixer.cpp:33-34, 88-141).
THEOREM StepsLeadOn ==
  ASSUME \A p \in Programs : WellFormed(p) \/ Sized(p)
  PROVE  Spec => [](ToGo \in Nat) /\ [][ToGo' < ToGo]_vars
<1>1. IInv => ToGo \in Nat
  BY ToGoType
<1>2. IInv /\ SameWhatInv /\ [Next]_vars => [ToGo' < ToGo]_vars
  BY StepDescends DEF IInv, TypeOK
<1>3. QED
  BY <1>1, <1>2, Invariance, SameWhat, PTL DEF Spec

\* The conditions of NextMethod, End, Leave and Fix, of which Fix, if what the walk
\* stands on has no width, changes nothing.
CanGo ==
  \/ pc = "method" /\ (method < Len(program.methods) \/ method = Len(program.methods))
  \/ pc = "walk" /\ (left = 0 \/ ~Valid)
  \/ pc = "walk" /\ left > 0 /\ Valid /\ Width > 0

\* An action whose conditions hold is enabled, which the provers do not look into.
GuardsSuffice == CanGo => ENABLED <<Next>>_vars

\* At every place of the walk fixAll can do something.
THEOREM NothingHoldsUp ==
  ASSUME \A p \in Programs : WellFormed(p) \/ Sized(p)
  PROVE  Spec /\ []GuardsSuffice => []NeverStuck
<1>1. IInv /\ SameWhatInv /\ GuardsSuffice => NeverStuck
  <2> SUFFICES ASSUME IInv, SameWhatInv, pc # "done"
               PROVE  CanGo
    BY DEF GuardsSuffice, NeverStuck
  <2>1. /\ WellFormed(program) \/ Sized(program)
        /\ pc \in {"method", "walk"} /\ method \in 0 .. Len(program.methods)
        /\ left \in Nat /\ Len(program.methods) \in Nat
    BY InputType DEF IInv, TypeOK
  <2>2. pc = "walk" /\ left > 0 => Width \in Nat \ {0}
    BY <2>1, WidthPositive
  <2>3. QED
    BY <2>1, <2>2 DEF CanGo
<1>2. QED
  BY <1>1, Invariance, SameWhat, PTL

\* From a state with at most n steps to go fixAll ends.
EndsWithin(n) ==
  FairSpec /\ []NeverStuck => [](ToGo <= n => <>(pc = "done"))

\* Induction on the number of steps to go.  It is true whatever P says, but no set can
\* hold the numbers a temporal formula is true of, so that the library's theorem,
\* NatInduction, does not give it: the theorem below takes this instance as a hypothesis.
Induction(P(_)) == P(0) /\ (\A n \in Nat : P(n) => P(n + 1)) => \A n \in Nat : P(n)
StepInduction == Induction(EndsWithin)

\* fixAll ends in every file without the opcodes that have no instruction, however its
\* code items are cut off, and in every file as compilers make them
\* (DexFixer.cpp:33-34, 88-141).  That a step whose conditions hold is enabled is a
\* hypothesis, for the provers do not look into ENABLED; so is the induction.
THEOREM FixerEnds ==
  ASSUME \A p \in Programs : WellFormed(p) \/ Sized(p)
  PROVE  FairSpec /\ []GuardsSuffice /\ StepInduction => FixEnds
<1>1. IInv => ToGo \in Nat /\ (WellFormed(program) \/ Sized(program))
  BY ToGoType DEF IInv, TypeOK
<1>2. IInv /\ ToGo <= 0 => pc = "done"
  BY ToGoType
<1>3. EndsWithin(0)
  BY <1>2, Invariance, PTL DEF EndsWithin, FairSpec
<1>4. ASSUME NEW n \in Nat
      PROVE  EndsWithin(n) => EndsWithin(n + 1)
  <2>1. IInv /\ SameWhatInv /\ ToGo <= n + 1 /\ <<Next>>_vars => (ToGo <= n)'
    BY <1>1, StepDescends
  <2>2. IInv /\ SameWhatInv /\ ToGo <= n + 1 /\ [Next]_vars => (ToGo <= n + 1)'
    <3>1. ASSUME UNCHANGED vars
          PROVE  ToGo' = ToGo
      BY <3>1 DEF vars, input, ToGo, MethodsLeft, Share, Shares
    <3>2. QED
      BY <1>1, <3>1, StepDescends
  <2>3. NeverStuck /\ ~(pc = "done") => ENABLED <<Next>>_vars
    BY DEF NeverStuck
  <2>4. QED
    BY <2>1, <2>2, <2>3, Invariance, SameWhat, PTL DEF EndsWithin, FairSpec, Spec
<1>5. \A n \in Nat : EndsWithin(n) => EndsWithin(n + 1)
  BY <1>4
<1>6. StepInduction => \A n \in Nat : EndsWithin(n)
  BY <1>3, <1>5 DEF StepInduction, Induction
<1>7. \A n \in Nat :
        FairSpec /\ []NeverStuck /\ StepInduction => (ToGo = n => <>(pc = "done"))
  <2> SUFFICES ASSUME NEW n \in Nat
               PROVE  FairSpec /\ []NeverStuck /\ StepInduction => (ToGo = n => <>(pc = "done"))
    OBVIOUS
  <2>1. StepInduction => EndsWithin(n)
    BY <1>6
  <2>2. ToGo = n => ToGo <= n
    OBVIOUS
  <2>3. QED
    BY <2>1, <2>2, PTL DEF EndsWithin
<1>8. FairSpec => ToGo \in Nat
  BY <1>1, Invariance, PTL DEF FairSpec
<1>9. FairSpec /\ []GuardsSuffice => []NeverStuck
  BY NothingHoldsUp, PTL DEF FairSpec
<1>10. QED
  BY <1>7, <1>8, <1>9 DEF FixEnds

====
